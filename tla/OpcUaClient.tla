------------------------------ MODULE OpcUaClient ------------------------------
(***************************************************************************)
(* class OpcUaClient (src/opcuaclient.cpp) and, as its environment, the    *)
(* OPC UA server and the open62541 client library.                         *)
(*                                                                         *)
(* Every channel of the monitor hands batches of WriteConfig records to    *)
(* Write and keeps a "last sent" cache of its own.  Write returns void: a  *)
(* caller never learns whether the server stored anything.  The history    *)
(* variable missed records what the code does not: the nodes whose latest  *)
(* value handed to the client is not what the server holds because it was  *)
(* refused, dropped, lost, or forgotten by a server restart.               *)
(***************************************************************************)
EXTENDS Integers, FiniteSets

CONSTANTS
  NodeIds,   \* the node ids config.xml names
  Accepted,  \* the nodes the server lets this client write; a write to
             \* another one gets a bad per-item status, which nobody reads
  NoValue,   \* what a node holds before anybody writes it
  Garbage    \* what Write takes from a Value member nobody stored into

NoNode == ""   \* the node id of what config.xml gives no node

ASSUME AcceptedAssumption == Accepted \subseteq NodeIds

ASSUME NodeIdsAssumption == NoNode \notin NodeIds

VARIABLES
  serverUp,       \* the server answers
  session,        \* open62541 holds an open session
  nodes,          \* nodes[n]: the value the server holds for node n
  missed          \* history: see above

opcVars == <<serverUp, session, nodes, missed>>

(***************************************************************************)
(* The node types Write serves; it drops a config of any other type.       *)
(***************************************************************************)
types_ == {"INT", "UINT", "WORD", "DINT", "UDINT", "DWORD", "REAL", "BOOL",
           "STRING"}

(***************************************************************************)
(* A WriteConfig carries a union {i, u, f, b} and a string s.  The caller  *)
(* stores one member (c.member), Write reads the one its type selects.     *)
(* The integer members overlay each other, so i, u and b agree on the      *)
(* small non-negative numbers the callers store; f and s agree with        *)
(* nothing else.  16-bit types keep the low 16 bits.                       *)
(***************************************************************************)
IntegerMembers == {"i", "u", "b"}

MembersOf(type) ==
  IF type = "STRING" THEN {"s"}
  ELSE IF type = "REAL" THEN {"f"} ELSE IntegerMembers

Low16(v) == v % 65536

Int16(v) == IF Low16(v) < 32768 THEN Low16(v) ELSE Low16(v) - 65536

Wire(c) ==
  IF c.member \notin MembersOf(c.type) THEN Garbage
  ELSE IF c.type = "INT" THEN Int16(c.val)
  ELSE IF c.type \in {"UINT", "WORD"} THEN Low16(c.val) ELSE c.val

WriteConfig(n, t, m, v) ==
  [allowed |-> TRUE, node_id |-> n, type |-> t, member |-> m, val |-> v]

NodesOf(configs) == {c.node_id : c \in configs}

(***************************************************************************)
(* The items of a request: the configs that are allowed and of a known     *)
(* type.  Write clears their allowed flag before it calls the server.      *)
(***************************************************************************)
Items(configs) == {c \in configs : c.type \in types_ /\ c.allowed}

Stored(configs) == {c \in Items(configs) : c.node_id \in Accepted}

Overlay(configs) ==
  [n \in NodeIds |->
     IF n \in NodesOf(configs)
       THEN Wire(CHOOSE c \in configs : c.node_id = n)
       ELSE nodes[n]]

-------------------------------------------------------------------------------
OpcTypeOK ==
  /\ serverUp \in BOOLEAN
  /\ session \in BOOLEAN
  /\ DOMAIN nodes = NodeIds
  /\ missed \subseteq NodeIds

(***************************************************************************)
(* The constructor calls Connect once, with whatever result.               *)
(***************************************************************************)
OpcInit ==
  /\ serverUp \in BOOLEAN
  /\ session = serverUp
  /\ nodes = [n \in NodeIds |-> NoValue]
  /\ missed = {}

(***************************************************************************)
(* Connect, and CheckConnection, which only calls it.  UA_Client_connect   *)
(* answers GOOD at once while the library believes in its session, and     *)
(* otherwise opens one, which takes a server that answers.  The member     *)
(* is_connected_ keeps the answer; no method reads it, so it is left out.  *)
(***************************************************************************)
CheckConnectionOnce(ok) ==   \* mutant: a lost session is never reopened
  /\ ok = session
  /\ session' = ok

CheckConnection(ok) ==
  /\ ok = (session \/ serverUp)
  /\ session' = ok

Disconnect == session' = FALSE

(***************************************************************************)
(* Write(std::vector<WriteConfig>&).                                       *)
(***************************************************************************)
WriteNothing(configs) ==          \* items.empty(): return
  /\ Items(configs) = {}
  /\ missed' = missed \cup NodesOf(configs)
  /\ UNCHANGED <<serverUp, session, nodes>>

Store(configs) ==
  /\ nodes' = Overlay(Stored(configs))
  /\ missed' = (missed \cup NodesOf(configs)) \ NodesOf(Stored(configs))

WriteGood(configs) ==             \* the service call reopens the session
  /\ Items(configs) # {}
  /\ serverUp
  /\ Store(configs)
  /\ session' = TRUE
  /\ UNCHANGED serverUp

WriteLost(configs) ==             \* a bad serviceResult: Disconnect
  /\ Items(configs) # {}
  /\ ~serverUp
  /\ missed' = missed \cup NodesOf(configs)
  /\ Disconnect
  /\ UNCHANGED <<serverUp, nodes>>

WriteNoReply(configs) ==          \* stored, but the server dies on the reply
  /\ Items(configs) # {}
  /\ serverUp
  /\ Store(configs)
  /\ serverUp' = FALSE
  /\ Disconnect

Write(configs) ==
  \/ WriteNothing(configs)
  \/ WriteGood(configs)
  \/ WriteLost(configs)
  \/ WriteNoReply(configs)

(***************************************************************************)
(* The environment: the server or the network goes away and comes back,    *)
(* with the stored values or, after a restart, without them.               *)
(***************************************************************************)
ServerDown ==
  /\ serverUp
  /\ serverUp' = FALSE
  /\ UNCHANGED <<session, nodes, missed>>

ServerBack ==
  /\ ~serverUp
  /\ serverUp' = TRUE
  /\ UNCHANGED <<session, nodes, missed>>

ServerRestarted ==
  /\ ~serverUp
  /\ serverUp' = TRUE
  /\ nodes' = [n \in NodeIds |-> NoValue]
  /\ missed' = missed \cup {n \in NodeIds : nodes[n] # NoValue}
  /\ UNCHANGED session

(***************************************************************************)
(* The channels share one client, one after the other.  For a channel all  *)
(* the others do is to leave the session as the server is (their nodes are *)
(* not its nodes); with this step what is shown of a channel alone holds   *)
(* of it among the others.                                                 *)
(***************************************************************************)
OthersCall ==
  /\ session' = serverUp
  /\ UNCHANGED <<serverUp, nodes, missed>>

ServerStep == ServerDown \/ ServerBack \/ ServerRestarted \/ OthersCall
===============================================================================
