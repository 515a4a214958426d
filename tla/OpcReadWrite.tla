------------------------------ MODULE OpcReadWrite -----------------------------
(***************************************************************************)
(* The methods of class OpcUaClient (src/opcuaclient.cpp) that no channel  *)
(* calls: Write of a single config, Read of a single node, Read of many.   *)
(* A caller keeps one config or result per node and calls them at will,    *)
(* while the server and its other clients go on.                           *)
(***************************************************************************)
EXTENDS OpcUaClient, Maps

CONSTANTS
  NodeTypes,    \* the types configs may give the nodes
  NodeValues,   \* what the nodes may hold, of which 16 bits do not hold all
  HighHalves    \* what may follow a 16 bit value in memory

ASSUME OpcReadWriteAssumption ==
  /\ NodeTypes \subseteq [NodeIds -> types_]
  /\ NodeValues \subseteq Nat
  /\ \A high \in HighHalves : high \in Nat /\ high < 65536
  /\ HighHalves # {}

VARIABLES
  node_type,  \* node_type[n]: the type the configs give node n
  client_pc,  \* "crashed" when undefined behaviour has ended the caller
  allowed,    \* the nodes whose config is allowed
  results,    \* the values read, by node
  held        \* history: what every node ever held

rwVars == <<node_type, client_pc, allowed, results, held>>

HalfWidth == {"INT", "UINT", "WORD"}

ValuesOf(n) ==
  IF node_type[n] \in HalfWidth THEN {v \in NodeValues : v < 65536} ELSE NodeValues

(***************************************************************************)
(* The 16 bit types are read through a pointer to int, which takes in the  *)
(* two bytes behind them; no branch is for BOOL, whose result keeps what   *)
(* its memory held; a UA_String read as a std::string is undefined.        *)
(***************************************************************************)
ReadAs(type, v) ==
  IF type \in HalfWidth THEN {v + 65536 * high : high \in HighHalves}
  ELSE IF type \in {"BOOL", "STRING"} THEN {Garbage} ELSE {v}

-------------------------------------------------------------------------------
OpcReadWriteTypeOK ==
  /\ OpcTypeOK
  /\ node_type \in NodeTypes
  /\ client_pc \in {"ready", "crashed"}
  /\ allowed \subseteq NodeIds
  /\ DOMAIN results \subseteq NodeIds
  /\ held \in [NodeIds -> SUBSET NodeValues]

OpcReadWriteInit ==
  /\ OpcInit
  /\ node_type \in NodeTypes
  /\ client_pc = "ready"
  /\ allowed = NodeIds
  /\ results = EmptyMap
  /\ held = [n \in NodeIds |-> {}]

ClientCrash ==
  /\ client_pc' = "crashed"
  /\ UNCHANGED <<opcVars, node_type, allowed, results, held>>

(***************************************************************************)
(* Write(WriteConfig&).  A config that is not allowed leaves the item of   *)
(* the request as its memory was: in the best case nothing the server      *)
(* knows.  One of type STRING has the library take a std::string for a     *)
(* UA_String, whose length it may find too large to be sent; one of type   *)
(* BOOL goes out without a value, which the server refuses.                *)
(***************************************************************************)
WriteOneUndefined(n) ==
  /\ client_pc = "ready"
  /\ n \notin allowed \/ node_type[n] = "STRING"
  /\ ClientCrash

WriteOneIgnored(n) ==
  /\ client_pc = "ready"
  /\ n \notin allowed
  /\ serverUp
  /\ session' = TRUE
  /\ UNCHANGED <<serverUp, nodes, missed, rwVars>>

WriteOneLost(n) ==
  /\ client_pc = "ready"
  /\ n \in allowed
  /\ ~serverUp \/ node_type[n] = "STRING"
  /\ allowed' = allowed \ {n}
  /\ missed' = missed \cup {n}
  /\ Disconnect
  /\ UNCHANGED <<serverUp, nodes, node_type, client_pc, results, held>>

WriteOneGood(n) ==
  /\ client_pc = "ready"
  /\ n \in allowed
  /\ node_type[n] # "STRING"
  /\ serverUp
  /\ allowed' = allowed \ {n}
  /\ IF n \in Accepted /\ node_type[n] # "BOOL"
       THEN \E v \in ValuesOf(n) :
              /\ nodes' = [nodes EXCEPT ![n] = v]
              /\ held' = [held EXCEPT ![n] = @ \cup {v}]
              /\ missed' = missed \ {n}
       ELSE /\ missed' = missed \cup {n}
            /\ UNCHANGED <<nodes, held>>
  /\ session' = TRUE
  /\ UNCHANGED <<serverUp, node_type, client_pc, results>>

(***************************************************************************)
(* The caller fills in the config of n once more.                          *)
(***************************************************************************)
Refill(n) ==
  /\ client_pc = "ready"
  /\ allowed' = allowed \cup {n}
  /\ UNCHANGED <<opcVars, node_type, client_pc, results, held>>

(***************************************************************************)
(* Read of one node or of several.  Nodes without a value, or with a       *)
(* quality worse than plainly uncertain, keep the result they had.         *)
(***************************************************************************)
ReadUnchecked(ns) ==         \* mutant: hasValue is not looked at
  /\ client_pc = "ready"
  /\ serverUp
  /\ \E got \in [ns -> {nodes[n] : n \in NodeIds}] :
       /\ \A n \in ns : got[n] = nodes[n]
       /\ results' = Merge(results, got)
  /\ session' = TRUE
  /\ UNCHANGED <<serverUp, nodes, missed, node_type, client_pc, allowed, held>>

ReadGood(ns) ==
  /\ client_pc = "ready"
  /\ serverUp
  /\ \E good \in SUBSET {n \in ns : nodes[n] # NoValue} :
       \E got \in [good -> UNION {ReadAs(node_type[n], nodes[n]) : n \in good}] :
         /\ \A n \in good : got[n] \in ReadAs(node_type[n], nodes[n])
         /\ results' = Merge(results, got)
  /\ session' = TRUE
  /\ UNCHANGED <<serverUp, nodes, missed, node_type, client_pc, allowed, held>>

ReadUndefined(ns) ==
  /\ client_pc = "ready"
  /\ serverUp
  /\ \E n \in ns : node_type[n] = "STRING" /\ nodes[n] # NoValue
  /\ ClientCrash

CallLost ==   \* also a Write whose config is not allowed
  /\ client_pc = "ready"
  /\ ~serverUp
  /\ Disconnect
  /\ UNCHANGED <<serverUp, nodes, missed, rwVars>>

(***************************************************************************)
(* Another client of the server writes node n.                             *)
(***************************************************************************)
OtherClientWrites(n) ==
  /\ serverUp
  /\ \E v \in ValuesOf(n) :
       /\ nodes' = [nodes EXCEPT ![n] = v]
       /\ held' = [held EXCEPT ![n] = @ \cup {v}]
  /\ UNCHANGED <<serverUp, session, missed, node_type, client_pc, allowed,
                 results>>

OpcReadWriteNext ==
  \/ \E n \in NodeIds :
       \/ WriteOneUndefined(n) \/ WriteOneIgnored(n) \/ WriteOneLost(n)
       \/ WriteOneGood(n)
       \/ Refill(n) \/ OtherClientWrites(n)
  \/ \E ns \in (SUBSET NodeIds) \ {{}} : ReadGood(ns) \/ ReadUndefined(ns)
  \/ CallLost
  \/ (ServerDown \/ ServerBack \/ ServerRestarted) /\ UNCHANGED rwVars

-------------------------------------------------------------------------------
WasHeld(n, result) ==
  IF node_type[n] \in {"BOOL", "STRING"} THEN result = Garbage
  ELSE \E v \in held[n] :
         result = v \/ (node_type[n] \in HalfWidth /\ Low16(result) = v)

(***************************************************************************)
(* A result is a value its node has held, now or before, in the width of   *)
(* its type: the server going away, restarting or refusing never makes up  *)
(* one.  Of a 16 bit type only the low half is; of a BOOL or a STRING      *)
(* nothing is.  Concerns both Read methods.                                *)
(***************************************************************************)
ResultsWereHeld == \A n \in DOMAIN results : WasHeld(n, results[n])
===============================================================================
