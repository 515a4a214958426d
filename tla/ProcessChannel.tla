---------------------------- MODULE ProcessChannel -----------------------------
(***************************************************************************)
(* The process channel of the monitor (src/main.cpp, section Processes):   *)
(* each group of processes in config.xml has a node that tells whether all *)
(* of them run.  A cycle reads config.xml and the output of ps, and when   *)
(* the status of some group differs from the one it remembers, it          *)
(* remembers the status of every group and then, if the connection stands, *)
(* hands them to the OPC UA client.                                        *)
(*                                                                         *)
(* Status RUNNING is 1, NOT_RUNNING is 0, in whatever form the node's type *)
(* gives it.  A group goes by its node.                                    *)
(***************************************************************************)
EXTENDS OpcUaClient, Maps

CONSTANTS
  Processes,     \* the names config.xml mentions
  Groups,        \* its groups, by node
  Members,       \* Members[g]: the processes of group g
  AndGroups,     \* the groups with logic AND or none; others are skipped
  GroupType,     \* GroupType[g]: the type of node g
  Indeterminate  \* what a bool nobody initialised may read as

ASSUME ProcessAssumption ==
  /\ Groups \subseteq NodeIds
  /\ AndGroups \subseteq Groups
  /\ \A g \in Groups : Members[g] \subseteq Processes /\ Members[g] # {}
  /\ \A g \in Groups : GroupType[g] \in {"BOOL", "INT", "REAL", "STRING"}
  /\ Indeterminate \subseteq BOOLEAN /\ Indeterminate # {}
  /\ NoValue \notin {0, 1}

VARIABLES
  pc,                \* where the cycle is
  seen,              \* history: the processes the last ps listed
  current_states,    \* the groups' states collected, by node
  last_sent_states,
  writes             \* the batch of send_process_metrics

procVars == <<pc, seen, current_states, last_sent_states, writes>>
vars == <<opcVars, procVars>>

Status == {0, 1}

GroupStatusAny(g) ==    \* mutant: one member is enough
  IF Members[g] \cap seen' # {} THEN 1 ELSE 0

GroupStatus(g) == IF Members[g] \subseteq seen' THEN 1 ELSE 0

Moved(g) == g \in DOMAIN last_sent_states =>
              last_sent_states[g] # current_states[g]

(***************************************************************************)
(* detect_process_changes                                                  *)
(***************************************************************************)
Changed == \E g \in DOMAIN current_states : Moved(g)

MemberFor(type) ==
  IF type \in {"BOOL", "INT"} THEN "i" ELSE IF type = "REAL" THEN "f" ELSE "s"

(***************************************************************************)
(* The WriteConfig of send_process_metrics: nobody sets its allowed.       *)
(***************************************************************************)
GroupConfig(g, status, any) ==
  [WriteConfig(g, GroupType[g], MemberFor(GroupType[g]), status)
     EXCEPT !.allowed = any]

-------------------------------------------------------------------------------
ProcTypeOK ==
  /\ OpcTypeOK
  /\ pc \in {"collect", "detect", "connect", "write"}
  /\ seen \subseteq Processes
  /\ current_states \in PartialMaps(AndGroups, Status)
  /\ last_sent_states \in PartialMaps(AndGroups, Status)
  /\ \A c \in writes : c.node_id \in AndGroups

ProcInit ==
  /\ OpcInit
  /\ pc = "collect"
  /\ seen = {}
  /\ current_states = EmptyMap
  /\ last_sent_states = EmptyMap
  /\ writes = {}

AnyLogic(groups) == groups      \* mutant: the logic attribute is ignored

Followed(groups) == groups \cap AndGroups

(***************************************************************************)
(* collect_process_states: config.xml as it is now (anybody may edit it; a *)
(* file that cannot be read gives no groups), and the processes that ps    *)
(* lists now (none when it cannot be started).                             *)
(***************************************************************************)
Collect ==
  /\ pc = "collect"
  /\ \E groups \in SUBSET Groups, listed \in SUBSET Processes :
       /\ seen' = listed
       /\ current_states' = [g \in Followed(groups) |-> GroupStatus(g)]
  /\ pc' = "detect"
  /\ UNCHANGED <<opcVars, last_sent_states, writes>>

KeepSilent ==
  /\ pc = "detect"
  /\ ~Changed
  /\ pc' = "collect"
  /\ UNCHANGED <<opcVars, seen, current_states, last_sent_states, writes>>

BuildFromCache ==       \* mutant: the batch is built from the old cache
  /\ pc = "detect"
  /\ Changed
  /\ \E any \in [DOMAIN last_sent_states -> Indeterminate] :
       writes' = {GroupConfig(g, last_sent_states[g], any[g]) :
                    g \in DOMAIN last_sent_states}
  /\ last_sent_states' = Merge(last_sent_states, current_states)
  /\ pc' = "connect"
  /\ UNCHANGED <<opcVars, seen, current_states>>

BuildMoved ==           \* mutant: only the groups that moved go into the batch
  /\ pc = "detect"
  /\ Changed
  /\ \E any \in [DOMAIN current_states -> Indeterminate] :
       writes' = {GroupConfig(g, current_states[g], any[g]) :
                    g \in {h \in DOMAIN current_states : Moved(h)}}
  /\ last_sent_states' = Merge(last_sent_states, current_states)
  /\ pc' = "connect"
  /\ UNCHANGED <<opcVars, seen, current_states>>

(***************************************************************************)
(* The loop of send_process_metrics: every group goes into the batch and   *)
(* into the cache, before the connection is looked at.                     *)
(***************************************************************************)
Build ==
  /\ pc = "detect"
  /\ Changed
  /\ \E any \in [DOMAIN current_states -> Indeterminate] :
       writes' = {GroupConfig(g, current_states[g], any[g]) :
                    g \in DOMAIN current_states}
  /\ last_sent_states' = Merge(last_sent_states, current_states)
  /\ pc' = "connect"
  /\ UNCHANGED <<opcVars, seen, current_states>>

Connected ==
  /\ pc = "connect"
  /\ CheckConnection(TRUE)
  /\ pc' = "write"
  /\ UNCHANGED <<serverUp, nodes, missed, seen,
                 current_states, last_sent_states, writes>>

NotConnected ==         \* the batch is dropped
  /\ pc = "connect"
  /\ CheckConnection(FALSE)
  /\ missed' = missed \cup NodesOf(writes)
  /\ writes' = {}
  /\ pc' = "collect"
  /\ UNCHANGED <<serverUp, nodes, seen, current_states,
                 last_sent_states>>

Send ==
  /\ pc = "write"
  /\ Write(writes)
  /\ writes' = {}
  /\ pc' = "collect"
  /\ UNCHANGED <<seen, current_states, last_sent_states>>

Cycle ==
  \/ Collect \/ KeepSilent \/ Build \/ Connected \/ NotConnected \/ Send

Environment == ServerStep /\ UNCHANGED procVars

ProcNext == Cycle \/ Environment

ProcSpec == ProcInit /\ [][ProcNext]_vars

(***************************************************************************)
(* The main loop never stops.                                              *)
(***************************************************************************)
ProcFairSpec == ProcSpec /\ WF_vars(Cycle)
-------------------------------------------------------------------------------
(***************************************************************************)
(* Between two cycles the node of every group collected last tells whether *)
(* all its members were in the last ps, unless the server missed the value *)
(* handed over last.  Concerns collect_, detect_ and send_process_...: the *)
(* cache is written before the connection is known to stand.               *)
(***************************************************************************)
GroupShown ==
  pc = "collect" =>
    \A g \in DOMAIN current_states :
      g \notin missed => nodes[g] = IF Members[g] \subseteq seen THEN 1 ELSE 0

(***************************************************************************)
(* A batch written while the server answers reaches every node of it that  *)
(* the server lets us write.                                               *)
(***************************************************************************)
HandedIsShown ==
  [][Send /\ serverUp /\ serverUp' =>
       \A c \in writes : c.node_id \in Accepted => c.node_id \notin missed']_vars

(***************************************************************************)
(* A status the server missed is made up for once the server stays up and  *)
(* some group keeps changing, because every group goes into every batch;   *)
(* but only if from then on the flag nobody set happens to read TRUE.      *)
(***************************************************************************)
AllAllowed == \A c \in writes : c.allowed

MissedIsMadeUpFor ==
  \A g \in AndGroups \cap Accepted :
    (/\ <>[](serverUp /\ AllAllowed)
     /\ []<>(pc = "detect" /\ Changed /\ g \in DOMAIN current_states))
      => []<>(g \notin missed)

(***************************************************************************)
(* The channel implements Publication; from Build to the end of the write  *)
(* the nodes of the batch count as missed.                                 *)
(***************************************************************************)
SentTo(n) ==
  IF n \in DOMAIN last_sent_states
    THEN Wire(GroupConfig(n, last_sent_states[n], TRUE))
    ELSE NoValue

Pub == INSTANCE Publication WITH
         Keys <- NodeIds, Values <- Status,
         sent <- [n \in NodeIds |-> SentTo(n)], shown <- nodes,
         missed <- missed \cup NodesOf(writes)

ProcPublishes == Pub!PubSpec
===============================================================================
