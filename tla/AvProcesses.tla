------------------------------ MODULE AvProcesses ------------------------------
(***************************************************************************)
(* The process part of class AvDiagnostics.  It follows the groups of the  *)
(* document that is loaded; a document without a group of processes is one *)
(* in which nothing is followed.  A group goes by its node; its status is  *)
(* TRUE for RUNNING.                                                       *)
(***************************************************************************)
EXTENDS AvDocument

CONSTANTS
  AvProcessNames,  \* the names config.xml mentions
  AvGroups,        \* its groups, by node
  AvMembers,       \* AvMembers[g]: the processes of group g
  AvGroupType,     \* AvGroupType[g]: the type of node g
  AvSkipped        \* the groups whose logic is given and not AND

(***************************************************************************)
(* A section gives the groups it has an element for.                       *)
(***************************************************************************)
ASSUME AvProcessesAssumption ==
  /\ AvGroups \subseteq NodeIds
  /\ \A g \in AvGroups : AvMembers[g] \subseteq AvProcessNames /\ AvMembers[g] # {}
  /\ \A g \in AvGroups : AvGroupType[g] \in {"BOOL", "INT", "REAL", "STRING"}
  /\ AvSkipped \subseteq AvGroups
  /\ Editions("processes") \subseteq SUBSET AvGroups

VARIABLES
  listed,                    \* history: what ps listed last
  current_process_states_,   \* the statuses of the groups
  last_sent_process_states_

avProcVars == <<listed, current_process_states_, last_sent_process_states_>>

AvRunningAny(g) == AvMembers[g] \cap listed' # {}   \* mutant: one is enough

AvRunning(g) == AvMembers[g] \subseteq listed'

(***************************************************************************)
(* detectProcessChanges                                                    *)
(***************************************************************************)
ProcessesChanged ==
  \E g \in DOMAIN current_process_states_ :
    g \in DOMAIN last_sent_process_states_ =>
      last_sent_process_states_[g] # current_process_states_[g]

AvMemberFor(type) ==
  IF type \in {"BOOL", "INT"} THEN "i" ELSE IF type = "REAL" THEN "f" ELSE "s"

AsNumber(status) == IF status THEN 1 ELSE 0

AvGroupConfig(g, status, any) ==
  [WriteConfig(g, AvGroupType[g], AvMemberFor(AvGroupType[g]), AsNumber(status))
     EXCEPT !.allowed = any]

-------------------------------------------------------------------------------
AvProcessesTypeOK ==
  /\ listed \subseteq AvProcessNames
  /\ current_process_states_ \in PartialMaps(AvGroups, BOOLEAN)
  /\ last_sent_process_states_ \in PartialMaps(AvGroups, BOOLEAN)

AvProcessesInit ==
  /\ listed = {}
  /\ current_process_states_ = EmptyMap
  /\ last_sent_process_states_ = EmptyMap

(***************************************************************************)
(* collectProcessStates.  A missing element <Processes> ends its loop at   *)
(* once, a missing root does not.                                          *)
(***************************************************************************)
FollowedGroups == IF doc_ = NoSection THEN {} ELSE doc_ \ AvSkipped

collectProcessStates ==
  /\ Goes("idle", "collected")
  /\ doc_ # NoRoot
  /\ listed' \in SUBSET AvProcessNames
  /\ current_process_states_' = [g \in FollowedGroups |-> AvRunning(g)]
  /\ UNCHANGED <<opcVars, batch, last_sent_process_states_>>

collectProcessStatesCrash ==
  /\ av_pc = "idle"
  /\ doc_ = NoRoot
  /\ Crash
  /\ UNCHANGED avProcVars

AvProcessesKept ==
  /\ Goes("collected", "idle")
  /\ ~ProcessesChanged
  /\ UNCHANGED <<opcVars, batch, avProcVars>>

(***************************************************************************)
(* The loop of sendProcessMetrics: the status goes into the cache with the *)
(* WriteConfig, whose allowed nobody sets, into the batch.                 *)
(***************************************************************************)
sendProcessMetrics ==
  /\ Goes("collected", "connect")
  /\ ProcessesChanged
  /\ \E any \in [DOMAIN current_process_states_ -> Indeterminate] :
       batch' = {AvGroupConfig(g, current_process_states_[g], any[g]) :
                   g \in DOMAIN current_process_states_}
  /\ last_sent_process_states_' =
       Merge(last_sent_process_states_, current_process_states_)
  /\ UNCHANGED <<opcVars, listed, current_process_states_>>

AvProcessesStep ==
  \/ collectProcessStates \/ collectProcessStatesCrash \/ AvProcessesKept
  \/ sendProcessMetrics
  \/ AvSend /\ UNCHANGED avProcVars

-------------------------------------------------------------------------------
(***************************************************************************)
(* Between two cycles the node of every group followed tells whether all   *)
(* its members were listed last, unless the server missed the status       *)
(* handed over last.  Concerns the cache that is filled before the         *)
(* connection is looked at, and the flag that may drop the config.         *)
(***************************************************************************)
AvGroupShown ==
  av_pc = "idle" =>
    \A g \in DOMAIN current_process_states_ :
      g \notin missed => nodes[g] = AsNumber(AvMembers[g] \subseteq listed)
===============================================================================
