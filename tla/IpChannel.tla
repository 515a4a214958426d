------------------------------- MODULE IpChannel -------------------------------
(***************************************************************************)
(* The IP channel of the monitor (src/main.cpp, section IP): each group of *)
(* addresses in config.xml has a node that tells whether all of them, or   *)
(* one of them, answered a ping.  A cycle reads config.xml twice (for the  *)
(* groups and, inside the IpChecker, for the addresses), compares every    *)
(* address and every group with what it remembers, remembers the new       *)
(* states, and hands the groups that changed to the OPC UA client if the   *)
(* connection stands.                                                      *)
(*                                                                         *)
(* Addresses and group nodes share one map; a group goes by its node.      *)
(***************************************************************************)
EXTENDS OpcUaClient, Maps

CONSTANTS
  Ips,           \* the addresses config.xml mentions
  Groups,        \* its groups, by node
  Members,       \* Members[g]: the addresses of group g
  AndGroups,     \* the groups with logic AND; the others have logic OR
  GroupFiles,    \* the sets of groups a read of config.xml may give, {} if
                 \* it fails
  AddressFiles,  \* the sets of addresses a read may give
  EmptyNode,     \* the empty node id of an IpState nobody filled in
  Indeterminate  \* what a bool nobody initialised may read as

ASSUME IpAssumption ==
  /\ Groups \subseteq NodeIds
  /\ Ips \cap NodeIds = {}
  /\ \A g \in Groups : Members[g] \subseteq Ips /\ Members[g] # {}
  /\ AndGroups \subseteq Groups
  /\ GroupFiles \subseteq SUBSET Groups
  /\ AddressFiles \subseteq SUBSET Ips
  /\ EmptyNode \in NodeIds \ (Groups \cup Accepted)
  /\ Indeterminate \subseteq BOOLEAN /\ Indeterminate # {}
  /\ NoValue \notin {0, 1}

VARIABLES
  pc,              \* where the cycle is
  reachable,       \* history: the addresses the last check found connected
  current_states,  \* connected, by address and by group
  changed,         \* the same for what changed since the last cycle
  is_group_result, \* that flag of the states in changed
  last_sent_ips,
  unhanded         \* history: groups remembered by the last Send that
                   \* concerned them without being part of its batch

ipVars == <<pc, reachable, current_states, changed, is_group_result,
            last_sent_ips, unhanded>>
vars == <<opcVars, ipVars>>

States == PartialMaps(Ips \cup Groups, BOOLEAN)

-------------------------------------------------------------------------------
IpTypeOK ==
  /\ OpcTypeOK
  /\ pc \in {"collect", "detect", "connect", "write"}
  /\ reachable \subseteq Ips
  /\ current_states \in States
  /\ changed \in States
  /\ is_group_result \in [DOMAIN changed -> BOOLEAN]
  /\ last_sent_ips \in States
  /\ unhanded \subseteq Groups

IpInit ==
  /\ OpcInit
  /\ pc = "collect"
  /\ reachable = {}
  /\ current_states = EmptyMap
  /\ changed = EmptyMap
  /\ is_group_result = EmptyMap
  /\ last_sent_ips = EmptyMap
  /\ unhanded = {}

(***************************************************************************)
(* The states collect_ip_states forms: up are the addresses found          *)
(* connected, ips and groups what the two reads of config.xml gave.        *)
(***************************************************************************)
GroupUp(g, up) ==
  IF g \in AndGroups THEN Members[g] \subseteq up ELSE Members[g] \cap up # {}

StatesOfAnd(groups, ips, up) ==   \* mutant: the logic attribute is ignored
  [n \in groups \cup ips |-> IF n \in groups THEN Members[n] \subseteq up
                            ELSE n \in up]

StatesOf(groups, ips, up) ==
  [n \in groups \cup ips |-> IF n \in groups THEN GroupUp(n, up) ELSE n \in up]

(***************************************************************************)
(* collect_ip_states.  The groups come from one read of config.xml and the *)
(* addresses from another one; either may fail, and the file may be edited *)
(* between them, so the two need not fit together.                         *)
(***************************************************************************)
Collect ==
  /\ pc = "collect"
  /\ \E groups \in GroupFiles, ips \in AddressFiles :
       \E up \in SUBSET ips :
         /\ reachable' = up
         /\ current_states' = StatesOf(groups, ips, up)
  /\ pc' = "detect"
  /\ UNCHANGED <<opcVars, changed, is_group_result, last_sent_ips, unhanded>>

(***************************************************************************)
(* detect_ip_changes.  What is gone from config.xml gets a state of which  *)
(* only connected is filled in.  The whole cache becomes the new states.   *)
(***************************************************************************)
Differs(n) == n \in DOMAIN last_sent_ips => last_sent_ips[n] # current_states[n]

Removed == DOMAIN last_sent_ips \ DOMAIN current_states

ChangedStates ==
  IF DOMAIN last_sent_ips = {} THEN current_states
  ELSE [n \in {m \in DOMAIN current_states : Differs(m)} \cup Removed |->
          IF n \in Removed THEN FALSE ELSE current_states[n]]

Detect ==
  /\ pc = "detect"
  /\ changed' = ChangedStates
  /\ \E any \in [Removed -> Indeterminate] :
       is_group_result' =
         [n \in DOMAIN ChangedStates |->
            IF n \in DOMAIN current_states THEN n \in Groups ELSE any[n]]
  /\ last_sent_ips' = current_states
  /\ pc' = "connect"
  /\ UNCHANGED <<opcVars, reachable, current_states, unhanded>>

(***************************************************************************)
(* send_ip_metrics: the states that are flagged as a group's go into the   *)
(* batch; one nobody filled in has neither node nor type.                  *)
(***************************************************************************)
Flagged == {n \in DOMAIN changed : is_group_result[n]}

IpConfig(n) ==
  IF n \in DOMAIN current_states
    THEN WriteConfig(n, "BOOL", "i", IF changed[n] THEN 1 ELSE 0)
    ELSE WriteConfig(EmptyNode, "", "s", 0)

writeConfigs == {IpConfig(n) : n \in Flagged}

EndOfCycleKeepingFlags ==   \* mutant: the flags outlive the states
  /\ pc' = "collect"
  /\ changed' = EmptyMap
  /\ UNCHANGED <<is_group_result, reachable, current_states>>

EndOfCycle ==
  /\ pc' = "collect"
  /\ changed' = EmptyMap
  /\ is_group_result' = EmptyMap
  /\ UNCHANGED <<reachable, current_states>>

NothingToSend ==
  /\ pc = "connect"
  /\ Flagged = {}
  /\ EndOfCycle
  /\ UNCHANGED <<opcVars, last_sent_ips, unhanded>>

Connected ==
  /\ pc = "connect"
  /\ Flagged # {}
  /\ CheckConnection(TRUE)
  /\ pc' = "write"
  /\ UNCHANGED <<serverUp, nodes, missed, reachable, current_states, changed,
                 is_group_result, last_sent_ips, unhanded>>

NotConnected ==
  /\ pc = "connect"
  /\ Flagged # {}
  /\ CheckConnection(FALSE)
  /\ missed' = missed \cup NodesOf(writeConfigs)
  /\ EndOfCycle
  /\ UNCHANGED <<serverUp, nodes, last_sent_ips, unhanded>>

Unhanded ==
  (unhanded \cup (Flagged \cap Groups)) \ (Flagged \cap DOMAIN current_states)

SendCachingAll ==      \* mutant: every changed state goes into the cache
  /\ pc = "write"
  /\ Write(writeConfigs)
  /\ last_sent_ips' = Merge(last_sent_ips, changed)
  /\ unhanded' = Unhanded
  /\ EndOfCycle

Send ==
  /\ pc = "write"
  /\ Write(writeConfigs)
  /\ last_sent_ips' = Merge(last_sent_ips, On(changed, Flagged))
  /\ unhanded' = Unhanded
  /\ EndOfCycle

Cycle ==
  \/ Collect \/ Detect \/ NothingToSend \/ Connected \/ NotConnected \/ Send

Environment == ServerStep /\ UNCHANGED ipVars

IpNext == Cycle \/ Environment

IpSpec == IpInit /\ [][IpNext]_vars

(***************************************************************************)
(* The main loop never stops.                                              *)
(***************************************************************************)
IpFairSpec == IpSpec /\ WF_vars(Cycle)
-------------------------------------------------------------------------------
(***************************************************************************)
(* Between two cycles the node of every group collected last shows what    *)
(* its logic makes of the addresses found reachable, unless the server     *)
(* missed the value handed over last.  Concerns detect_ip_changes and      *)
(* send_ip_metrics.                                                        *)
(***************************************************************************)
GroupShown ==
  pc = "collect" =>
    \A g \in DOMAIN current_states \cap Groups :
      g \notin missed \cup unhanded =>
        nodes[g] = IF GroupUp(g, reachable) THEN 1 ELSE 0

(***************************************************************************)
(* A state the server missed is made up for once the server stays up and   *)
(* that group changes again and again.                                     *)
(***************************************************************************)
MissedIsMadeUpFor ==
  \A g \in Groups \cap Accepted :
    (<>[]serverUp /\ []<>(pc = "connect" /\ g \in DOMAIN current_states
                          /\ g \in DOMAIN changed))
      => []<>(g \notin missed \cup unhanded)

(***************************************************************************)
(* The channel implements Publication; from Detect to the end of the write *)
(* the changed groups count as missed.                                     *)
(***************************************************************************)
SentTo(n) ==
  IF n \in DOMAIN last_sent_ips THEN IF last_sent_ips[n] THEN 1 ELSE 0
  ELSE NoValue

Pub == INSTANCE Publication WITH
         Keys <- NodeIds, Values <- {0, 1},
         sent <- [n \in NodeIds |-> SentTo(n)], shown <- nodes,
         missed <- missed \cup NodesOf(writeConfigs) \cup unhanded

IpPublishes == Pub!PubSpec
===============================================================================
