---------------------------- MODULE IpChannelProofs ----------------------------
(***************************************************************************)
(* The IP channel for any addresses, groups and logics, whatever the two   *)
(* reads of config.xml give and whatever the flag nobody set reads: type   *)
(* correctness, and that the node of a group tells what its logic says.    *)
(***************************************************************************)
EXTENDS IpChannel, OpcUaClientProofs

(***************************************************************************)
(* The flags are the group's own as long as the group is in config.xml.    *)
(***************************************************************************)
FlagsAreGroups ==
  \A n \in DOMAIN changed \cap DOMAIN current_states :
    /\ is_group_result[n] <=> n \in Groups
    /\ changed[n] <=> current_states[n]

IpConfigNode(n) == IF n \in DOMAIN current_states THEN n ELSE EmptyNode

LEMMA WriteConfigsNodes ==
  ASSUME IpTypeOK, FlagsAreGroups
  PROVE  /\ \A c \in writeConfigs : c.node_id \in NodeIds
         /\ OneConfigPerNode(writeConfigs)
         /\ NodesOf(writeConfigs) = {IpConfigNode(n) : n \in Flagged}
         /\ \A g \in Groups : g \in NodesOf(writeConfigs) <=>
                                g \in Flagged /\ g \in DOMAIN current_states
<1>1. \A n : IpConfig(n).node_id = IpConfigNode(n)
  BY DEF IpConfig, IpConfigNode, WriteConfig
<1>2. \A n \in Flagged : n \in DOMAIN current_states => n \in Groups
  BY DEF Flagged, FlagsAreGroups
<1>3. EmptyNode \notin Groups /\ EmptyNode \in NodeIds /\ Groups \subseteq NodeIds
  BY IpAssumption
<1>4. OneConfigPerNode(writeConfigs)
  <2> SUFFICES ASSUME NEW m \in Flagged, NEW n \in Flagged,
                      IpConfigNode(m) = IpConfigNode(n)
               PROVE  IpConfig(m) = IpConfig(n)
    BY <1>1 DEF OneConfigPerNode, writeConfigs
  <2> QED
    BY <1>2, <1>3 DEF IpConfigNode, IpConfig
<1>5. NodesOf(writeConfigs) = {IpConfigNode(n) : n \in Flagged}
  BY <1>1 DEF NodesOf, writeConfigs
<1> QED
  BY <1>1, <1>2, <1>3, <1>4, <1>5 DEF IpConfigNode, writeConfigs

-------------------------------------------------------------------------------
LEMMA IpInitType == IpInit => IpTypeOK
<1> SUFFICES ASSUME IpInit PROVE IpTypeOK
  OBVIOUS
<1>1. EmptyMap \in States
  BY EmptyMapType DEF States
<1>2. EmptyMap \in [DOMAIN EmptyMap -> BOOLEAN]
  BY DEF EmptyMap
<1>3. OpcTypeOK
  BY DEF IpInit, OpcInit, OpcTypeOK
<1> QED
  BY <1>1, <1>2, <1>3 DEF IpInit, IpTypeOK

LEMMA EndOfCycleType ==
  ASSUME IpTypeOK, EndOfCycle
  PROVE  /\ pc' = "collect" /\ reachable' \subseteq Ips
         /\ current_states' \in States /\ changed' \in States
         /\ is_group_result' \in [DOMAIN changed' -> BOOLEAN]
<1>1. EmptyMap \in States
  BY EmptyMapType DEF States
<1>2. EmptyMap \in [DOMAIN EmptyMap -> BOOLEAN]
  BY DEF EmptyMap
<1> QED
  BY <1>1, <1>2 DEF EndOfCycle, IpTypeOK

LEMMA CollectIpType ==
  ASSUME IpTypeOK, Collect
  PROVE  IpTypeOK'
<1>1. PICK groups \in GroupFiles, ips \in AddressFiles :
        \E up \in SUBSET ips :
          /\ reachable' = up
          /\ current_states' = StatesOf(groups, ips, up)
  BY DEF Collect
<1>2. PICK up \in SUBSET ips :
        /\ reachable' = up
        /\ current_states' = StatesOf(groups, ips, up)
  BY <1>1
<1>3. groups \subseteq Groups /\ ips \subseteq Ips
  BY IpAssumption
<1>4. \A g \in groups : GroupUp(g, up) \in BOOLEAN
  BY DEF GroupUp
<1>5. StatesOf(groups, ips, up) \in [groups \cup ips -> BOOLEAN]
  <2> DEFINE state(n) == IF n \in groups THEN GroupUp(n, up) ELSE n \in up
  <2>1. ASSUME NEW n \in groups \cup ips PROVE state(n) \in BOOLEAN
    <3>1. CASE n \in groups
      BY <1>4, <3>1, Zenon
    <3>2. CASE n \notin groups
      <4>1. (n \in up) \in BOOLEAN
        OBVIOUS
      <4> QED
        BY <3>2, <4>1, Zenon
    <3> QED
      BY <3>1, <3>2
  <2>2. StatesOf(groups, ips, up) = [n \in groups \cup ips |-> state(n)]
    BY DEF StatesOf
  <2> HIDE DEF state
  <2> QED
    BY <2>1, <2>2
<1>6. current_states' \in States
  BY <1>2, <1>3, <1>5, PartialMapsIntro DEF States
<1> QED
  BY <1>2, <1>3, <1>6 DEF Collect, IpTypeOK, OpcTypeOK, opcVars

LEMMA ChangedStatesType ==
  ASSUME IpTypeOK
  PROVE  ChangedStates \in States
<1> DEFINE D == {m \in DOMAIN current_states : Differs(m)} \cup Removed
           f == [n \in D |-> IF n \in Removed THEN FALSE ELSE current_states[n]]
<1>1. /\ DOMAIN current_states \subseteq Ips \cup Groups
      /\ \A n \in DOMAIN current_states : current_states[n] \in BOOLEAN
  BY PartialMapsElim DEF IpTypeOK, States
<1>2. DOMAIN last_sent_ips \subseteq Ips \cup Groups
  BY PartialMapsElim DEF IpTypeOK, States
<1>3. D \subseteq Ips \cup Groups
  BY <1>1, <1>2 DEF Removed
<1>4. f \in [D -> BOOLEAN]
  BY <1>1 DEF Removed
<1>5. f \in States
  BY <1>3, <1>4, PartialMapsIntro DEF States
<1> QED
  BY <1>5 DEF ChangedStates, IpTypeOK

LEMMA DetectIpType ==
  ASSUME IpTypeOK, Detect
  PROVE  IpTypeOK'
<1>1. PICK any \in [Removed -> Indeterminate] :
        is_group_result' =
          [n \in DOMAIN ChangedStates |->
             IF n \in DOMAIN current_states THEN n \in Groups ELSE any[n]]
  BY DEF Detect
<1>2. \A n \in DOMAIN ChangedStates :
        n \in DOMAIN current_states \/ n \in Removed
  BY DEF ChangedStates
<1>3. Indeterminate \subseteq BOOLEAN
  BY IpAssumption
<1>4. is_group_result' \in [DOMAIN ChangedStates -> BOOLEAN]
  <2> DEFINE flag(n) == IF n \in DOMAIN current_states THEN n \in Groups
                        ELSE any[n]
  <2>1. \A n \in Removed : any[n] \in BOOLEAN
    BY <1>3
  <2>2. ASSUME NEW n \in DOMAIN ChangedStates PROVE flag(n) \in BOOLEAN
    <3>1. CASE n \in DOMAIN current_states
      <4>1. (n \in Groups) \in BOOLEAN
        OBVIOUS
      <4> QED
        BY <3>1, <4>1, Zenon
    <3>2. CASE n \notin DOMAIN current_states
      BY <1>2, <2>1, <3>2, Zenon
    <3> QED
      BY <3>1, <3>2
  <2>3. is_group_result' = [n \in DOMAIN ChangedStates |-> flag(n)]
    BY <1>1
  <2> HIDE DEF flag
  <2> QED
    BY <2>2, <2>3
<1> QED
  BY <1>4, ChangedStatesType DEF Detect, IpTypeOK, OpcTypeOK, opcVars

LEMMA SendIpType ==
  ASSUME IpTypeOK, FlagsAreGroups, Send
  PROVE  IpTypeOK'
<1>1. OpcTypeOK'
  BY WriteConfigsNodes, WriteType DEF Send, IpTypeOK
<1>2. last_sent_ips' \in States
  BY OnType, MergeType DEF Send, IpTypeOK, States
<1>3. unhanded' \subseteq Groups
  BY DEF Send, Unhanded, IpTypeOK
<1> QED
  BY <1>1, <1>2, <1>3, EndOfCycleType DEF Send, IpTypeOK

-------------------------------------------------------------------------------
(***************************************************************************)
(* The inductive invariant.  The cache is what the server shows of every   *)
(* group that is neither missed, nor in the batch under way, nor taken     *)
(* back into the cache by a batch it was no part of; it is what the cycle  *)
(* collected; and that is what the logic of the group says.                *)
(***************************************************************************)
NumberOf(connected) == IF connected THEN 1 ELSE 0

IpCacheIsShown ==
  \A g \in DOMAIN last_sent_ips \cap Groups :
    g \notin missed \cup unhanded \cup NodesOf(writeConfigs) =>
      nodes[g] = NumberOf(last_sent_ips[g])

IpCacheIsCurrent ==
  pc # "detect" =>
    \A g \in DOMAIN current_states \cap Groups :
      g \in DOMAIN last_sent_ips /\ (last_sent_ips[g] <=> current_states[g])

StateIsOfLogic ==
  \A g \in DOMAIN current_states \cap Groups :
    current_states[g] <=> GroupUp(g, reachable)

ChangesWait == pc \in {"collect", "detect"} => DOMAIN changed = {}

IpInv ==
  /\ IpTypeOK
  /\ FlagsAreGroups
  /\ IpCacheIsShown
  /\ IpCacheIsCurrent
  /\ StateIsOfLogic
  /\ ChangesWait

LEMMA EndOfCycleForgets ==
  ASSUME EndOfCycle
  PROVE  /\ DOMAIN changed' = {} /\ ChangesWait'
         /\ NodesOf(writeConfigs)' = {} /\ FlagsAreGroups'
<1>1. DOMAIN changed' = {}
  BY DEF EndOfCycle, EmptyMap
<1>2. NodesOf(writeConfigs)' = {} /\ FlagsAreGroups'
  BY <1>1 DEF Flagged, writeConfigs, NodesOf, FlagsAreGroups
<1> QED
  BY <1>1, <1>2 DEF ChangesWait

LEMMA IpInitInv == IpInit => IpInv
<1> SUFFICES ASSUME IpInit PROVE IpInv
  OBVIOUS
<1>1. DOMAIN EmptyMap = {}
  BY DEF EmptyMap
<1> QED
  BY <1>1, IpInitType
     DEF IpInit, IpInv, FlagsAreGroups, IpCacheIsShown, IpCacheIsCurrent,
         StateIsOfLogic, ChangesWait

LEMMA CollectIpInv ==
  ASSUME IpInv, Collect
  PROVE  IpInv'
<1>1. IpTypeOK'
  BY CollectIpType DEF IpInv
<1>2. DOMAIN changed = {} /\ changed' = changed
  BY DEF IpInv, ChangesWait, Collect
<1>3. FlagsAreGroups' /\ ChangesWait'
  BY <1>2 DEF FlagsAreGroups, ChangesWait
<1>4. NodesOf(writeConfigs) = {} /\ NodesOf(writeConfigs)' = {}
  BY <1>2 DEF Flagged, writeConfigs, NodesOf
<1>5. IpCacheIsShown'
  BY <1>4 DEF IpInv, IpCacheIsShown, Collect, opcVars
<1>6. IpCacheIsCurrent'
  BY DEF IpCacheIsCurrent, Collect
<1>7. StateIsOfLogic'
  <2>1. PICK groups \in GroupFiles, ips \in AddressFiles :
          \E up \in SUBSET ips :
            /\ reachable' = up
            /\ current_states' = StatesOf(groups, ips, up)
    BY DEF Collect
  <2>2. current_states' = StatesOf(groups, ips, reachable')
    BY <2>1
  <2>3. \A g \in Groups : g \notin ips
    BY IpAssumption
  <2> SUFFICES ASSUME NEW g \in DOMAIN current_states' \cap Groups
               PROVE  current_states'[g] <=> GroupUp(g, reachable')
    BY DEF StateIsOfLogic, GroupUp
  <2>4. g \in groups
    BY <2>2, <2>3 DEF StatesOf
  <2> QED
    BY <2>2, <2>4 DEF StatesOf
<1> QED
  BY <1>1, <1>3, <1>5, <1>6, <1>7 DEF IpInv

LEMMA DetectIpInv ==
  ASSUME IpInv, Detect
  PROVE  IpInv'
<1>1. IpTypeOK'
  BY DetectIpType DEF IpInv
<1>2. \A n \in DOMAIN current_states :
        /\ n \in DOMAIN ChangedStates => /\ ChangedStates[n] = current_states[n]
                                         /\ is_group_result'[n] <=> n \in Groups
        /\ n \notin DOMAIN ChangedStates =>
             n \in DOMAIN last_sent_ips /\ last_sent_ips[n] = current_states[n]
  <2>1. PICK any \in [Removed -> Indeterminate] :
          is_group_result' =
            [n \in DOMAIN ChangedStates |->
               IF n \in DOMAIN current_states THEN n \in Groups ELSE any[n]]
    BY DEF Detect
  <2> QED
    BY <2>1 DEF ChangedStates, Removed, Differs
<1>3. FlagsAreGroups'
  BY <1>2 DEF FlagsAreGroups, Detect
<1>4. NodesOf(writeConfigs) = {}
  BY DEF IpInv, ChangesWait, Detect, Flagged, writeConfigs, NodesOf
<1>5. IpCacheIsShown'
  <2> SUFFICES ASSUME NEW g \in DOMAIN current_states \cap Groups,
                      g \notin missed \cup unhanded \cup NodesOf(writeConfigs)'
               PROVE  nodes[g] = NumberOf(current_states[g])
    BY DEF IpCacheIsShown, Detect, opcVars
  <2>1. g \notin DOMAIN ChangedStates
    <3> SUFFICES ASSUME g \in DOMAIN ChangedStates PROVE FALSE
      OBVIOUS
    <3>1. g \in Flagged'
      BY <1>2 DEF Flagged, Detect
    <3>2. IpConfig(g)' \in writeConfigs' /\ IpConfig(g)'.node_id = g
      BY <3>1 DEF writeConfigs, IpConfig, WriteConfig, Detect
    <3> QED
      BY <3>2 DEF NodesOf
  <2>2. g \in DOMAIN last_sent_ips /\ last_sent_ips[g] = current_states[g]
    BY <1>2, <2>1
  <2> QED
    BY <1>4, <2>2 DEF IpInv, IpCacheIsShown
<1>6. IpCacheIsCurrent' /\ StateIsOfLogic' /\ ChangesWait'
  BY DEF IpInv, IpCacheIsCurrent, StateIsOfLogic, GroupUp, ChangesWait, Detect
<1> QED
  BY <1>1, <1>3, <1>5, <1>6 DEF IpInv

LEMMA NothingToSendInv ==
  ASSUME IpInv, NothingToSend
  PROVE  IpInv'
<1>1. IpTypeOK'
  BY EndOfCycleType DEF IpInv, NothingToSend, IpTypeOK, OpcTypeOK, opcVars
<1>2. NodesOf(writeConfigs) = {}
  BY DEF NothingToSend, writeConfigs, NodesOf
<1>3. IpCacheIsShown'
  BY <1>2 DEF IpInv, IpCacheIsShown, NothingToSend, opcVars
<1> QED
  BY <1>1, <1>3, EndOfCycleForgets
     DEF IpInv, IpCacheIsCurrent, StateIsOfLogic, GroupUp, NothingToSend, EndOfCycle

LEMMA ConnectedInv ==
  ASSUME IpInv, Connected
  PROVE  IpInv'
<1>1. IpTypeOK'
  BY DEF IpInv, Connected, CheckConnection, IpTypeOK, OpcTypeOK
<1>2. NodesOf(writeConfigs)' = NodesOf(writeConfigs)
  BY DEF NodesOf, writeConfigs, Flagged, IpConfig, Connected
<1> QED
  BY <1>1, <1>2
     DEF IpInv, FlagsAreGroups, IpCacheIsShown, IpCacheIsCurrent,
         StateIsOfLogic, GroupUp, ChangesWait, Connected

LEMMA NotConnectedInv ==
  ASSUME IpInv, NotConnected
  PROVE  IpInv'
<1>1. NodesOf(writeConfigs) \subseteq NodeIds
  BY WriteConfigsNodes DEF IpInv, NodesOf
<1>2. IpTypeOK'
  BY <1>1, EndOfCycleType
     DEF IpInv, NotConnected, CheckConnection, IpTypeOK, OpcTypeOK
<1>3. IpCacheIsShown'
  BY DEF IpInv, IpCacheIsShown, NotConnected
<1> QED
  BY <1>2, <1>3, EndOfCycleForgets
     DEF IpInv, IpCacheIsCurrent, StateIsOfLogic, GroupUp, NotConnected, EndOfCycle

(***************************************************************************)
(* What Send does to the node of a group, and what the cache takes.        *)
(***************************************************************************)
LEMMA SendReports ==
  ASSUME IpInv, Send, NEW g \in Flagged \cap DOMAIN current_states
  PROVE  g \notin missed' => nodes'[g] = NumberOf(current_states[g])
<1>1. IpConfig(g) \in writeConfigs
  BY DEF writeConfigs
<1>2. g \in DOMAIN changed /\ g \in Groups /\ (changed[g] <=> current_states[g])
  BY DEF IpInv, FlagsAreGroups, Flagged
<1>3. IpConfig(g).node_id = g /\ g \in NodeIds
  BY <1>2, IpAssumption DEF IpConfig, WriteConfig
<1>4. Wire(IpConfig(g)) = NumberOf(current_states[g])
  <2>1. CASE changed[g]
    BY <1>2, <2>1
       DEF Wire, IpConfig, WriteConfig, MembersOf, IntegerMembers, NumberOf
  <2>2. CASE ~changed[g]
    BY <1>2, <2>2
       DEF Wire, IpConfig, WriteConfig, MembersOf, IntegerMembers, NumberOf
  <2> QED
    BY <2>1, <2>2
<1> QED
  BY <1>1, <1>3, <1>4, WriteConfigsNodes, WriteHands DEF IpInv, Send

LEMMA SendIpInv ==
  ASSUME IpInv, Send
  PROVE  IpInv'
<1>1. IpTypeOK'
  BY SendIpType DEF IpInv
<1>2. \A n : n \in DOMAIN last_sent_ips' <=> n \in DOMAIN last_sent_ips \/ n \in Flagged
  BY DEF Send, Merge, On, Flagged
<1>3. \A n \in DOMAIN last_sent_ips' :
        last_sent_ips'[n] = IF n \in Flagged THEN changed[n] ELSE last_sent_ips[n]
  BY DEF Send, Merge, On, Flagged
<1>4. \A g \in Flagged \cap DOMAIN current_states :
        changed[g] <=> current_states[g]
  BY DEF IpInv, FlagsAreGroups, Flagged
<1>5. IpCacheIsShown'
  <2> SUFFICES ASSUME NEW g \in DOMAIN last_sent_ips' \cap Groups,
                      g \notin missed' \cup unhanded'
               PROVE  nodes'[g] = NumberOf(last_sent_ips'[g])
    BY DEF IpCacheIsShown
  <2>1. CASE g \in Flagged
    <3>1. g \in DOMAIN current_states
      BY <2>1 DEF Send, Unhanded
    <3>2. nodes'[g] = NumberOf(current_states[g])
      BY <2>1, <3>1, SendReports
    <3>3. last_sent_ips'[g] <=> current_states[g]
      BY <1>3, <1>4, <2>1, <3>1
    <3> QED
      BY <3>2, <3>3 DEF NumberOf
  <2>2. CASE g \notin Flagged
    <3>1. g \in NodeIds /\ g \notin NodesOf(writeConfigs)
      BY <2>2, WriteConfigsNodes, IpAssumption DEF IpInv
    <3>2. nodes'[g] = nodes[g] /\ g \notin missed
      BY <3>1, WriteKeeps DEF IpInv, IpTypeOK, OpcTypeOK, Send
    <3>3. g \notin unhanded
      BY <2>2 DEF Send, Unhanded
    <3>4. g \in DOMAIN last_sent_ips /\ last_sent_ips'[g] = last_sent_ips[g]
      BY <1>2, <1>3, <2>2
    <3> QED
      BY <3>1, <3>2, <3>3, <3>4 DEF IpInv, IpCacheIsShown
  <2> QED
    BY <2>1, <2>2
<1>6. IpCacheIsCurrent'
  <2> SUFFICES ASSUME NEW g \in DOMAIN current_states \cap Groups
               PROVE  /\ g \in DOMAIN last_sent_ips'
                      /\ last_sent_ips'[g] <=> current_states[g]
    BY DEF IpCacheIsCurrent, Send, EndOfCycle
  <2>1. g \in DOMAIN last_sent_ips /\ (last_sent_ips[g] <=> current_states[g])
    BY DEF IpInv, IpCacheIsCurrent, Send
  <2> QED
    BY <1>2, <1>3, <1>4, <2>1
<1>7. StateIsOfLogic'
  BY DEF IpInv, StateIsOfLogic, GroupUp, Send, EndOfCycle
<1> QED
  BY <1>1, <1>5, <1>6, <1>7, EndOfCycleForgets DEF IpInv, Send

LEMMA ServerKeepsIps ==
  ASSUME IpInv, Environment
  PROVE  IpInv'
<1>1. IpTypeOK'
  BY ServerStepType DEF IpInv, IpTypeOK, Environment, ipVars
<1>2. NodesOf(writeConfigs)' = NodesOf(writeConfigs)
  BY DEF NodesOf, writeConfigs, Flagged, IpConfig, Environment, ipVars
<1>3. IpCacheIsShown'
  BY <1>2, ServerStepKeeps, IpAssumption
     DEF IpInv, IpCacheIsShown, Environment, ipVars
<1> QED
  BY <1>1, <1>3
     DEF IpInv, FlagsAreGroups, IpCacheIsCurrent, StateIsOfLogic, GroupUp,
         ChangesWait, Environment, ipVars

LEMMA IpNextInv == IpInv /\ [IpNext]_vars => IpInv'
<1> SUFFICES ASSUME IpInv, [IpNext]_vars PROVE IpInv'
  OBVIOUS
<1>1. CASE Collect
  BY <1>1, CollectIpInv
<1>2. CASE Detect
  BY <1>2, DetectIpInv
<1>3. CASE NothingToSend
  BY <1>3, NothingToSendInv
<1>4. CASE Connected
  BY <1>4, ConnectedInv
<1>5. CASE NotConnected
  BY <1>5, NotConnectedInv
<1>6. CASE Send
  BY <1>6, SendIpInv
<1>7. CASE Environment
  BY <1>7, ServerKeepsIps
<1>8. CASE UNCHANGED vars
  <2>1. NodesOf(writeConfigs)' = NodesOf(writeConfigs)
    BY <1>8 DEF NodesOf, writeConfigs, Flagged, IpConfig, vars, ipVars
  <2> QED
    BY <1>8, <2>1
       DEF vars, opcVars, ipVars, IpInv, IpTypeOK, OpcTypeOK, FlagsAreGroups,
           IpCacheIsShown, IpCacheIsCurrent, StateIsOfLogic, GroupUp, ChangesWait
<1> QED
  BY <1>1, <1>2, <1>3, <1>4, <1>5, <1>6, <1>7, <1>8 DEF IpNext, Cycle

(***************************************************************************)
(* Type correctness of the channel with its client and server.             *)
(***************************************************************************)
THEOREM IpTypeCorrect == IpSpec => []IpTypeOK
<1>1. IpInv => IpTypeOK
  BY DEF IpInv
<1> QED
  BY <1>1, IpInitInv, IpNextInv, PTL DEF IpSpec

(***************************************************************************)
(* Between two cycles the node of every group collected last shows what    *)
(* its logic makes of the addresses found reachable, unless the server     *)
(* missed it or the cache took it back without handing it over.            *)
(***************************************************************************)
THEOREM IpGroupShown == IpSpec => []GroupShown
<1>1. IpInv => GroupShown
  <2> SUFFICES ASSUME IpInv, pc = "collect",
                      NEW g \in DOMAIN current_states \cap Groups,
                      g \notin missed \cup unhanded
               PROVE  nodes[g] = NumberOf(GroupUp(g, reachable))
    BY DEF GroupShown, NumberOf
  <2>1. g \notin NodesOf(writeConfigs)
    BY DEF IpInv, ChangesWait, Flagged, writeConfigs, NodesOf
  <2>2. /\ g \in DOMAIN last_sent_ips
        /\ last_sent_ips[g] <=> GroupUp(g, reachable)
    BY DEF IpInv, IpCacheIsCurrent, StateIsOfLogic
  <2>3. nodes[g] = NumberOf(last_sent_ips[g])
    BY <2>1, <2>2 DEF IpInv, IpCacheIsShown
  <2> QED
    BY <2>2, <2>3 DEF NumberOf
<1> QED
  BY <1>1, IpInitInv, IpNextInv, PTL DEF IpSpec

-------------------------------------------------------------------------------
(***************************************************************************)
(* The refinement: node by node, what a step of the channel does to the    *)
(* cache, the server and the nodes missed, about to be handed over, or     *)
(* taken back into the cache.                                              *)
(***************************************************************************)
Shown == {0, 1, NoValue}

RefInv == IpInv /\ nodes \in [NodeIds -> Shown]

PubMissedSet == missed \cup NodesOf(writeConfigs) \cup unhanded

LEMMA RefInitInv == IpInit => RefInv
BY IpInitInv DEF RefInv, Shown, IpInit, OpcInit

LEMMA IpConfigWire ==
  ASSUME NEW n \in DOMAIN current_states
  PROVE  Wire(IpConfig(n)) = IF changed[n] THEN 1 ELSE 0
<1>1. CASE changed[n]
  BY <1>1 DEF Wire, IpConfig, WriteConfig, MembersOf, IntegerMembers
<1>2. CASE ~changed[n]
  BY <1>2 DEF Wire, IpConfig, WriteConfig, MembersOf, IntegerMembers
<1> QED
  BY <1>1, <1>2

(***************************************************************************)
(* The config of a removed state is refused, so what Wire makes of it is   *)
(* of no account: the node of its empty id keeps its value.                *)
(***************************************************************************)
LEMMA SendOutcome ==
  ASSUME RefInv, Send, NEW n \in NodesOf(writeConfigs)
  PROVE  \/ n \in missed' /\ nodes'[n] = nodes[n]
         \/ /\ n \notin missed'
            /\ n \in Flagged \cap DOMAIN current_states \cap Groups
            /\ nodes'[n] = NumberOf(current_states[n])
<1> USE DEF RefInv, IpInv
<1>1. PICK c \in writeConfigs : c.node_id = n
  BY DEF NodesOf
<1>2. n \in NodeIds /\ Write(writeConfigs)
  BY <1>1, WriteConfigsNodes DEF Send
<1>3. \/ n \in missed' /\ nodes'[n] = nodes[n]
      \/ n \notin missed'
  BY <1>1, <1>2, WriteConfigsNodes, WriteOutcome DEF IpTypeOK, OpcTypeOK
<1>4. CASE n \notin missed'
  <2>1. n # EmptyNode
    BY <1>2, <1>4, WriteRefused, IpAssumption
  <2>2. n \in Flagged /\ n \in DOMAIN current_states
    BY <2>1, WriteConfigsNodes DEF IpConfigNode
  <2>3. n \in Groups
    BY <2>2 DEF FlagsAreGroups, Flagged
  <2> QED
    BY <1>4, <2>2, <2>3, SendReports
<1> QED
  BY <1>3, <1>4

LEMMA SendValues ==
  ASSUME RefInv, Send
  PROVE  nodes' \in [NodeIds -> Shown]
<1> USE DEF RefInv, IpInv
<1>1. DOMAIN nodes = NodeIds /\ Write(writeConfigs)
  BY DEF IpTypeOK, OpcTypeOK, Send
<1>2. ASSUME NEW n \in NodeIds PROVE nodes'[n] \in Shown
  <2>1. CASE n \in NodesOf(writeConfigs)
    BY <2>1, SendOutcome DEF NumberOf, Shown
  <2>2. CASE n \notin NodesOf(writeConfigs)
    BY <1>1, <2>2, WriteKeeps
  <2> QED
    BY <2>1, <2>2
<1>3. nodes' = nodes \/ nodes' = Overlay(Stored(writeConfigs))
  BY <1>1 DEF Write, WriteNothing, WriteGood, WriteLost, WriteNoReply, Store
<1>4. nodes' = [n \in NodeIds |-> nodes'[n]]
  BY <1>3 DEF Overlay
<1> QED
  BY <1>2, <1>4

LEMMA RefNextInv == RefInv /\ [IpNext]_vars => RefInv'
<1> SUFFICES ASSUME RefInv, [IpNext]_vars
             PROVE  nodes' \in [NodeIds -> Shown]
  BY IpNextInv DEF RefInv
<1>1. CASE Send
  BY <1>1, SendValues
<1>2. CASE Environment
  BY <1>2, ServerStepValues DEF Environment, RefInv, Shown
<1>3. CASE Collect \/ Detect \/ NothingToSend \/ Connected \/ NotConnected
             \/ UNCHANGED vars
  BY <1>3 DEF Collect, Detect, NothingToSend, Connected, NotConnected, vars,
              opcVars, RefInv
<1> QED
  BY <1>1, <1>2, <1>3 DEF IpNext, Cycle

KeptNode(n) ==
  /\ SentTo(n)' \in {SentTo(n), NoValue}
  /\ nodes'[n] = nodes[n]
  /\ n \in PubMissedSet' <=> n \in PubMissedSet

LostNode(n) ==
  /\ nodes'[n] = nodes[n]
  /\ n \in PubMissedSet'

DeliveredNode(n) ==
  /\ nodes'[n] # NoValue
  /\ SentTo(n)' \in {nodes'[n], NoValue}
  /\ n \notin PubMissedSet'

LEMMA NothingFlagged ==
  ASSUME RefInv, pc \in {"collect", "detect"}
  PROVE  Flagged = {} /\ NodesOf(writeConfigs) = {}
BY DEF RefInv, IpInv, ChangesWait, Flagged, writeConfigs, NodesOf

LEMMA CollectPublishes ==
  ASSUME RefInv, Collect, NEW n \in NodeIds
  PROVE  KeptNode(n)
<1>1. NodesOf(writeConfigs) = {} /\ NodesOf(writeConfigs)' = {}
  BY NothingFlagged DEF Collect, Flagged, writeConfigs, NodesOf
<1> QED
  BY <1>1 DEF Collect, KeptNode, SentTo, PubMissedSet, opcVars

LEMMA DetectPublishes ==
  ASSUME RefInv, Detect, NEW n \in NodeIds
  PROVE  KeptNode(n) \/ LostNode(n)
<1>1. NodesOf(writeConfigs) = {}
  BY NothingFlagged DEF Detect
<1>2. CASE n \in NodesOf(writeConfigs)'
  BY <1>2 DEF LostNode, PubMissedSet, Detect, opcVars
<1>3. CASE n \notin NodesOf(writeConfigs)'
  <2>1. SentTo(n)' \in {SentTo(n), NoValue}
    <3>1. CASE n \notin DOMAIN current_states
      BY <3>1 DEF SentTo, Detect
    <3>2. CASE n \in DOMAIN current_states
      <4>1. n \in Groups
        BY <3>2, PartialMapsElim, IpAssumption
           DEF RefInv, IpInv, IpTypeOK, States
      <4>2. n \notin DOMAIN ChangedStates
        <5> SUFFICES ASSUME n \in DOMAIN ChangedStates PROVE FALSE
          OBVIOUS
        <5>1. n \in Flagged'
          BY <3>2, <4>1 DEF Flagged, Detect
        <5>2. IpConfig(n)' \in writeConfigs' /\ IpConfig(n)'.node_id = n
          BY <3>2, <5>1 DEF writeConfigs, IpConfig, WriteConfig, Detect
        <5> QED
          BY <1>3, <5>2 DEF NodesOf
      <4>3. n \in DOMAIN last_sent_ips /\ last_sent_ips[n] = current_states[n]
        BY <3>2, <4>2 DEF ChangedStates, Differs
      <4> QED
        BY <3>2, <4>3 DEF SentTo, Detect
    <3> QED
      BY <3>1, <3>2
  <2> QED
    BY <1>1, <1>3, <2>1 DEF KeptNode, PubMissedSet, Detect, opcVars
<1> QED
  BY <1>2, <1>3

LEMMA SendPublishes ==
  ASSUME RefInv, Send, NEW n \in NodeIds
  PROVE  KeptNode(n) \/ LostNode(n) \/ DeliveredNode(n)
<1> USE DEF RefInv, IpInv
<1>1. NodesOf(writeConfigs)' = {}
  BY EndOfCycleForgets DEF Send
<1>2. /\ n \in DOMAIN last_sent_ips' <=> n \in DOMAIN last_sent_ips \/ n \in Flagged
      /\ n \in DOMAIN last_sent_ips' =>
           last_sent_ips'[n] = IF n \in Flagged THEN changed[n] ELSE last_sent_ips[n]
  BY DEF Send, Merge, On, Flagged
<1>3. CASE n \in NodesOf(writeConfigs)
  <2>1. CASE n \in missed'
    BY <1>3, <2>1, SendOutcome DEF LostNode, PubMissedSet
  <2>2. CASE n \notin missed'
    <3>1. /\ n \in Flagged \cap DOMAIN current_states
          /\ nodes'[n] = NumberOf(current_states[n])
      BY <1>3, <2>2, SendOutcome
    <3>2. n \notin unhanded'
      BY <3>1 DEF Send, Unhanded
    <3>3. changed[n] <=> current_states[n]
      BY <3>1 DEF FlagsAreGroups, Flagged
    <3>4. SentTo(n)' = NumberOf(current_states[n])
      BY <1>2, <3>1, <3>3 DEF SentTo, NumberOf
    <3>5. nodes'[n] # NoValue
      BY <3>1, IpAssumption DEF NumberOf
    <3> QED
      BY <1>1, <2>2, <3>1, <3>2, <3>4, <3>5 DEF DeliveredNode, PubMissedSet
  <2> QED
    BY <2>1, <2>2
<1>4. CASE n \notin NodesOf(writeConfigs)
  <2>1. nodes'[n] = nodes[n] /\ (n \in missed' <=> n \in missed)
    BY <1>4, WriteKeeps DEF Send, IpTypeOK, OpcTypeOK
  <2>2. CASE n \in Flagged
    <3>1. n \in DOMAIN changed
      BY <2>2 DEF Flagged
    <3>2. n \in Groups
      BY <3>1, PartialMapsElim, IpAssumption DEF IpTypeOK, States
    <3>3. n \in unhanded'
      BY <1>4, <2>2, <3>2, WriteConfigsNodes DEF Send, Unhanded
    <3> QED
      BY <2>1, <3>3 DEF LostNode, PubMissedSet
  <2>3. CASE n \notin Flagged
    <3>1. SentTo(n)' = SentTo(n)
      BY <1>2, <2>3 DEF SentTo
    <3>2. n \in unhanded' <=> n \in unhanded
      BY <2>3 DEF Send, Unhanded
    <3> QED
      BY <1>1, <1>4, <2>1, <3>1, <3>2 DEF KeptNode, PubMissedSet
  <2> QED
    BY <2>2, <2>3
<1> QED
  BY <1>3, <1>4

LEMMA CyclePublishes ==
  ASSUME RefInv, Cycle, NEW n \in NodeIds
  PROVE  KeptNode(n) \/ LostNode(n) \/ DeliveredNode(n)
<1>1. CASE NothingToSend
  <2>1. NodesOf(writeConfigs) = {} /\ NodesOf(writeConfigs)' = {}
    BY <1>1, EndOfCycleForgets DEF NothingToSend, writeConfigs, NodesOf
  <2> QED
    BY <1>1, <2>1 DEF NothingToSend, KeptNode, SentTo, PubMissedSet, opcVars
<1>2. CASE Connected
  <2>1. NodesOf(writeConfigs)' = NodesOf(writeConfigs)
    BY <1>2 DEF NodesOf, writeConfigs, Flagged, IpConfig, Connected
  <2> QED
    BY <1>2, <2>1 DEF Connected, KeptNode, SentTo, PubMissedSet
<1>3. CASE NotConnected
  <2>1. NodesOf(writeConfigs)' = {}
    BY <1>3, EndOfCycleForgets DEF NotConnected
  <2> QED
    BY <1>3, <2>1 DEF NotConnected, KeptNode, SentTo, PubMissedSet
<1> QED
  BY <1>1, <1>2, <1>3, CollectPublishes, DetectPublishes, SendPublishes DEF Cycle

LEMMA RefInit == IpInit => Pub!PubInit
<1> SUFFICES ASSUME IpInit PROVE Pub!PubInit
  OBVIOUS
<1>1. \A n : SentTo(n) = NoValue
  BY DEF SentTo, IpInit, EmptyMap
<1>2. NodesOf(writeConfigs) = {}
  BY DEF NodesOf, writeConfigs, Flagged, IpInit, EmptyMap
<1> QED
  BY <1>1, <1>2 DEF Pub!PubInit, IpInit, OpcInit

LEMMA RefType == RefInv => Pub!PubTypeOK
<1> SUFFICES ASSUME RefInv PROVE Pub!PubTypeOK
  OBVIOUS
<1>1. \A n \in NodeIds : SentTo(n) \in Shown
  BY DEF SentTo, Shown
<1>2. NodesOf(writeConfigs) \subseteq NodeIds
  BY WriteConfigsNodes DEF RefInv, IpInv, NodesOf
<1>3. missed \cup NodesOf(writeConfigs) \cup unhanded \subseteq NodeIds
  BY <1>2, IpAssumption DEF RefInv, IpInv, IpTypeOK, OpcTypeOK
<1> QED
  BY <1>1, <1>3 DEF Pub!PubTypeOK, Shown, RefInv

LEMMA RefNext == RefInv /\ RefInv' /\ [IpNext]_vars => [Pub!PubNext]_(Pub!pubVars)
<1> SUFFICES ASSUME RefInv, RefInv', [IpNext]_vars
             PROVE  [Pub!PubNext]_(Pub!pubVars)
  OBVIOUS
<1>1. Pub!PubTypeOK'
  BY RefType, PTL
<1>2. CASE Cycle
  <2>1. ASSUME NEW n \in NodeIds
        PROVE  Pub!Kept(n) \/ Pub!Lost(n) \/ Pub!Delivered(n)
    <3>1. CASE KeptNode(n)
      BY <3>1 DEF KeptNode, PubMissedSet, Pub!Kept
    <3>2. CASE LostNode(n)
      BY <3>2 DEF LostNode, PubMissedSet, Pub!Lost
    <3>3. CASE DeliveredNode(n)
      BY <3>3 DEF DeliveredNode, PubMissedSet, Pub!Delivered
    <3> QED
      BY <1>2, <3>1, <3>2, <3>3, CyclePublishes
  <2> QED
    BY <1>1, <2>1 DEF Pub!PubNext, Pub!Publish
<1>3. CASE Environment
  <2>1. /\ \A n \in NodeIds : SentTo(n)' = SentTo(n)
        /\ NodesOf(writeConfigs)' = NodesOf(writeConfigs)
        /\ unhanded' = unhanded
    BY <1>3 DEF Environment, ipVars, SentTo, NodesOf, writeConfigs, Flagged, IpConfig
  <2>2. CASE ServerRestarted
    BY <1>1, <2>1, <2>2 DEF ServerRestarted, Pub!PubNext, Pub!Forget
  <2>3. CASE ServerDown \/ ServerBack \/ OthersCall
    BY <2>1, <2>3 DEF ServerDown, ServerBack, OthersCall, Pub!pubVars
  <2> QED
    BY <1>3, <2>2, <2>3 DEF Environment, ServerStep
<1>4. CASE UNCHANGED vars
  BY <1>4 DEF vars, opcVars, ipVars, Pub!pubVars, SentTo, NodesOf, writeConfigs,
              Flagged, IpConfig
<1> QED
  BY <1>2, <1>3, <1>4 DEF IpNext

(***************************************************************************)
(* The channel implements Publication, whatever the two reads of           *)
(* config.xml give and the unset flag reads: from Detect to the end of the *)
(* write the groups that changed count as missed, and those the cache took *)
(* back without handing them over stay so.                                 *)
(***************************************************************************)
THEOREM IpImplementsPublication == IpSpec => IpPublishes
BY RefInitInv, RefNextInv, RefInit, RefNext, PTL
   DEF IpSpec, IpPublishes, Pub!PubSpec
===============================================================================
