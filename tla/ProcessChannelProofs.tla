------------------------- MODULE ProcessChannelProofs --------------------------
(***************************************************************************)
(* The process channel for any processes, groups, node types and for       *)
(* whatever the flag nobody set reads: type correctness, and that between  *)
(* two cycles a node the server did not miss tells what ps listed.         *)
(***************************************************************************)
EXTENDS ProcessChannel, OpcUaClientProofs

(***************************************************************************)
(* A status survives the conversion of Write in every type a group may     *)
(* have: send_process_metrics stores the member the type selects.          *)
(***************************************************************************)
LEMMA GroupWire ==
  ASSUME NEW g \in Groups, NEW v \in Status, NEW any
  PROVE  Wire(GroupConfig(g, v, any)) = v
<1> DEFINE cfg == GroupConfig(g, v, any)
<1>1. cfg.type = GroupType[g] /\ cfg.member = MemberFor(GroupType[g]) /\ cfg.val = v
  BY DEF GroupConfig, WriteConfig
<1>2. GroupType[g] \in {"BOOL", "INT", "REAL", "STRING"}
  BY ProcessAssumption
<1>3. cfg.member \in MembersOf(cfg.type)
  BY <1>1, <1>2 DEF MemberFor, MembersOf, IntegerMembers
<1>4. Int16(v) = v
  BY DEF Status, Int16, Low16
<1> QED
  BY <1>1, <1>2, <1>3, <1>4 DEF Wire

(***************************************************************************)
(* A batch built from a map of statuses by node.                           *)
(***************************************************************************)
Batch(states, any) == {GroupConfig(g, states[g], any[g]) : g \in DOMAIN states}

LEMMA BatchNodes ==
  ASSUME NEW states, NEW any
  PROVE  /\ OneConfigPerNode(Batch(states, any))
         /\ NodesOf(Batch(states, any)) = DOMAIN states
         /\ \A c \in Batch(states, any) :
              /\ c.node_id \in DOMAIN states
              /\ c = GroupConfig(c.node_id, states[c.node_id], any[c.node_id])
<1>1. \A g \in DOMAIN states : GroupConfig(g, states[g], any[g]).node_id = g
  BY DEF GroupConfig, WriteConfig
<1>2. \A c \in Batch(states, any) :
        /\ c.node_id \in DOMAIN states
        /\ c = GroupConfig(c.node_id, states[c.node_id], any[c.node_id])
  BY <1>1 DEF Batch
<1>3. OneConfigPerNode(Batch(states, any))
  BY <1>2 DEF OneConfigPerNode
<1>4. NodesOf(Batch(states, any)) = DOMAIN states
  BY <1>1 DEF Batch, NodesOf
<1> QED
  BY <1>2, <1>3, <1>4

-------------------------------------------------------------------------------
LEMMA ProcInitType == ProcInit => ProcTypeOK
BY EmptyMapType DEF ProcInit, ProcTypeOK, OpcInit, OpcTypeOK

LEMMA CollectType ==
  ASSUME ProcTypeOK, Collect
  PROVE  ProcTypeOK'
<1>1. PICK groups \in SUBSET Groups, listed \in SUBSET Processes :
        /\ seen' = listed
        /\ current_states' = [g \in Followed(groups) |-> GroupStatus(g)]
  BY DEF Collect
<1>2. current_states' \in [Followed(groups) -> Status]
  BY <1>1 DEF GroupStatus, Status
<1>3. current_states' \in PartialMaps(AndGroups, Status)
  BY <1>2, PartialMapsIntro DEF Followed
<1> QED
  BY <1>1, <1>3 DEF Collect, ProcTypeOK, OpcTypeOK, opcVars

LEMMA BuildBatch ==
  ASSUME Build
  PROVE  \E any : writes' = Batch(current_states, any)
BY DEF Build, Batch

LEMMA BuildType ==
  ASSUME ProcTypeOK, Build
  PROVE  ProcTypeOK'
<1>1. PICK any : writes' = Batch(current_states, any)
  BY BuildBatch
<1>2. \A c \in writes' : c.node_id \in AndGroups
  BY <1>1, BatchNodes, PartialMapsElim DEF ProcTypeOK
<1>3. last_sent_states' \in PartialMaps(AndGroups, Status)
  BY MergeType DEF Build, ProcTypeOK
<1> QED
  BY <1>2, <1>3 DEF Build, ProcTypeOK, OpcTypeOK, opcVars

LEMMA ProcNextType == ProcTypeOK /\ [ProcNext]_vars => ProcTypeOK'
<1> SUFFICES ASSUME ProcTypeOK, [ProcNext]_vars PROVE ProcTypeOK'
  OBVIOUS
<1>1. AndGroups \subseteq NodeIds
  BY ProcessAssumption
<1>2. CASE Collect
  BY <1>2, CollectType
<1>3. CASE KeepSilent
  BY <1>3 DEF KeepSilent, ProcTypeOK, OpcTypeOK, opcVars
<1>4. CASE Build
  BY <1>4, BuildType
<1>5. CASE Connected
  BY <1>5 DEF Connected, CheckConnection, ProcTypeOK, OpcTypeOK
<1>6. CASE NotConnected
  <2>1. NodesOf(writes) \subseteq NodeIds
    BY <1>1 DEF NodesOf, ProcTypeOK
  <2> QED
    BY <1>6, <2>1 DEF NotConnected, CheckConnection, ProcTypeOK, OpcTypeOK
<1>7. CASE Send
  <2>1. OpcTypeOK'
    BY <1>1, <1>7, WriteType DEF Send, ProcTypeOK
  <2> QED
    BY <1>7, <2>1 DEF Send, ProcTypeOK
<1>8. CASE Environment
  BY <1>8, ServerStepType DEF Environment, procVars, ProcTypeOK
<1>9. CASE UNCHANGED vars
  BY <1>9 DEF vars, procVars, opcVars, ProcTypeOK, OpcTypeOK
<1> QED
  BY <1>2, <1>3, <1>4, <1>5, <1>6, <1>7, <1>8, <1>9 DEF ProcNext, Cycle

(***************************************************************************)
(* Type correctness; with it, that a group of another logic never gets a   *)
(* state.                                                                  *)
(***************************************************************************)
THEOREM ProcTypeCorrect == ProcSpec => []ProcTypeOK
BY ProcInitType, ProcNextType, PTL DEF ProcSpec

-------------------------------------------------------------------------------
(***************************************************************************)
(* The inductive invariant.  The cache takes a status before the batch is  *)
(* written, so while a batch is under way its nodes need not hold what the *)
(* cache says; but the batch then carries just that.                       *)
(***************************************************************************)
CacheIsShown ==
  \A g \in DOMAIN last_sent_states :
    g \notin missed \cup NodesOf(writes) => nodes[g] = last_sent_states[g]

CacheIsCurrent ==
  pc # "detect" =>
    \A g \in DOMAIN current_states :
      /\ g \in DOMAIN last_sent_states
      /\ last_sent_states[g] = current_states[g]

StateIsSeen ==
  \A g \in DOMAIN current_states :
    current_states[g] = IF Members[g] \subseteq seen THEN 1 ELSE 0

BatchIsCached ==
  /\ OneConfigPerNode(writes)
  /\ pc \in {"collect", "detect"} => writes = {}
  /\ \A c \in writes :
       /\ c.node_id \in DOMAIN last_sent_states
       /\ c = GroupConfig(c.node_id, last_sent_states[c.node_id], c.allowed)

ProcInv ==
  /\ ProcTypeOK
  /\ CacheIsShown
  /\ CacheIsCurrent
  /\ StateIsSeen
  /\ BatchIsCached

LEMMA ProcInitInv == ProcInit => ProcInv
BY ProcInitType DEF ProcInit, ProcInv, CacheIsShown, CacheIsCurrent,
                    StateIsSeen, BatchIsCached, OneConfigPerNode, EmptyMap

LEMMA CollectInv ==
  ASSUME ProcInv, Collect
  PROVE  CacheIsShown' /\ CacheIsCurrent' /\ StateIsSeen' /\ BatchIsCached'
<1> USE DEF ProcInv, Collect
<1>1. StateIsSeen'
  BY DEF StateIsSeen, GroupStatus
<1>2. CacheIsShown' /\ CacheIsCurrent' /\ BatchIsCached'
  BY DEF CacheIsShown, CacheIsCurrent, BatchIsCached, OneConfigPerNode, opcVars
<1> QED
  BY <1>1, <1>2

LEMMA KeepSilentInv ==
  ASSUME ProcInv, KeepSilent
  PROVE  CacheIsShown' /\ CacheIsCurrent' /\ StateIsSeen' /\ BatchIsCached'
<1> USE DEF ProcInv, KeepSilent
<1>1. CacheIsCurrent'
  BY DEF CacheIsCurrent, Changed, Moved
<1>2. CacheIsShown' /\ StateIsSeen' /\ BatchIsCached'
  BY DEF CacheIsShown, StateIsSeen, BatchIsCached, OneConfigPerNode, opcVars
<1> QED
  BY <1>1, <1>2

LEMMA BuildInv ==
  ASSUME ProcInv, Build
  PROVE  CacheIsShown' /\ CacheIsCurrent' /\ StateIsSeen' /\ BatchIsCached'
<1> USE DEF ProcInv
<1>1. PICK any : writes' = Batch(current_states, any)
  BY BuildBatch
<1>2. /\ DOMAIN last_sent_states' = DOMAIN last_sent_states \cup DOMAIN current_states
      /\ \A g \in DOMAIN last_sent_states' :
           last_sent_states'[g] = IF g \in DOMAIN current_states
                                    THEN current_states[g]
                                    ELSE last_sent_states[g]
  BY DEF Build, Merge
<1>3. /\ NodesOf(writes') = DOMAIN current_states
      /\ OneConfigPerNode(writes')
  BY <1>1, BatchNodes
<1>4. CacheIsShown'
  <2> SUFFICES ASSUME NEW g \in DOMAIN last_sent_states', g \notin missed,
                      g \notin DOMAIN current_states
               PROVE  nodes[g] = last_sent_states'[g]
    BY <1>3 DEF CacheIsShown, Build, opcVars
  <2>1. g \in DOMAIN last_sent_states /\ last_sent_states'[g] = last_sent_states[g]
    BY <1>2
  <2>2. g \notin NodesOf(writes)
    BY DEF Build, BatchIsCached, NodesOf
  <2> QED
    BY <2>1, <2>2 DEF CacheIsShown
<1>5. CacheIsCurrent'
  BY <1>2 DEF CacheIsCurrent, Build
<1>6. StateIsSeen'
  BY DEF StateIsSeen, Build
<1>7. \A c \in writes' :
        /\ c.node_id \in DOMAIN last_sent_states'
        /\ c = GroupConfig(c.node_id, last_sent_states'[c.node_id], c.allowed)
  <2> SUFFICES ASSUME NEW c \in writes'
               PROVE  /\ c.node_id \in DOMAIN last_sent_states'
                      /\ c = GroupConfig(c.node_id,
                                         last_sent_states'[c.node_id], c.allowed)
    OBVIOUS
  <2> DEFINE n == c.node_id
  <2>1. n \in DOMAIN current_states /\ c = GroupConfig(n, current_states[n], any[n])
    BY <1>1, BatchNodes
  <2>2. c.allowed = any[n]
    BY <2>1 DEF GroupConfig, WriteConfig
  <2> QED
    BY <1>2, <2>1, <2>2
<1>8. pc' = "connect"
  BY DEF Build
<1> QED
  BY <1>3, <1>4, <1>5, <1>6, <1>7, <1>8 DEF BatchIsCached

LEMMA NotConnectedInv ==
  ASSUME ProcInv, NotConnected
  PROVE  CacheIsShown' /\ CacheIsCurrent' /\ StateIsSeen' /\ BatchIsCached'
<1> USE DEF ProcInv, NotConnected
<1>1. CacheIsShown'
  BY DEF CacheIsShown, NodesOf
<1>2. CacheIsCurrent' /\ StateIsSeen'
  BY DEF CacheIsCurrent, StateIsSeen
<1>3. BatchIsCached'
  BY DEF BatchIsCached, OneConfigPerNode
<1> QED
  BY <1>1, <1>2, <1>3

LEMMA SendInv ==
  ASSUME ProcInv, Send
  PROVE  CacheIsShown' /\ CacheIsCurrent' /\ StateIsSeen' /\ BatchIsCached'
<1> USE DEF ProcInv
<1>1. CacheIsShown'
  <2> SUFFICES ASSUME NEW g \in DOMAIN last_sent_states, g \notin missed'
               PROVE  nodes'[g] = last_sent_states[g]
    BY DEF CacheIsShown, Send
  <2>1. g \in Groups /\ g \in NodeIds /\ last_sent_states[g] \in Status
    BY PartialMapsElim, ProcessAssumption DEF ProcTypeOK
  <2>2. Write(writes)
    BY DEF Send
  <2>3. CASE g \in NodesOf(writes)
    <3>1. PICK c \in writes : c.node_id = g
      BY <2>3 DEF NodesOf
    <3>2. nodes'[g] = Wire(c)
      BY <2>1, <2>2, <3>1, WriteHands DEF BatchIsCached
    <3>3. c = GroupConfig(g, last_sent_states[g], c.allowed)
      BY <3>1 DEF BatchIsCached
    <3> QED
      BY <2>1, <3>2, <3>3, GroupWire
  <2>4. CASE g \notin NodesOf(writes)
    <3>1. nodes'[g] = nodes[g] /\ g \notin missed
      BY <2>1, <2>2, <2>4, WriteKeeps DEF ProcTypeOK, OpcTypeOK
    <3> QED
      BY <2>4, <3>1 DEF CacheIsShown
  <2> QED
    BY <2>3, <2>4
<1>2. CacheIsCurrent' /\ StateIsSeen'
  BY DEF Send, CacheIsCurrent, StateIsSeen
<1>3. BatchIsCached'
  BY DEF Send, BatchIsCached, OneConfigPerNode
<1> QED
  BY <1>1, <1>2, <1>3

LEMMA EnvironmentInv ==
  ASSUME ProcInv, Environment
  PROVE  CacheIsShown' /\ CacheIsCurrent' /\ StateIsSeen' /\ BatchIsCached'
<1> USE DEF ProcInv, Environment, procVars
<1>1. CacheIsShown'
  <2>1. DOMAIN last_sent_states \subseteq NodeIds
    BY PartialMapsElim, ProcessAssumption DEF ProcTypeOK
  <2> QED
    BY <2>1, ServerStepKeeps DEF CacheIsShown
<1>2. CacheIsCurrent' /\ StateIsSeen' /\ BatchIsCached'
  BY DEF CacheIsCurrent, StateIsSeen, BatchIsCached, OneConfigPerNode
<1> QED
  BY <1>1, <1>2

LEMMA ProcNextInv == ProcInv /\ [ProcNext]_vars => ProcInv'
<1> SUFFICES ASSUME ProcInv, [ProcNext]_vars PROVE ProcInv'
  OBVIOUS
<1>1. ProcTypeOK'
  BY ProcNextType DEF ProcInv
<1>2. CASE Collect
  BY <1>1, <1>2, CollectInv DEF ProcInv
<1>3. CASE KeepSilent
  BY <1>1, <1>3, KeepSilentInv DEF ProcInv
<1>4. CASE Build
  BY <1>1, <1>4, BuildInv DEF ProcInv
<1>5. CASE Connected
  BY <1>1, <1>5 DEF Connected, ProcInv, CacheIsShown, CacheIsCurrent,
                    StateIsSeen, BatchIsCached, OneConfigPerNode
<1>6. CASE NotConnected
  BY <1>1, <1>6, NotConnectedInv DEF ProcInv
<1>7. CASE Send
  BY <1>1, <1>7, SendInv DEF ProcInv
<1>8. CASE Environment
  BY <1>1, <1>8, EnvironmentInv DEF ProcInv
<1>9. CASE UNCHANGED vars
  BY <1>1, <1>9 DEF vars, procVars, opcVars, ProcInv, CacheIsShown,
                    CacheIsCurrent, StateIsSeen, BatchIsCached, OneConfigPerNode
<1> QED
  BY <1>2, <1>3, <1>4, <1>5, <1>6, <1>7, <1>8, <1>9 DEF ProcNext, Cycle

LEMMA ProcInvShows == ProcInv => GroupShown
<1> SUFFICES ASSUME ProcInv, pc = "collect", NEW g \in DOMAIN current_states,
                    g \notin missed
             PROVE  nodes[g] = IF Members[g] \subseteq seen THEN 1 ELSE 0
  BY DEF GroupShown
<1>1. g \in DOMAIN last_sent_states /\ last_sent_states[g] = current_states[g]
  BY DEF ProcInv, CacheIsCurrent
<1>2. g \notin NodesOf(writes)
  BY DEF ProcInv, BatchIsCached, NodesOf
<1>3. nodes[g] = current_states[g]
  BY <1>1, <1>2 DEF ProcInv, CacheIsShown
<1> QED
  BY <1>3 DEF ProcInv, StateIsSeen

(***************************************************************************)
(* Between two cycles the node of every group collected last tells whether *)
(* ps listed all its members, unless the server missed the value handed    *)
(* over last: the early writing of the cache does no other harm.           *)
(***************************************************************************)
THEOREM ProcGroupShown == ProcSpec => []GroupShown
BY ProcInitInv, ProcNextInv, ProcInvShows, PTL DEF ProcSpec

-------------------------------------------------------------------------------
(***************************************************************************)
(* The refinement: node by node, what a step of the channel does to the    *)
(* cache, the server and the nodes missed or about to be handed over.      *)
(***************************************************************************)
Shown == Status \cup {NoValue}

RefInv == ProcInv /\ nodes \in [NodeIds -> Shown]

PubMissedSet == missed \cup NodesOf(writes)

Sent(n) == IF n \in DOMAIN last_sent_states THEN last_sent_states[n] ELSE NoValue

LEMMA SentIsSent == RefInv => \A n : SentTo(n) = Sent(n)
<1> SUFFICES ASSUME RefInv, NEW n \in DOMAIN last_sent_states
             PROVE  Wire(GroupConfig(n, last_sent_states[n], TRUE))
                      = last_sent_states[n]
  BY DEF SentTo, Sent
<1>1. n \in Groups /\ last_sent_states[n] \in Status
  BY PartialMapsElim, ProcessAssumption DEF RefInv, ProcInv, ProcTypeOK
<1> QED
  BY <1>1, GroupWire

LEMMA RefInitInv == ProcInit => RefInv
BY ProcInitInv DEF RefInv, Shown, ProcInit, OpcInit

LEMMA RefNextInv == RefInv /\ [ProcNext]_vars => RefInv'
<1> SUFFICES ASSUME RefInv, [ProcNext]_vars
             PROVE  nodes' \in [NodeIds -> Shown]
  BY ProcNextInv DEF RefInv
<1>1. CASE Send
  <2> SUFFICES ASSUME NEW c \in writes PROVE Wire(c) \in Shown
    BY <1>1, WriteValues DEF Send, RefInv
  <2>1. /\ c.node_id \in DOMAIN last_sent_states
        /\ c = GroupConfig(c.node_id, last_sent_states[c.node_id], c.allowed)
    BY DEF RefInv, ProcInv, BatchIsCached
  <2>2. c.node_id \in Groups /\ last_sent_states[c.node_id] \in Status
    BY <2>1, PartialMapsElim, ProcessAssumption DEF RefInv, ProcInv, ProcTypeOK
  <2> QED
    BY <2>1, <2>2, GroupWire DEF Shown
<1>2. CASE Environment
  BY <1>2, ServerStepValues DEF Environment, RefInv, Shown
<1>3. CASE Collect \/ KeepSilent \/ Build \/ Connected \/ NotConnected
             \/ UNCHANGED vars
  BY <1>3 DEF Collect, KeepSilent, Build, Connected, NotConnected, vars, opcVars,
              RefInv
<1> QED
  BY <1>1, <1>2, <1>3 DEF ProcNext, Cycle

KeptNode(n) ==
  /\ Sent(n)' \in {Sent(n), NoValue}
  /\ nodes'[n] = nodes[n]
  /\ n \in PubMissedSet' <=> n \in PubMissedSet

LostNode(n) ==
  /\ nodes'[n] = nodes[n]
  /\ n \in PubMissedSet'

DeliveredNode(n) ==
  /\ nodes'[n] # NoValue
  /\ Sent(n)' \in {nodes'[n], NoValue}
  /\ n \notin PubMissedSet'

LEMMA BuildPublishes ==
  ASSUME RefInv, Build, NEW n \in NodeIds
  PROVE  KeptNode(n) \/ LostNode(n)
<1>1. PICK any : writes' = Batch(current_states, any)
  BY BuildBatch
<1>2. NodesOf(writes)' = DOMAIN current_states
  BY <1>1, BatchNodes DEF NodesOf
<1>3. writes = {} /\ NodesOf(writes) = {}
  BY DEF RefInv, ProcInv, BatchIsCached, Build, NodesOf
<1>4. CASE n \in DOMAIN current_states
  BY <1>2, <1>4 DEF LostNode, PubMissedSet, Build, opcVars
<1>5. CASE n \notin DOMAIN current_states
  <2>1. Sent(n)' = Sent(n)
    BY <1>5 DEF Sent, Build, Merge
  <2> QED
    BY <1>2, <1>3, <1>5, <2>1 DEF KeptNode, PubMissedSet, Build, opcVars
<1> QED
  BY <1>4, <1>5

LEMMA SendPublishes ==
  ASSUME RefInv, Send, NEW n \in NodeIds
  PROVE  KeptNode(n) \/ LostNode(n) \/ DeliveredNode(n)
<1> USE DEF RefInv, ProcInv
<1>1. Sent(n)' = Sent(n) /\ NodesOf(writes)' = {} /\ Write(writes)
  BY DEF Send, Sent, NodesOf
<1>2. CASE n \in NodesOf(writes)
  <2>1. PICK c \in writes : c.node_id = n
    BY <1>2 DEF NodesOf
  <2>2. /\ n \in DOMAIN last_sent_states
        /\ c = GroupConfig(n, last_sent_states[n], c.allowed)
    BY <2>1 DEF BatchIsCached
  <2>3. n \in Groups /\ last_sent_states[n] \in Status
    BY <2>2, PartialMapsElim, ProcessAssumption DEF ProcTypeOK
  <2>4. Wire(c) = last_sent_states[n] /\ Wire(c) # NoValue
    BY <2>2, <2>3, GroupWire, ProcessAssumption DEF Status
  <2>5. \/ n \notin missed' /\ nodes'[n] = Wire(c)
        \/ n \in missed' /\ nodes'[n] = nodes[n]
    BY <1>1, <2>1, WriteOutcome DEF BatchIsCached, ProcTypeOK, OpcTypeOK
  <2> QED
    BY <1>1, <2>2, <2>4, <2>5 DEF LostNode, DeliveredNode, PubMissedSet, Sent
<1>3. CASE n \notin NodesOf(writes)
  <2>1. nodes'[n] = nodes[n] /\ (n \in missed' <=> n \in missed)
    BY <1>1, <1>3, WriteKeeps DEF ProcTypeOK, OpcTypeOK
  <2> QED
    BY <1>1, <1>3, <2>1 DEF KeptNode, PubMissedSet
<1> QED
  BY <1>2, <1>3

LEMMA CyclePublishes ==
  ASSUME RefInv, Cycle, NEW n \in NodeIds
  PROVE  KeptNode(n) \/ LostNode(n) \/ DeliveredNode(n)
<1>1. CASE Collect \/ KeepSilent \/ Connected
  BY <1>1 DEF Collect, KeepSilent, Connected, KeptNode, Sent, PubMissedSet,
              NodesOf, opcVars
<1>2. CASE NotConnected
  BY <1>2 DEF NotConnected, KeptNode, Sent, PubMissedSet, NodesOf
<1> QED
  BY <1>1, <1>2, BuildPublishes, SendPublishes DEF Cycle

LEMMA RefInit == ProcInit => Pub!PubInit
<1> SUFFICES ASSUME ProcInit PROVE Pub!PubInit
  OBVIOUS
<1>1. \A n : SentTo(n) = NoValue
  BY DEF SentTo, ProcInit, EmptyMap
<1>2. NodesOf(writes) = {}
  BY DEF NodesOf, ProcInit
<1> QED
  BY <1>1, <1>2 DEF Pub!PubInit, ProcInit, OpcInit

LEMMA RefType == RefInv => Pub!PubTypeOK
<1> SUFFICES ASSUME RefInv PROVE Pub!PubTypeOK
  OBVIOUS
<1>1. \A n \in NodeIds : SentTo(n) \in Shown
  BY SentIsSent, PartialMapsElim
     DEF Sent, Shown, RefInv, ProcInv, ProcTypeOK
<1>2. PubMissedSet \subseteq NodeIds
  BY ProcessAssumption
     DEF PubMissedSet, NodesOf, RefInv, ProcInv, ProcTypeOK, OpcTypeOK
<1> QED
  BY <1>1, <1>2 DEF Pub!PubTypeOK, PubMissedSet, Shown, RefInv

LEMMA RefNext == RefInv /\ RefInv' /\ [ProcNext]_vars => [Pub!PubNext]_(Pub!pubVars)
<1> SUFFICES ASSUME RefInv, RefInv', [ProcNext]_vars
             PROVE  [Pub!PubNext]_(Pub!pubVars)
  OBVIOUS
<1>1. Pub!PubTypeOK'
  BY RefType, PTL
<1>2. \A n \in NodeIds : SentTo(n) = Sent(n) /\ SentTo(n)' = Sent(n)'
  <2>1. (\A n : SentTo(n) = Sent(n))'
    BY SentIsSent, PTL
  <2> QED
    BY <2>1, SentIsSent
<1>3. CASE Cycle
  <2>1. ASSUME NEW n \in NodeIds
        PROVE  Pub!Kept(n) \/ Pub!Lost(n) \/ Pub!Delivered(n)
    <3>1. CASE KeptNode(n)
      BY <1>2, <3>1 DEF KeptNode, PubMissedSet, Pub!Kept
    <3>2. CASE LostNode(n)
      BY <3>2 DEF LostNode, PubMissedSet, Pub!Lost
    <3>3. CASE DeliveredNode(n)
      BY <1>2, <3>3 DEF DeliveredNode, PubMissedSet, Pub!Delivered
    <3> QED
      BY <1>3, <3>1, <3>2, <3>3, CyclePublishes
  <2> QED
    BY <1>1, <2>1 DEF Pub!PubNext, Pub!Publish
<1>4. CASE Environment
  <2>1. /\ \A n \in NodeIds : SentTo(n)' = SentTo(n)
        /\ NodesOf(writes)' = NodesOf(writes)
    BY <1>4 DEF Environment, procVars, SentTo, NodesOf
  <2>2. CASE ServerRestarted
    BY <1>1, <2>1, <2>2 DEF ServerRestarted, Pub!PubNext, Pub!Forget
  <2>3. CASE ServerDown \/ ServerBack \/ OthersCall
    BY <2>1, <2>3 DEF ServerDown, ServerBack, OthersCall, Pub!pubVars
  <2> QED
    BY <1>4, <2>2, <2>3 DEF Environment, ServerStep
<1>5. CASE UNCHANGED vars
  BY <1>5 DEF vars, opcVars, procVars, Pub!pubVars, SentTo, NodesOf
<1> QED
  BY <1>3, <1>4, <1>5 DEF ProcNext

(***************************************************************************)
(* The channel implements Publication: from the moment Build fills the     *)
(* cache to the end of the write its nodes count as missed, and a batch    *)
(* dropped for want of a connection is no worse than one that got lost.    *)
(***************************************************************************)
THEOREM ProcImplementsPublication == ProcSpec => ProcPublishes
BY RefInitInv, RefNextInv, RefInit, RefNext, PTL
   DEF ProcSpec, ProcPublishes, Pub!PubSpec
===============================================================================
