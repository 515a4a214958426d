--------------------------- MODULE OpcUaClientProofs ---------------------------
(***************************************************************************)
(* What a channel may rely on when it calls Write, for every batch and     *)
(* every behaviour of the server, and what it may rely on of std::map.     *)
(***************************************************************************)
EXTENDS OpcUaClient, Maps, TLAPS

OneConfigPerNode(configs) ==
  \A c, d \in configs : c.node_id = d.node_id => c = d

(***************************************************************************)
(* A node handed over in a batch and not missed afterwards holds the wire  *)
(* form of its config.  Concerns both the happy and the failing paths of   *)
(* OpcUaClient::Write.                                                     *)
(***************************************************************************)
LEMMA WriteHands ==
  ASSUME NEW configs, OneConfigPerNode(configs), Write(configs),
         NEW c \in configs, c.node_id \in NodeIds, c.node_id \notin missed'
  PROVE  nodes'[c.node_id] = Wire(c)
<1>1. c.node_id \in NodesOf(configs)
  BY DEF NodesOf
<1>2. Store(configs)
  BY <1>1 DEF Write, WriteNothing, WriteGood, WriteLost, WriteNoReply
<1>3. c.node_id \in NodesOf(Stored(configs))
  BY <1>1, <1>2 DEF Store
<1> DEFINE S == Stored(configs)
           d == CHOOSE x \in S : x.node_id = c.node_id
<1>4. d \in S /\ d.node_id = c.node_id
  BY <1>3 DEF NodesOf
<1>5. d = c
  BY <1>4 DEF OneConfigPerNode, Stored, Items
<1>6. nodes'[c.node_id] = Wire(d)
  BY <1>2, <1>3 DEF Store, Overlay
<1> QED
  BY <1>5, <1>6

(***************************************************************************)
(* A node handed over is either stored or missed and as it was before:     *)
(* there is no third outcome, whatever the reply.                          *)
(***************************************************************************)
LEMMA WriteOutcome ==
  ASSUME NEW configs, OneConfigPerNode(configs), Write(configs),
         NEW c \in configs, c.node_id \in NodeIds, DOMAIN nodes = NodeIds
  PROVE  \/ c.node_id \notin missed' /\ nodes'[c.node_id] = Wire(c)
         \/ c.node_id \in missed' /\ nodes'[c.node_id] = nodes[c.node_id]
<1>1. CASE c.node_id \notin missed'
  BY <1>1, WriteHands
<1>2. CASE c.node_id \in missed'
  <2>1. CASE Store(configs)
    BY <1>2, <2>1 DEF Store, Overlay
  <2>2. CASE UNCHANGED nodes
    BY <1>2, <2>2
  <2> QED
    BY <2>1, <2>2 DEF Write, WriteNothing, WriteGood, WriteLost, WriteNoReply
<1> QED
  BY <1>1, <1>2

(***************************************************************************)
(* A node the server does not let us write is missed.                      *)
(***************************************************************************)
LEMMA WriteRefused ==
  ASSUME NEW configs, Write(configs), NEW n \in NodesOf(configs), n \notin Accepted
  PROVE  n \in missed'
<1>1. n \notin NodesOf(Stored(configs))
  BY DEF NodesOf, Stored
<1> QED
  BY <1>1 DEF Write, WriteNothing, WriteGood, WriteLost, WriteNoReply, Store

(***************************************************************************)
(* The values Write may leave in the nodes.                                *)
(***************************************************************************)
LEMMA WriteValues ==
  ASSUME NEW configs, Write(configs), NEW T, nodes \in [NodeIds -> T],
         \A c \in configs : Wire(c) \in T
  PROVE  nodes' \in [NodeIds -> T]
<1>1. ASSUME NEW n \in NodeIds, n \in NodesOf(Stored(configs))
      PROVE  Wire(CHOOSE c \in Stored(configs) : c.node_id = n) \in T
  <2>1. PICK d \in Stored(configs) : d.node_id = n
    BY <1>1 DEF NodesOf
  <2>2. (CHOOSE c \in Stored(configs) : c.node_id = n) \in Stored(configs)
    BY <2>1
  <2> QED
    BY <2>2 DEF Stored, Items
<1>2. Overlay(Stored(configs)) \in [NodeIds -> T]
  BY <1>1 DEF Overlay
<1> QED
  BY <1>2 DEF Write, WriteNothing, WriteGood, WriteLost, WriteNoReply, Store

LEMMA ServerStepValues ==
  ASSUME ServerStep, NEW T, NoValue \in T, nodes \in [NodeIds -> T]
  PROVE  nodes' \in [NodeIds -> T]
BY DEF ServerStep, ServerDown, ServerBack, ServerRestarted, OthersCall

(***************************************************************************)
(* Write leaves alone the nodes of no config of the batch.                 *)
(***************************************************************************)
LEMMA WriteKeeps ==
  ASSUME NEW configs, Write(configs), DOMAIN nodes = NodeIds,
         NEW n \in NodeIds, n \notin NodesOf(configs)
  PROVE  nodes'[n] = nodes[n] /\ (n \in missed' <=> n \in missed)
<1>1. n \notin NodesOf(Stored(configs))
  BY DEF NodesOf, Stored, Items
<1>2. CASE Store(configs)
  BY <1>1, <1>2 DEF Store, Overlay
<1>3. CASE UNCHANGED nodes /\ missed' = missed \cup NodesOf(configs)
  BY <1>3
<1> QED
  BY <1>2, <1>3 DEF Write, WriteNothing, WriteGood, WriteLost, WriteNoReply

(***************************************************************************)
(* Whatever the server does on its own, a node it does not miss afterwards *)
(* is one it did not miss before and still shows the same.                 *)
(***************************************************************************)
LEMMA ServerStepKeeps ==
  ASSUME ServerStep, NEW n \in NodeIds, n \notin missed'
  PROVE  n \notin missed /\ nodes'[n] = nodes[n]
BY DEF ServerStep, ServerDown, ServerBack, ServerRestarted, OthersCall

(***************************************************************************)
(* The type invariant of the client and the server is kept by Write and by *)
(* the server's own steps.                                                 *)
(***************************************************************************)
LEMMA WriteType ==
  ASSUME NEW configs, \A c \in configs : c.node_id \in NodeIds,
         OpcTypeOK, Write(configs)
  PROVE  OpcTypeOK'
<1>1. NodesOf(configs) \subseteq NodeIds
  BY DEF NodesOf
<1>2. CASE WriteNothing(configs)
  BY <1>1, <1>2 DEF WriteNothing, OpcTypeOK
<1>3. CASE WriteGood(configs)
  BY <1>1, <1>3 DEF WriteGood, Store, Overlay, OpcTypeOK
<1>4. CASE WriteLost(configs)
  BY <1>1, <1>4 DEF WriteLost, Disconnect, OpcTypeOK
<1>5. CASE WriteNoReply(configs)
  BY <1>1, <1>5 DEF WriteNoReply, Store, Overlay, Disconnect, OpcTypeOK
<1> QED
  BY <1>2, <1>3, <1>4, <1>5 DEF Write

LEMMA ServerStepType ==
  ASSUME OpcTypeOK, ServerStep
  PROVE  OpcTypeOK'
BY DEF OpcTypeOK, ServerStep, ServerDown, ServerBack, ServerRestarted, OthersCall

-------------------------------------------------------------------------------
(***************************************************************************)
(* std::map, element by element.                                           *)
(***************************************************************************)
LEMMA PartialMapsElim ==
  ASSUME NEW S, NEW T, NEW f \in PartialMaps(S, T)
  PROVE  /\ DOMAIN f \subseteq S
         /\ \A x \in DOMAIN f : f[x] \in T
BY DEF PartialMaps

LEMMA PartialMapsIntro ==
  ASSUME NEW S, NEW T, NEW D \in SUBSET S, NEW f \in [D -> T]
  PROVE  f \in PartialMaps(S, T)
BY DEF PartialMaps

LEMMA EmptyMapType ==
  ASSUME NEW S, NEW T
  PROVE  EmptyMap \in PartialMaps(S, T)
<1>1. EmptyMap \in [{} -> T]
  BY DEF EmptyMap
<1> QED
  BY <1>1, PartialMapsIntro

LEMMA MergeType ==
  ASSUME NEW S, NEW T, NEW f \in PartialMaps(S, T), NEW g \in PartialMaps(S, T)
  PROVE  Merge(f, g) \in PartialMaps(S, T)
<1>1. Merge(f, g) \in [DOMAIN f \cup DOMAIN g -> T]
  BY PartialMapsElim DEF Merge
<1> QED
  BY <1>1, PartialMapsElim, PartialMapsIntro

LEMMA OnType ==
  ASSUME NEW S, NEW T, NEW f \in PartialMaps(S, T), NEW D
  PROVE  On(f, D) \in PartialMaps(S, T)
<1>1. On(f, D) \in [DOMAIN f \cap D -> T]
  BY PartialMapsElim DEF On
<1> QED
  BY <1>1, PartialMapsElim, PartialMapsIntro

(***************************************************************************)
(* A map is a map into a larger set of values, and of keys.                *)
(***************************************************************************)
LEMMA PartialMapsWiden ==
  ASSUME NEW S, NEW T, NEW S2, NEW T2, S \subseteq S2, T \subseteq T2,
         NEW f \in PartialMaps(S, T)
  PROVE  f \in PartialMaps(S2, T2)
<1>1. PICK D \in SUBSET S : f \in [D -> T]
  BY DEF PartialMaps
<1>2. f \in [D -> T2]
  BY <1>1
<1> QED
  BY <1>1, <1>2, PartialMapsIntro
===============================================================================
