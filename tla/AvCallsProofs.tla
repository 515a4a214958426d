----------------------------- MODULE AvCallsProofs -----------------------------
(***************************************************************************)
(* Class AvDiagnostics for any documents, edits of them, tools, pings and  *)
(* counters: type correctness, and what each of its six parts shows.       *)
(*                                                                         *)
(* Every part has an invariant of its own, which its steps and those of    *)
(* the server keep; the parts that are not looked at are as they were in   *)
(* the beginning.  And four of them implement Publication.                 *)
(*                                                                         *)
(* Then the calls of the parts that keep nothing (module Calls), for any   *)
(* files, dongles and servers, with an invariant of each in the same way.  *)
(***************************************************************************)
EXTENDS AvDiagnostics, Calls, OpcUaClientProofs, FiniteSetTheorems

(***************************************************************************)
(* What the methods find where a section is expected.                      *)
(***************************************************************************)
LEMMA DocEdition ==
  ASSUME AvDocumentTypeOK, doc_ \notin {NoRoot, NoSection}
  PROVE  doc_ \in Editions(part)
BY DEF AvDocumentTypeOK, Editions

LEMMA LoadXmlType ==
  ASSUME AvDocumentTypeOK, loadXml
  PROVE  AvDocumentTypeOK'
BY DEF AvDocumentTypeOK, loadXml, OpcTypeOK, opcVars

LEMMA ServerDocType ==
  ASSUME AvDocumentTypeOK, ServerStep, UNCHANGED callVars
  PROVE  AvDocumentTypeOK'
<1>1. OpcTypeOK'
  BY ServerStepType DEF AvDocumentTypeOK
<1> QED
  BY <1>1 DEF AvDocumentTypeOK, callVars

LEMMA CrashType ==
  ASSUME AvDocumentTypeOK, Crash
  PROVE  AvDocumentTypeOK'
BY DEF AvDocumentTypeOK, Crash, OpcTypeOK, opcVars

(***************************************************************************)
(* A step within a cycle that leaves the client alone, or writes.          *)
(***************************************************************************)
AvPlaces == {"idle", "collected", "detected", "connect", "write"}

LEMMA GoesType ==
  ASSUME AvDocumentTypeOK, NEW from, NEW to \in AvPlaces, Goes(from, to),
         OpcTypeOK', \A c \in batch' : c.node_id \in NodeIds
  PROVE  AvDocumentTypeOK'
BY DEF AvDocumentTypeOK, Goes, AvPlaces

LEMMA OpcRests ==
  ASSUME AvDocumentTypeOK, UNCHANGED opcVars
  PROVE  OpcTypeOK'
BY DEF AvDocumentTypeOK, OpcTypeOK, opcVars

-------------------------------------------------------------------------------
(***************************************************************************)
(* The CPUs: the server shows the cache, and between two cycles the cache  *)
(* is near what was collected.                                             *)
(***************************************************************************)
CpuCached(c) ==
  AvCpuNode[c] \notin missed =>
    nodes[AvCpuNode[c]] =
      Wire(AvCpuConfig(c, handed_types[c], last_sent_cpu_usages_[c]))

CpuNear(c) ==
  /\ c \in DOMAIN last_sent_cpu_usages_
  /\ \/ Near(last_sent_cpu_usages_[c], current_cpu_usages_[c])
     \/ Overflows(last_sent_cpu_usages_[c], current_cpu_usages_[c])

CpuHolds ==
  /\ AvCpuTypeOK
  /\ \A c \in DOMAIN last_sent_cpu_usages_ : CpuCached(c)
  /\ av_pc = "idle" => \A c \in DOMAIN current_cpu_usages_ : CpuNear(c)

LEMMA AvCpuStarts ==
  ASSUME AvCpuInit
  PROVE  CpuHolds
<1>1. EmptyMap \in PartialMaps(AvCpus, types_ \cup {""}) /\ DOMAIN EmptyMap = {}
  BY EmptyMapType DEF EmptyMap
<1>2. EmptyMap \in PartialMaps({}, Usages)
  BY EmptyMapType
<1> QED
  BY <1>1, <1>2 DEF AvCpuInit, CpuHolds, AvCpuTypeOK

LEMMA CpuHoldsShows == AvDocumentTypeOK /\ CpuHolds => AvCpuShown
<1> SUFFICES ASSUME CpuHolds, av_pc = "idle",
                    NEW c \in DOMAIN current_cpu_usages_,
                    AvCpuNode[c] \notin missed
             PROVE  \E u \in Usages :
                      /\ nodes[AvCpuNode[c]] = Wire(AvCpuConfig(c, handed_types[c], u))
                      /\ Near(u, current_cpu_usages_[c])
                           \/ Overflows(u, current_cpu_usages_[c])
  BY DEF AvCpuShown
<1>1. CpuNear(c) /\ CpuCached(c)
  BY DEF CpuHolds, CpuNear
<1>2. last_sent_cpu_usages_[c] \in Usages
  BY <1>1, PartialMapsElim DEF CpuHolds, AvCpuTypeOK, CpuNear
<1> QED
  BY <1>1, <1>2 DEF CpuNear, CpuCached

LEMMA CpuLoads ==
  ASSUME AvDocumentTypeOK, part = "cpu", CpuHolds, loadCpuConfig
  PROVE  AvDocumentTypeOK' /\ CpuHolds'
<1>1. AvDocumentTypeOK'
  BY DEF loadCpuConfig, AvDocumentTypeOK, OpcTypeOK, opcVars, callVars
<1>2. doc_ \in PartialMaps(AvCpus, types_ \cup {""})
  BY DocEdition, AvCpuAssumption DEF loadCpuConfig
<1>3. cpu_nodes_' \in PartialMaps(AvCpus, types_ \cup {""})
      /\ DOMAIN cpu_nodes_ \subseteq DOMAIN cpu_nodes_'
  BY <1>2, MergeType DEF loadCpuConfig, CpuHolds, AvCpuTypeOK, Merge
<1>4. AvCpuTypeOK'
  BY <1>3, PartialMapsWiden DEF loadCpuConfig, CpuHolds, AvCpuTypeOK
<1> QED
  BY <1>1, <1>4
     DEF CpuHolds, CpuCached, CpuNear, loadCpuConfig, opcVars, callVars

LEMMA CpuCollects ==
  ASSUME AvDocumentTypeOK, CpuHolds, collectCpuUsage
  PROVE  AvDocumentTypeOK' /\ CpuHolds'
<1>1. AvDocumentTypeOK'
  BY GoesType, OpcRests DEF collectCpuUsage, AvPlaces, AvDocumentTypeOK
<1>2. current_cpu_usages_' \in PartialMaps(DOMAIN cpu_nodes_, Usages)
  BY PartialMapsIntro DEF collectCpuUsage
<1> QED
  BY <1>1, <1>2
     DEF CpuHolds, AvCpuTypeOK, CpuCached, collectCpuUsage, Goes, opcVars

LEMMA CpuKeeps ==
  ASSUME AvDocumentTypeOK, CpuHolds, AvCpuKept
  PROVE  AvDocumentTypeOK' /\ CpuHolds'
<1>1. AvDocumentTypeOK'
  BY GoesType, OpcRests DEF AvCpuKept, AvPlaces, AvDocumentTypeOK
<1>2. ASSUME NEW c \in DOMAIN current_cpu_usages_
      PROVE  CpuNear(c)
  <2>1. CASE ~SurelyChanged
    BY <2>1 DEF SurelyChanged, AvMoved, CpuNear
  <2>2. CASE AvCpuConfigs = {}
    <3>1. c \in DOMAIN cpu_nodes_
      BY PartialMapsElim DEF CpuHolds, AvCpuTypeOK
    <3> QED
      BY <2>2, <3>1 DEF AvCpuConfigs
  <2> QED
    BY <2>1, <2>2 DEF AvCpuKept
<1> QED
  BY <1>1, <1>2
     DEF CpuHolds, AvCpuTypeOK, CpuCached, CpuNear, AvCpuKept, Goes, opcVars,
         avCpuVars

LEMMA NearItself ==
  ASSUME NEW u \in Usages
  PROVE  Near(u, u)
<1>1. u \in Int
  BY AvCpuAssumption
<1> QED
  BY <1>1 DEF Near, IsNear, AvThreshold

LEMMA CpuSends ==
  ASSUME AvDocumentTypeOK, CpuHolds, sendCpuUsage
  PROVE  AvDocumentTypeOK' /\ CpuHolds'
<1>1. /\ DOMAIN cpu_nodes_ \subseteq AvCpus
      /\ DOMAIN current_cpu_usages_ \subseteq DOMAIN cpu_nodes_
      /\ \A c \in DOMAIN current_cpu_usages_ : current_cpu_usages_[c] \in Usages
  <2>1. DOMAIN cpu_nodes_ \subseteq AvCpus
    BY PartialMapsElim DEF CpuHolds, AvCpuTypeOK
  <2> QED
    BY <2>1, PartialMapsElim DEF CpuHolds, AvCpuTypeOK
<1> DEFINE Config(c) == AvCpuConfig(c, cpu_nodes_[c], current_cpu_usages_[c])
<1>0. ASSUME NEW x \in AvCpuConfigs
      PROVE  \E c \in AvCpus : x = Config(c) /\ x.node_id = AvCpuNode[c]
  <2>1. PICK c \in DOMAIN current_cpu_usages_ \cap DOMAIN cpu_nodes_ : x = Config(c)
    BY DEF AvCpuConfigs
  <2>2. c \in AvCpus
    BY <1>1, <2>1
  <2> QED
    BY <2>1, <2>2 DEF AvCpuConfig, WriteConfig
<1>2. \A x \in AvCpuConfigs : x.node_id \in NodeIds
  BY <1>0, AvCpuAssumption
<1>3. OneConfigPerNode(AvCpuConfigs)
  BY <1>0, AvCpuAssumption DEF OneConfigPerNode
<1>4. AvDocumentTypeOK'
  <2>1. OpcTypeOK'
    BY <1>2, WriteType DEF sendCpuUsage, AvDocumentTypeOK
  <2> QED
    BY <2>1, GoesType DEF sendCpuUsage, AvPlaces, AvDocumentTypeOK
<1>5. AvCpuTypeOK'
  BY DEF sendCpuUsage, CpuHolds, AvCpuTypeOK, HandedTypes
<1>6. ASSUME NEW c \in DOMAIN current_cpu_usages_
      PROVE  CpuCached(c)'
  <2> DEFINE x == AvCpuConfig(c, cpu_nodes_[c], current_cpu_usages_[c])
  <2>1. x \in AvCpuConfigs /\ x.node_id = AvCpuNode[c]
    BY <1>1 DEF AvCpuConfigs, AvCpuConfig, WriteConfig
  <2>2. AvCpuNode[c] \notin missed' => nodes'[AvCpuNode[c]] = Wire(x)
    BY <1>2, <1>3, <2>1, WriteHands DEF sendCpuUsage
  <2> QED
    BY <2>2 DEF CpuCached, sendCpuUsage, HandedTypes, AvCpuConfig
<1>7. ASSUME NEW c \in DOMAIN current_cpu_usages_
      PROVE  CpuNear(c)'
  BY <1>1, NearItself DEF CpuNear, sendCpuUsage
<1> QED
  BY <1>4, <1>5, <1>6, <1>7 DEF CpuHolds, sendCpuUsage, Goes

LEMMA CpuStepHolds ==
  ASSUME AvDocumentTypeOK, part = "cpu", CpuHolds, AvCpuStep
  PROVE  AvDocumentTypeOK' /\ CpuHolds'
<1>1. CASE loadCpuConfigCrash
  BY <1>1, CrashType
     DEF loadCpuConfigCrash, Crash, avCpuVars, opcVars, CpuHolds, AvCpuTypeOK,
         CpuCached
<1> QED
  BY <1>1, CpuLoads, CpuCollects, CpuKeeps, CpuSends DEF AvCpuStep

LEMMA CpuAnyHolds ==
  ASSUME AvDocumentTypeOK, CpuHolds, UNCHANGED avCpuVars,
         loadXml \/ (ServerStep /\ UNCHANGED callVars)
  PROVE  CpuHolds'
<1>1. AvCpuTypeOK' /\ av_pc' = av_pc
  BY DEF CpuHolds, AvCpuTypeOK, avCpuVars, loadXml, callVars
<1>2. ASSUME NEW c \in DOMAIN last_sent_cpu_usages_
      PROVE  CpuCached(c)'
  <2>1. c \in AvCpus
    <3>1. c \in DOMAIN cpu_nodes_
      BY PartialMapsElim DEF CpuHolds, AvCpuTypeOK
    <3> QED
      BY <3>1, PartialMapsElim DEF CpuHolds, AvCpuTypeOK
  <2>2. CASE loadXml
    BY <2>2 DEF CpuHolds, CpuCached, loadXml, opcVars, avCpuVars
  <2>3. CASE ServerStep
    BY <2>1, <2>3, ServerStepKeeps, AvCpuAssumption DEF CpuHolds, CpuCached, avCpuVars
  <2> QED
    BY <2>2, <2>3
<1> QED
  BY <1>1, <1>2 DEF CpuHolds, CpuNear, avCpuVars

-------------------------------------------------------------------------------
(***************************************************************************)
(* The disks: the server shows the cache as the DiskConfigs it was handed  *)
(* over with have it, the cache is what was collected, and the names of    *)
(* the units never get through.                                            *)
(***************************************************************************)
DiskCached(d) ==
  handed_entries[d].node \notin missed \cup {NoNode} =>
    nodes[handed_entries[d].node] =
      Wire(AvAmountConfig(handed_entries[d], last_sent_disk_usage_[d]))

DiskCurrent(d) ==
  /\ d \in DOMAIN last_sent_disk_usage_
  /\ last_sent_disk_usage_[d] = current_disk_usage_[d]

UnitsUnwritten == \A d \in AvDiskNames : \A n \in AvUnitsNodes[d] : nodes[n] = NoValue

DisksHold ==
  /\ AvDisksTypeOK
  /\ \A d \in DOMAIN last_sent_disk_usage_ : DiskCached(d)
  /\ UnitsUnwritten
  /\ av_pc = "idle" => \A d \in DOMAIN current_disk_usage_ : DiskCurrent(d)

LEMMA AvMergeFits ==
  ASSUME NEW f, NEW g, AvEntriesFit(f), AvEntriesFit(g)
  PROVE  AvEntriesFit(Merge(f, g))
BY DEF AvEntriesFit, Merge

LEMMA AvOnFits ==
  ASSUME NEW f, AvEntriesFit(f), NEW S
  PROVE  AvEntriesFit(On(f, S))
BY DEF AvEntriesFit, On

LEMMA DisksStartType ==
  ASSUME AvDisksInit
  PROVE  AvDisksTypeOK
<1>1. DOMAIN EmptyMap = {} /\ AvEntriesFit(EmptyMap)
  BY DEF EmptyMap, AvEntriesFit
<1>2. EmptyMap \in PartialMaps({}, AvBytes)
  BY EmptyMapType
<1> QED
  BY <1>1, <1>2 DEF AvDisksInit, AvDisksTypeOK

LEMMA DisksStart ==
  ASSUME AvDocumentInit, AvDisksInit
  PROVE  DisksHold
<1>1. DOMAIN EmptyMap = {}
  BY DEF EmptyMap
<1>2. UnitsUnwritten
  BY AvDisksAssumption DEF AvDocumentInit, OpcInit, UnitsUnwritten
<1> QED
  BY <1>1, <1>2, DisksStartType DEF AvDisksInit, DisksHold

(***************************************************************************)
(* A disk that answered once is one of config.xml.                         *)
(***************************************************************************)
LEMMA DiskNames ==
  ASSUME AvDisksTypeOK
  PROVE  /\ DOMAIN disk_configs_ \subseteq AvDiskNames
         /\ DOMAIN current_disk_usage_ \subseteq DOMAIN disk_configs_
         /\ DOMAIN last_sent_disk_usage_ \subseteq DOMAIN current_disk_usage_
<1>1. DOMAIN disk_configs_ \subseteq AvDiskNames
  BY DEF AvDisksTypeOK, AvEntriesFit
<1>2. DOMAIN current_disk_usage_ \subseteq DOMAIN disk_configs_
  BY PartialMapsElim DEF AvDisksTypeOK
<1>3. DOMAIN last_sent_disk_usage_ \subseteq DOMAIN current_disk_usage_
  BY PartialMapsElim DEF AvDisksTypeOK
<1> QED
  BY <1>1, <1>2, <1>3

LEMMA DisksHoldShows == DisksHold => AvAmountShown
<1> SUFFICES ASSUME DisksHold, av_pc = "idle",
                    NEW d \in DOMAIN current_disk_usage_
             PROVE  /\ handed_entries[d].node \notin missed \cup {NoNode} =>
                         nodes[handed_entries[d].node] =
                           Wire(AvAmountConfig(handed_entries[d], current_disk_usage_[d]))
                    /\ \A n \in AvUnitsNodes[d] : nodes[n] = NoValue
  BY DEF AvAmountShown
<1>1. DiskCurrent(d) /\ d \in AvDiskNames
  BY DiskNames DEF DisksHold
<1>2. DiskCached(d)
  BY <1>1 DEF DisksHold, DiskCurrent
<1> QED
  BY <1>1, <1>2 DEF DisksHold, DiskCurrent, DiskCached, UnitsUnwritten

LEMMA DisksCollect ==
  ASSUME AvDocumentTypeOK, part = "disks", DisksHold, collectDiskUsage
  PROVE  AvDocumentTypeOK' /\ DisksHold'
<1>1. AvDocumentTypeOK'
  BY GoesType, OpcRests DEF collectDiskUsage, AvPlaces, AvDocumentTypeOK
<1>2. AvEntriesFit(doc_)
  BY DocEdition, AvDiskEditions DEF collectDiskUsage
<1>3. AvEntriesFit(disk_configs_')
  BY <1>2, AvMergeFits DEF collectDiskUsage, DisksHold, AvDisksTypeOK
<1>4. DOMAIN disk_configs_ \subseteq DOMAIN disk_configs_'
  BY DEF collectDiskUsage, Merge
<1>5. PICK answered \in PartialMaps(DOMAIN disk_configs_', AvBytes) :
        current_disk_usage_' = Merge(current_disk_usage_, answered)
  BY DEF collectDiskUsage
<1>6. current_disk_usage_ \in PartialMaps(DOMAIN disk_configs_', AvBytes)
  BY <1>4, PartialMapsWiden DEF DisksHold, AvDisksTypeOK
<1>7. current_disk_usage_' \in PartialMaps(DOMAIN disk_configs_', AvBytes)
      /\ DOMAIN current_disk_usage_ \subseteq DOMAIN current_disk_usage_'
  <2>1. Merge(current_disk_usage_, answered)
          \in PartialMaps(DOMAIN disk_configs_', AvBytes)
    BY <1>5, <1>6, MergeType
  <2> QED
    BY <1>5, <2>1 DEF Merge
<1>8. last_sent_disk_usage_' \in PartialMaps(DOMAIN current_disk_usage_', AvBytes)
  BY <1>7, PartialMapsWiden DEF collectDiskUsage, DisksHold, AvDisksTypeOK
<1>9. AvDisksTypeOK'
  BY <1>3, <1>7, <1>8
     DEF collectDiskUsage, DisksHold, AvDisksTypeOK, AvEntriesFit
<1> QED
  BY <1>1, <1>9
     DEF DisksHold, DiskCached, UnitsUnwritten, collectDiskUsage, Goes, opcVars

(***************************************************************************)
(* The configs of one DiskConfig, and those of a batch, one by one.        *)
(***************************************************************************)
LEMMA ConfigsOfDisk ==
  ASSUME NEW d \in AvDiskNames, NEW entry \in AvDiskEntries(d), NEW bytes,
         NEW x \in AvConfigsOf(entry, bytes)
  PROVE  \/ /\ x = AvAmountConfig(entry, bytes)
            /\ x.node_id \in AvAmountNodes[d]
         \/ /\ x = AvUnitsConfig(entry)
            /\ x.node_id \in AvUnitsNodes[d] /\ x.type = ""
<1>1. /\ AvAmountConfig(entry, bytes).node_id = entry.node
      /\ AvUnitsConfig(entry).node_id = entry.units_node
      /\ AvUnitsConfig(entry).type = ""
  BY DEF AvAmountConfig, AvUnitsConfig, WriteConfig
<1>2. /\ entry.node \in AvAmountNodes[d] \cup {NoNode}
      /\ entry.units_node \in AvUnitsNodes[d] \cup {NoNode}
  BY DEF AvDiskEntries
<1> QED
  BY <1>1, <1>2 DEF AvConfigsOf

LEMMA DiskConfigOf ==
  ASSUME AvDisksTypeOK, NEW x \in AvDiskConfigs
  PROVE  \E d \in ChangedDisks \cap AvDiskNames :
           \/ /\ x = AvAmountConfig(disk_configs_[d], current_disk_usage_[d])
              /\ x.node_id \in AvAmountNodes[d]
           \/ /\ x = AvUnitsConfig(disk_configs_[d])
              /\ x.node_id \in AvUnitsNodes[d] /\ x.type = ""
<1>1. PICK d \in ChangedDisks :
        x \in AvConfigsOf(disk_configs_[d], current_disk_usage_[d])
  BY DEF AvDiskConfigs
<1>2. d \in AvDiskNames /\ d \in DOMAIN disk_configs_
  BY DiskNames DEF ChangedDisks
<1>3. disk_configs_[d] \in AvDiskEntries(d)
  BY <1>2 DEF AvDisksTypeOK, AvEntriesFit
<1>4. \/ /\ x = AvAmountConfig(disk_configs_[d], current_disk_usage_[d])
         /\ x.node_id \in AvAmountNodes[d]
      \/ /\ x = AvUnitsConfig(disk_configs_[d])
         /\ x.node_id \in AvUnitsNodes[d] /\ x.type = ""
  BY ONLY <1>1, <1>2, <1>3, ConfigsOfDisk, Zenon
<1> QED
  BY <1>2, <1>4

LEMMA DiskConfigs ==
  ASSUME AvDisksTypeOK
  PROVE  /\ OneConfigPerNode(AvDiskConfigs)
         /\ \A x \in AvDiskConfigs : x.node_id \in NodeIds
<1>1. ASSUME NEW x \in AvDiskConfigs
      PROVE  x.node_id \in NodeIds
  BY DiskConfigOf, AvDisksAssumption
<1>2. ASSUME NEW x \in AvDiskConfigs, NEW y \in AvDiskConfigs, x.node_id = y.node_id
      PROVE  x = y
  <2>1. PICK d \in ChangedDisks \cap AvDiskNames :
           \/ /\ x = AvAmountConfig(disk_configs_[d], current_disk_usage_[d])
              /\ x.node_id \in AvAmountNodes[d]
           \/ /\ x = AvUnitsConfig(disk_configs_[d])
              /\ x.node_id \in AvUnitsNodes[d]
    BY DiskConfigOf
  <2>2. PICK e \in ChangedDisks \cap AvDiskNames :
           \/ /\ y = AvAmountConfig(disk_configs_[e], current_disk_usage_[e])
              /\ y.node_id \in AvAmountNodes[e]
           \/ /\ y = AvUnitsConfig(disk_configs_[e])
              /\ y.node_id \in AvUnitsNodes[e]
    BY DiskConfigOf
  <2> QED
    BY <1>2, <2>1, <2>2, AvDisksAssumption
<1> QED
  BY <1>1, <1>2 DEF OneConfigPerNode

(***************************************************************************)
(* A config of a type Write does not serve changes nothing on the server.  *)
(***************************************************************************)
LEMMA UnservedKept ==
  ASSUME NEW configs, Write(configs), DOMAIN nodes = NodeIds, NEW n \in NodeIds,
         \A c \in configs : c.node_id = n => c.type \notin types_
  PROVE  nodes'[n] = nodes[n]
<1>1. n \notin NodesOf(Stored(configs))
  BY DEF NodesOf, Stored, Items
<1> QED
  BY <1>1 DEF Write, WriteNothing, WriteGood, WriteLost, WriteNoReply, Store, Overlay

(***************************************************************************)
(* What the last step of a cycle does to the nodes of an amount: those of  *)
(* a changed disk show it, those of another what they did.                 *)
(***************************************************************************)
DisksEnd == AvDisksKept \/ sendFullDiskMetrics

LEMMA DiskSent ==
  ASSUME AvDocumentTypeOK, AvDisksTypeOK, DisksEnd, NEW d \in ChangedDisks,
         disk_configs_[d].node \notin missed' \cup {NoNode}
  PROVE  nodes'[disk_configs_[d].node] =
           Wire(AvAmountConfig(disk_configs_[d], current_disk_usage_[d]))
<1> DEFINE x == AvAmountConfig(disk_configs_[d], current_disk_usage_[d])
<1>1. x.node_id = disk_configs_[d].node
  BY DEF AvAmountConfig, WriteConfig
<1>2. x \in AvDiskConfigs
  BY <1>1 DEF AvDiskConfigs, AvConfigsOf
<1> HIDE DEF x
<1>3. Write(AvDiskConfigs) /\ DOMAIN nodes = NodeIds
  BY <1>2 DEF DisksEnd, AvDisksKept, sendFullDiskMetrics, AvDocumentTypeOK, OpcTypeOK
<1>4. x.node_id \in NodeIds /\ OneConfigPerNode(AvDiskConfigs)
  BY <1>2, DiskConfigs
<1>5. nodes'[x.node_id] = Wire(x)
  BY <1>1, <1>2, <1>3, <1>4, WriteHands
<1> QED
  BY <1>1, <1>5 DEF x

LEMMA DiskSpared ==
  ASSUME AvDocumentTypeOK, AvDisksTypeOK, DisksEnd, NEW d \in AvDiskNames \ ChangedDisks,
         NEW n \in AvAmountNodes[d]
  PROVE  nodes'[n] = nodes[n] /\ (n \in missed' <=> n \in missed)
<1>1. n \notin NodesOf(AvDiskConfigs)
  <2> SUFFICES ASSUME NEW x \in AvDiskConfigs, x.node_id = n
               PROVE  FALSE
    BY DEF NodesOf
  <2>1. PICK e \in ChangedDisks \cap AvDiskNames :
          x.node_id \in AvAmountNodes[e] \cup AvUnitsNodes[e]
    BY DiskConfigOf
  <2> QED
    BY <2>1, AvDisksAssumption
<1>2. n \in NodeIds /\ DOMAIN nodes = NodeIds
  BY AvDisksAssumption DEF AvDocumentTypeOK, OpcTypeOK
<1>3. CASE AvDisksKept
  BY <1>3 DEF AvDisksKept, opcVars
<1>4. CASE sendFullDiskMetrics
  BY <1>1, <1>2, <1>4, WriteKeeps DEF sendFullDiskMetrics
<1> QED
  BY <1>3, <1>4 DEF DisksEnd

LEMMA UnitsStayUnwritten ==
  ASSUME AvDocumentTypeOK, AvDisksTypeOK, DisksEnd, UnitsUnwritten
  PROVE  UnitsUnwritten'
<1> SUFFICES ASSUME NEW d \in AvDiskNames, NEW n \in AvUnitsNodes[d]
             PROVE  nodes'[n] = nodes[n]
  BY DEF UnitsUnwritten
<1>1. n \in NodeIds /\ DOMAIN nodes = NodeIds
  BY AvDisksAssumption DEF AvDocumentTypeOK, OpcTypeOK
<1>2. ASSUME NEW x \in AvDiskConfigs, x.node_id = n
      PROVE  x.type \notin types_
  <2>1. x.type = ""
    BY <1>2, DiskConfigOf, AvDisksAssumption
  <2> QED
    BY <2>1 DEF types_
<1>3. CASE AvDisksKept
  BY <1>3 DEF AvDisksKept, opcVars
<1>4. CASE sendFullDiskMetrics
  BY <1>1, <1>2, <1>4, UnservedKept DEF sendFullDiskMetrics
<1> QED
  BY <1>3, <1>4 DEF DisksEnd

LEMMA DisksEndType ==
  ASSUME AvDocumentTypeOK, AvDisksTypeOK, DisksEnd
  PROVE  AvDocumentTypeOK' /\ AvDisksTypeOK'
<1> USE DEF findChangedDisks
<1>0. findChangedDisks
  BY DEF DisksEnd, AvDisksKept, sendFullDiskMetrics
<1>1. AvDocumentTypeOK'
  <2>1. OpcTypeOK'
    BY DiskConfigs, WriteType, OpcRests
       DEF DisksEnd, AvDisksKept, sendFullDiskMetrics, AvDocumentTypeOK
  <2> QED
    BY <1>0, <2>1, GoesType DEF AvPlaces, AvDocumentTypeOK
<1>2. On(current_disk_usage_, ChangedDisks)
        \in PartialMaps(DOMAIN current_disk_usage_, AvBytes)
  <2>1. current_disk_usage_ \in PartialMaps(DOMAIN current_disk_usage_, AvBytes)
    <3>1. \A d \in DOMAIN current_disk_usage_ : current_disk_usage_[d] \in AvBytes
      BY PartialMapsElim DEF AvDisksTypeOK
    <3>2. current_disk_usage_ \in [DOMAIN current_disk_usage_ -> AvBytes]
      BY <3>1 DEF AvDisksTypeOK, PartialMaps
    <3> QED
      BY <3>2, PartialMapsIntro
  <2> QED
    BY <2>1, OnType
<1>3. last_sent_disk_usage_' \in PartialMaps(DOMAIN current_disk_usage_, AvBytes)
  BY <1>0, <1>2, MergeType DEF AvDisksTypeOK
<1>4. AvEntriesFit(handed_entries')
  <2>1. AvEntriesFit(On(disk_configs_, ChangedDisks))
    BY AvOnFits DEF AvDisksTypeOK
  <2> QED
    BY <1>0, <2>1, AvMergeFits DEF AvDisksTypeOK
<1>5. DOMAIN handed_entries' = DOMAIN last_sent_disk_usage_'
  <2>1. ChangedDisks \subseteq DOMAIN current_disk_usage_
        /\ ChangedDisks \subseteq DOMAIN disk_configs_
    BY DiskNames DEF ChangedDisks
  <2> QED
    BY <1>0, <2>1 DEF AvDisksTypeOK, Merge, On
<1> QED
  BY <1>0, <1>1, <1>3, <1>4, <1>5 DEF AvDisksTypeOK, AvEntriesFit

LEMMA DisksSend ==
  ASSUME AvDocumentTypeOK, DisksHold, DisksEnd
  PROVE  AvDocumentTypeOK' /\ DisksHold'
<1>0. AvDisksTypeOK /\ UnitsUnwritten /\ findChangedDisks
  BY DEF DisksHold, DisksEnd, AvDisksKept, sendFullDiskMetrics
<1>1. AvDocumentTypeOK' /\ AvDisksTypeOK' /\ UnitsUnwritten'
  BY <1>0, DisksEndType, UnitsStayUnwritten
<1>2. /\ ChangedDisks \subseteq DOMAIN current_disk_usage_
      /\ ChangedDisks \subseteq DOMAIN disk_configs_
      /\ ChangedDisks \subseteq AvDiskNames
  BY <1>0, DiskNames DEF ChangedDisks
<1>3. ASSUME NEW d \in ChangedDisks
      PROVE  /\ d \in DOMAIN last_sent_disk_usage_'
             /\ last_sent_disk_usage_'[d] = current_disk_usage_[d]
             /\ handed_entries'[d] = disk_configs_[d]
  BY <1>0, <1>2 DEF findChangedDisks, Merge, On
<1>4. ASSUME NEW d \in DOMAIN last_sent_disk_usage_ \ ChangedDisks
      PROVE  /\ d \in DOMAIN last_sent_disk_usage_'
             /\ last_sent_disk_usage_'[d] = last_sent_disk_usage_[d]
             /\ handed_entries'[d] = handed_entries[d]
  BY <1>0, <1>2 DEF findChangedDisks, Merge, On, AvDisksTypeOK
<1>5. DOMAIN last_sent_disk_usage_' \subseteq DOMAIN last_sent_disk_usage_ \cup ChangedDisks
  BY <1>0, <1>2 DEF findChangedDisks, Merge, On
<1>6. ASSUME NEW d \in DOMAIN last_sent_disk_usage_'
      PROVE  DiskCached(d)'
  <2>1. CASE d \in ChangedDisks
    BY <1>0, <1>3, <2>1, DiskSent DEF DiskCached
  <2>2. CASE d \notin ChangedDisks
    <3>1. d \in DOMAIN last_sent_disk_usage_ /\ DiskCached(d)
      BY <1>5, <2>2 DEF DisksHold
    <3>2. d \in AvDiskNames /\ handed_entries[d] \in AvDiskEntries(d)
      BY <1>0, <3>1, DiskNames DEF AvDisksTypeOK, AvEntriesFit
    <3>3. handed_entries[d].node \in AvAmountNodes[d] \cup {NoNode}
      BY <3>2 DEF AvDiskEntries
    <3>4. CASE handed_entries[d].node = NoNode
      BY <1>4, <2>2, <3>1, <3>4 DEF DiskCached
    <3>5. CASE handed_entries[d].node \in AvAmountNodes[d]
      BY <1>0, <1>4, <2>2, <3>1, <3>2, <3>5, DiskSpared DEF DiskCached
    <3> QED
      BY <3>3, <3>4, <3>5
  <2> QED
    BY <2>1, <2>2
<1>7. ASSUME NEW d \in DOMAIN current_disk_usage_
      PROVE  DiskCurrent(d)'
  <2>1. current_disk_usage_' = current_disk_usage_
    BY <1>0 DEF findChangedDisks
  <2>2. CASE d \in ChangedDisks
    BY <1>3, <2>1, <2>2 DEF DiskCurrent
  <2>3. CASE d \notin ChangedDisks
    <3>1. d \in DOMAIN last_sent_disk_usage_
          /\ last_sent_disk_usage_[d] = current_disk_usage_[d]
      BY <2>3 DEF ChangedDisks, hasDiskChanged
    <3> QED
      BY <1>4, <2>1, <2>3, <3>1 DEF DiskCurrent
  <2> QED
    BY <2>2, <2>3
<1> QED
  BY <1>0, <1>1, <1>6, <1>7 DEF DisksHold, findChangedDisks

LEMMA DisksStepHold ==
  ASSUME AvDocumentTypeOK, part = "disks", DisksHold, AvDisksStep
  PROVE  AvDocumentTypeOK' /\ DisksHold'
<1>1. CASE collectDiskUsageCrash
  BY <1>1, CrashType
     DEF collectDiskUsageCrash, Crash, avDiskVars, opcVars, DisksHold,
         AvDisksTypeOK, AvEntriesFit, DiskCached, UnitsUnwritten
<1> QED
  BY <1>1, DisksCollect, DisksSend DEF AvDisksStep, DisksEnd

LEMMA DisksAnyHold ==
  ASSUME AvDocumentTypeOK, DisksHold, UNCHANGED avDiskVars,
         loadXml \/ (ServerStep /\ UNCHANGED callVars)
  PROVE  DisksHold'
<1>1. AvDisksTypeOK' /\ av_pc' = av_pc
  BY DEF DisksHold, AvDisksTypeOK, AvEntriesFit, avDiskVars, loadXml, callVars
<1>2. UnitsUnwritten'
  <2> SUFFICES ASSUME NEW d \in AvDiskNames, NEW n \in AvUnitsNodes[d]
               PROVE  nodes'[n] = NoValue
    BY DEF UnitsUnwritten
  <2>1. n \in NodeIds /\ nodes[n] = NoValue
    BY AvDisksAssumption DEF DisksHold, UnitsUnwritten
  <2> QED
    BY <2>1
       DEF loadXml, opcVars, ServerStep, ServerDown, ServerBack, ServerRestarted,
           OthersCall
<1>3. ASSUME NEW d \in DOMAIN last_sent_disk_usage_
      PROVE  DiskCached(d)'
  <2>1. d \in AvDiskNames /\ handed_entries[d] \in AvDiskEntries(d)
    BY DiskNames DEF DisksHold, AvDisksTypeOK, AvEntriesFit
  <2>2. handed_entries[d].node \in NodeIds \cup {NoNode}
    BY <2>1, AvDisksAssumption DEF AvDiskEntries
  <2>3. CASE loadXml
    BY <2>3 DEF DisksHold, DiskCached, loadXml, opcVars, avDiskVars
  <2>4. CASE ServerStep
    BY <2>2, <2>4, ServerStepKeeps DEF DisksHold, DiskCached, avDiskVars
  <2> QED
    BY <2>3, <2>4
<1> QED
  BY <1>1, <1>2, <1>3 DEF DisksHold, DiskCurrent, avDiskVars

-------------------------------------------------------------------------------
(***************************************************************************)
(* The memory: every batch holds all fields that have a node, so that one  *)
(* state stands behind all the nodes of the last one.                      *)
(***************************************************************************)
RamCached(f) ==
  handed_fields[f].node \notin missed =>
    nodes[handed_fields[f].node] =
      Wire(AvRamConfig(handed_fields[f], last_sent_ram_[f]))

RamNear(f) == AvDistance(data[f], last_sent_ram_[f]) <= AvMB

HandedHaveNodes == \A f \in DOMAIN handed_fields : handed_fields[f].node # NoNode

RamHolds ==
  /\ AvRamTypeOK
  /\ HandedHaveNodes
  /\ \A f \in DOMAIN handed_fields : RamCached(f)
  /\ av_pc = "idle" /\ ~blind => \A f \in DOMAIN handed_fields : RamNear(f)

LEMMA RamStartType ==
  ASSUME AvRamInit
  PROVE  AvRamTypeOK
BY DEF AvRamInit, AvRamTypeOK, AvRamEntriesFit, EmptyMap

LEMMA AvRamStarts ==
  ASSUME AvRamInit
  PROVE  RamHolds
<1>1. DOMAIN handed_fields = {}
  BY DEF AvRamInit, EmptyMap
<1> QED
  BY <1>1, RamStartType DEF RamHolds, HandedHaveNodes

LEMMA RamHoldsShows == RamHolds => AvRamShown
<1> SUFFICES ASSUME RamHolds, av_pc = "idle", ~blind, NEW f \in DOMAIN handed_fields,
                    handed_fields[f].node \notin missed
             PROVE  /\ last_sent_ram_ \in AvReadings
                    /\ nodes[handed_fields[f].node] =
                         Wire(AvRamConfig(handed_fields[f], last_sent_ram_[f]))
                    /\ AvDistance(data[f], last_sent_ram_[f]) <= AvMB
  BY DEF AvRamShown
<1> QED
  BY DEF RamHolds, AvRamTypeOK, RamCached, RamNear

(***************************************************************************)
(* The amounts and their distances are numbers, and no amount is far from  *)
(* itself.                                                                 *)
(***************************************************************************)
LEMMA Distances ==
  ASSUME AvRamTypeOK, NEW f \in AvFields
  PROVE  /\ AvDistance(data[f], last_sent_ram_[f]) \in Int
         /\ AvDistance(data[f], data[f]) <= AvMB
<1>1. data[f] \in 0..(AvWord - 1) /\ last_sent_ram_[f] \in 0..(AvWord - 1)
  BY AvRamAssumption DEF AvRamTypeOK
<1>2. AvWord \in Nat /\ AvMB \in Nat
  BY AvRamAssumption
<1> QED
  BY <1>1, <1>2 DEF AvDistance

LEMMA HandedField ==
  ASSUME RamHolds, NEW f \in DOMAIN handed_fields
  PROVE  /\ f \in AvFields
         /\ handed_fields[f].node \in AvRamNodes[f]
         /\ handed_fields[f].node \in NodeIds
<1>1. f \in AvFields /\ handed_fields[f] \in AvRamEntries(f)
  BY DEF RamHolds, AvRamTypeOK, AvRamEntriesFit
<1>2. handed_fields[f].node \in AvRamNodes[f]
  BY <1>1 DEF AvRamEntries, RamHolds, HandedHaveNodes
<1> QED
  BY <1>1, <1>2, AvRamAssumption

LEMMA RamLoads ==
  ASSUME AvDocumentTypeOK, part = "ram", RamHolds, loadRamConfig
  PROVE  AvDocumentTypeOK' /\ RamHolds'
<1>1. AvDocumentTypeOK'
  BY DEF loadRamConfig, AvDocumentTypeOK, OpcTypeOK, opcVars, callVars
<1>2. AvRamEntriesFit(doc_)
  BY DocEdition, AvRamEditions DEF loadRamConfig
<1>3. AvRamEntriesFit(ram_config_')
  BY <1>2 DEF RamHolds, AvRamTypeOK, AvRamEntriesFit, loadRamConfig, Merge
<1>4. AvRamTypeOK'
  BY <1>3 DEF RamHolds, AvRamTypeOK, AvRamEntriesFit, loadRamConfig
<1> QED
  BY <1>1, <1>4
     DEF RamHolds, HandedHaveNodes, RamCached, RamNear, loadRamConfig, opcVars, callVars

LEMMA RamCollects ==
  ASSUME AvDocumentTypeOK, RamHolds, collectRamUsage
  PROVE  AvDocumentTypeOK' /\ RamHolds'
<1>1. AvDocumentTypeOK'
  BY GoesType, OpcRests DEF collectRamUsage, AvPlaces, AvDocumentTypeOK
<1> QED
  BY <1>1
     DEF RamHolds, AvRamTypeOK, AvRamEntriesFit, HandedHaveNodes, RamCached,
         collectRamUsage, Goes, opcVars

LEMMA RamKeeps ==
  ASSUME AvDocumentTypeOK, RamHolds, AvRamKept
  PROVE  AvDocumentTypeOK' /\ RamHolds'
<1>1. AvDocumentTypeOK'
  BY GoesType, OpcRests DEF AvRamKept, AvPlaces, AvDocumentTypeOK
<1>2. ASSUME NEW f \in DOMAIN handed_fields, ~blind'
      PROVE  RamNear(f)
  <2>1. ~isRamChanged
    BY <1>2 DEF AvRamKept
  <2>2. f \in AvFields /\ AvDistance(data[f], last_sent_ram_[f]) \in Int
    BY HandedField, Distances DEF RamHolds
  <2>3. AvMB \in Int
    BY AvRamAssumption
  <2> QED
    BY <2>1, <2>2, <2>3 DEF isRamChanged, RamNear
<1>3. AvRamTypeOK'
  BY DEF RamHolds, AvRamTypeOK, AvRamEntriesFit, AvRamKept
<1> QED
  BY <1>1, <1>2, <1>3
     DEF RamHolds, HandedHaveNodes, RamCached, RamNear, AvRamKept, opcVars

(***************************************************************************)
(* The configs of a batch: one for every field that has a node.            *)
(***************************************************************************)
LEMMA RamConfigsOf ==
  ASSUME AvRamTypeOK
  PROVE  /\ \A f \in FieldsWithNode :
              /\ f \in AvFields
              /\ AvRamConfig(ram_config_[f], data[f]) \in AvRamConfigs
              /\ AvRamConfig(ram_config_[f], data[f]).node_id = ram_config_[f].node
              /\ ram_config_[f].node \in AvRamNodes[f]
              /\ ram_config_[f].node \in NodeIds
         /\ \A x \in AvRamConfigs :
              \E f \in FieldsWithNode : x = AvRamConfig(ram_config_[f], data[f])
<1>1. ASSUME NEW f \in FieldsWithNode
      PROVE  /\ f \in AvFields
             /\ ram_config_[f].node \in AvRamNodes[f]
             /\ ram_config_[f].node \in NodeIds
  <2>1. f \in AvFields /\ ram_config_[f] \in AvRamEntries(f)
    BY DEF FieldsWithNode, AvRamTypeOK, AvRamEntriesFit
  <2>2. ram_config_[f].node \in AvRamNodes[f]
    BY <2>1 DEF FieldsWithNode, AvRamEntries
  <2> QED
    BY <2>1, <2>2, AvRamAssumption
<1>2. \A f : AvRamConfig(ram_config_[f], data[f]).node_id = ram_config_[f].node
  BY DEF AvRamConfig, WriteConfig
<1> QED
  BY <1>1, <1>2 DEF AvRamConfigs

LEMMA RamSends ==
  ASSUME AvDocumentTypeOK, RamHolds, sendRamMetrics
  PROVE  AvDocumentTypeOK' /\ RamHolds'
<1>1. /\ Write(AvRamConfigs) /\ DOMAIN nodes = NodeIds /\ AvRamTypeOK
      /\ UNCHANGED <<ram_config_, data>> /\ last_sent_ram_' = data
      /\ handed_fields' = On(ram_config_, FieldsWithNode)
  BY DEF sendRamMetrics, AvDocumentTypeOK, OpcTypeOK, RamHolds
<1>2. \A x \in AvRamConfigs : x.node_id \in NodeIds
  BY <1>1, RamConfigsOf
<1>3. OneConfigPerNode(AvRamConfigs)
  <2> SUFFICES ASSUME NEW x \in AvRamConfigs, NEW y \in AvRamConfigs,
                      x.node_id = y.node_id
               PROVE  x = y
    BY DEF OneConfigPerNode
  <2>1. PICK f \in FieldsWithNode : x = AvRamConfig(ram_config_[f], data[f])
    BY <1>1, RamConfigsOf
  <2>2. PICK g \in FieldsWithNode : y = AvRamConfig(ram_config_[g], data[g])
    BY <1>1, RamConfigsOf
  <2>3. f \in AvFields /\ g \in AvFields
        /\ x.node_id \in AvRamNodes[f] /\ y.node_id \in AvRamNodes[g]
    BY <1>1, <2>1, <2>2, RamConfigsOf
  <2>4. f = g
    BY <2>3, AvRamAssumption
  <2> QED
    BY <2>1, <2>2, <2>4
<1>4. AvDocumentTypeOK'
  <2>1. OpcTypeOK'
    BY <1>1, <1>2, WriteType DEF AvDocumentTypeOK
  <2> QED
    BY <2>1, GoesType DEF sendRamMetrics, AvPlaces, AvDocumentTypeOK
<1>5. DOMAIN handed_fields' = FieldsWithNode
      /\ \A f \in FieldsWithNode : handed_fields'[f] = ram_config_[f]
  BY <1>1 DEF On, FieldsWithNode
<1>6. ASSUME NEW f \in FieldsWithNode
      PROVE  RamCached(f)'
  <2> DEFINE x == AvRamConfig(ram_config_[f], data[f])
  <2>1. /\ x \in AvRamConfigs /\ x.node_id = ram_config_[f].node
        /\ ram_config_[f].node \in NodeIds
    BY <1>1, RamConfigsOf
  <2> HIDE DEF x
  <2>2. x.node_id \notin missed' => nodes'[x.node_id] = Wire(x)
    BY <1>1, <1>2, <1>3, <2>1, WriteHands
  <2> QED
    BY <1>1, <1>5, <2>1, <2>2 DEF RamCached, x
<1>7. AvRamTypeOK'
  BY <1>1, <1>5 DEF AvRamTypeOK, AvRamEntriesFit, sendRamMetrics, FieldsWithNode
<1>8. HandedHaveNodes'
  BY <1>5 DEF HandedHaveNodes, FieldsWithNode
<1>9. ASSUME NEW f \in FieldsWithNode
      PROVE  RamNear(f)'
  <2>1. f \in AvFields
    BY <1>1, RamConfigsOf
  <2> QED
    BY <1>1, <2>1, Distances DEF RamNear
<1> QED
  BY <1>4, <1>5, <1>6, <1>7, <1>8, <1>9 DEF RamHolds

LEMMA RamStepHolds ==
  ASSUME AvDocumentTypeOK, part = "ram", RamHolds, AvRamStep
  PROVE  AvDocumentTypeOK' /\ RamHolds'
<1>1. CASE loadRamConfigCrash
  BY <1>1, CrashType
     DEF loadRamConfigCrash, Crash, avRamVars, opcVars, RamHolds, AvRamTypeOK,
         AvRamEntriesFit, HandedHaveNodes, RamCached
<1> QED
  BY <1>1, RamLoads, RamCollects, RamKeeps, RamSends DEF AvRamStep

LEMMA RamAnyHolds ==
  ASSUME AvDocumentTypeOK, RamHolds, UNCHANGED avRamVars,
         loadXml \/ (ServerStep /\ UNCHANGED callVars)
  PROVE  RamHolds'
<1>1. AvRamTypeOK' /\ HandedHaveNodes' /\ av_pc' = av_pc
  BY DEF RamHolds, AvRamTypeOK, AvRamEntriesFit, HandedHaveNodes, avRamVars, loadXml,
         callVars
<1>2. ASSUME NEW f \in DOMAIN handed_fields
      PROVE  RamCached(f)'
  <2>1. handed_fields[f].node \in NodeIds
    BY HandedField
  <2>2. CASE loadXml
    BY <2>2 DEF RamHolds, RamCached, loadXml, opcVars, avRamVars
  <2>3. CASE ServerStep
    BY <2>1, <2>3, ServerStepKeeps DEF RamHolds, RamCached, avRamVars
  <2> QED
    BY <2>2, <2>3
<1> QED
  BY <1>1, <1>2 DEF RamHolds, RamNear, avRamVars

-------------------------------------------------------------------------------
(***************************************************************************)
(* The end of a cycle of the groups, of processes and of addresses: a node *)
(* that shows v, or is to be told v by the batch, does so afterwards.      *)
(***************************************************************************)
Pends(n) == n \in NodesOf(batch)

LEMMA AvSendShows ==
  ASSUME AvDocumentTypeOK, OneConfigPerNode(batch), AvSend, NEW n \in NodeIds, NEW v,
         n \notin missed => Pends(n) \/ nodes[n] = v,
         \A c \in batch : c.node_id = n => Wire(c) = v
  PROVE  n \notin missed' => Pends(n)' \/ nodes'[n] = v
<1>1. CASE AvConnected
  BY <1>1 DEF AvConnected, Pends, NodesOf
<1>2. CASE AvNotConnected
  BY <1>2 DEF AvNotConnected, Pends
<1>3. CASE AvWrite
  <2>1. Write(batch) /\ DOMAIN nodes = NodeIds
    BY <1>3 DEF AvWrite, AvDocumentTypeOK, OpcTypeOK
  <2>2. CASE Pends(n)
    <3>1. PICK c \in batch : c.node_id = n
      BY <2>2 DEF Pends, NodesOf
    <3> QED
      BY <2>1, <3>1, WriteHands
  <2>3. CASE ~Pends(n)
    BY <2>1, <2>3, WriteKeeps DEF Pends
  <2> QED
    BY <2>2, <2>3
<1> QED
  BY <1>1, <1>2, <1>3 DEF AvSend

LEMMA AvSendType ==
  ASSUME AvDocumentTypeOK, AvSend
  PROVE  AvDocumentTypeOK'
<1>1. CASE AvConnected
  <2>1. OpcTypeOK'
    BY <1>1 DEF AvConnected, CheckConnection, AvDocumentTypeOK, OpcTypeOK
  <2> QED
    BY <1>1, <2>1, GoesType DEF AvConnected, AvPlaces, AvDocumentTypeOK
<1>2. CASE AvNotConnected
  <2>1. OpcTypeOK'
    BY <1>2 DEF AvNotConnected, CheckConnection, AvDocumentTypeOK, OpcTypeOK, NodesOf
  <2> QED
    BY <1>2, <2>1, GoesType DEF AvNotConnected, AvPlaces
<1>3. CASE AvWrite
  <2>1. OpcTypeOK'
    BY <1>3, WriteType DEF AvWrite, AvDocumentTypeOK
  <2> QED
    BY <1>3, <2>1, GoesType DEF AvWrite, AvPlaces
<1> QED
  BY <1>1, <1>2, <1>3 DEF AvSend

LEMMA AvSendMoves ==
  ASSUME AvSend
  PROVE  /\ batch' \in {batch, {}}
         /\ av_pc \in {"connect", "write"}
         /\ av_pc' \in {"idle", "write"}
         /\ batch' # {} => av_pc' = "write"
BY DEF AvSend, AvConnected, AvNotConnected, AvWrite, Goes

-------------------------------------------------------------------------------
(***************************************************************************)
(* The processes: the cache is filled with the batch, so until the batch   *)
(* is written or dropped its nodes need not show the cache.                *)
(***************************************************************************)
GroupCached(g) ==
  g \notin missed => Pends(g) \/ nodes[g] = AsNumber(last_sent_process_states_[g])

GroupCurrent(g) ==
  /\ g \in DOMAIN last_sent_process_states_
  /\ last_sent_process_states_[g] = current_process_states_[g]

GroupBatch ==
  /\ OneConfigPerNode(batch)
  /\ \A c \in batch :
       /\ c.node_id \in DOMAIN last_sent_process_states_
       /\ Wire(c) = AsNumber(last_sent_process_states_[c.node_id])
  /\ batch # {} => av_pc \in {"connect", "write"}

ProcessesHold ==
  /\ AvProcessesTypeOK
  /\ GroupBatch
  /\ \A g \in DOMAIN last_sent_process_states_ : GroupCached(g)
  /\ av_pc # "collected" => \A g \in DOMAIN current_process_states_ : GroupCurrent(g)
  /\ \A g \in DOMAIN current_process_states_ :
       current_process_states_[g] = (AvMembers[g] \subseteq listed)

LEMMA ProcessesStart ==
  ASSUME AvDocumentInit, AvProcessesInit
  PROVE  ProcessesHold
<1>1. EmptyMap \in PartialMaps(AvGroups, BOOLEAN) /\ DOMAIN EmptyMap = {}
  BY EmptyMapType DEF EmptyMap
<1> QED
  BY <1>1
     DEF AvDocumentInit, AvProcessesInit, ProcessesHold, AvProcessesTypeOK,
         GroupBatch, OneConfigPerNode

LEMMA GroupNodes ==
  ASSUME AvProcessesTypeOK
  PROVE  /\ DOMAIN current_process_states_ \subseteq AvGroups
         /\ \A g \in DOMAIN current_process_states_ :
              current_process_states_[g] \in BOOLEAN
         /\ DOMAIN last_sent_process_states_ \subseteq AvGroups
         /\ AvGroups \subseteq NodeIds
<1>1. DOMAIN last_sent_process_states_ \subseteq AvGroups
  BY PartialMapsElim DEF AvProcessesTypeOK
<1>2. DOMAIN current_process_states_ \subseteq AvGroups
      /\ \A g \in DOMAIN current_process_states_ : current_process_states_[g] \in BOOLEAN
  BY PartialMapsElim DEF AvProcessesTypeOK
<1> QED
  BY <1>1, <1>2, AvProcessesAssumption

LEMMA ProcessesHoldShows == ProcessesHold => AvGroupShown
<1> SUFFICES ASSUME ProcessesHold, av_pc = "idle",
                    NEW g \in DOMAIN current_process_states_, g \notin missed
             PROVE  nodes[g] = AsNumber(AvMembers[g] \subseteq listed)
  BY DEF AvGroupShown
<1>1. GroupCurrent(g)
  BY DEF ProcessesHold
<1>2. GroupCached(g) /\ ~Pends(g)
  BY <1>1 DEF ProcessesHold, GroupBatch, Pends, NodesOf, GroupCurrent
<1> QED
  BY <1>1, <1>2 DEF ProcessesHold, GroupCached, GroupCurrent

LEMMA ProcessesCollect ==
  ASSUME AvDocumentTypeOK, part = "processes", ProcessesHold, collectProcessStates
  PROVE  AvDocumentTypeOK' /\ ProcessesHold'
<1>1. AvDocumentTypeOK'
  BY GoesType, OpcRests DEF collectProcessStates, AvPlaces, AvDocumentTypeOK
<1>2. FollowedGroups \subseteq AvGroups
  BY DocEdition, AvProcessesAssumption DEF collectProcessStates, FollowedGroups
<1>3. current_process_states_' \in [FollowedGroups -> BOOLEAN]
  BY DEF collectProcessStates, AvRunning
<1>4. current_process_states_' \in PartialMaps(AvGroups, BOOLEAN)
  BY <1>2, <1>3, PartialMapsIntro
<1>5. AvProcessesTypeOK'
  BY <1>4 DEF collectProcessStates, ProcessesHold, AvProcessesTypeOK
<1>6. \A g \in DOMAIN current_process_states_' :
        current_process_states_'[g] = (AvMembers[g] \subseteq listed')
  BY DEF collectProcessStates, AvRunning
<1> QED
  BY <1>1, <1>5, <1>6
     DEF ProcessesHold, GroupBatch, GroupCached, Pends, collectProcessStates, Goes,
         opcVars

LEMMA ProcessesKeep ==
  ASSUME AvDocumentTypeOK, ProcessesHold, AvProcessesKept
  PROVE  AvDocumentTypeOK' /\ ProcessesHold'
<1>1. AvDocumentTypeOK'
  BY GoesType, OpcRests DEF AvProcessesKept, AvPlaces, AvDocumentTypeOK
<1>2. \A g \in DOMAIN current_process_states_ : GroupCurrent(g)
  BY DEF AvProcessesKept, ProcessesChanged, GroupCurrent
<1> QED
  BY <1>1, <1>2
     DEF ProcessesHold, AvProcessesTypeOK, GroupBatch, GroupCached, GroupCurrent,
         Pends, AvProcessesKept, Goes, opcVars, avProcVars

LEMMA AvGroupWire ==
  ASSUME NEW g \in AvGroups, NEW status \in BOOLEAN, NEW any
  PROVE  /\ Wire(AvGroupConfig(g, status, any)) = AsNumber(status)
         /\ AvGroupConfig(g, status, any).node_id = g
<1>1. AvGroupType[g] \in {"BOOL", "INT", "REAL", "STRING"}
  BY AvProcessesAssumption
<1> DEFINE c == AvGroupConfig(g, status, any)
<1>2. /\ c.node_id = g /\ c.type = AvGroupType[g]
      /\ c.member = AvMemberFor(AvGroupType[g]) /\ c.val = AsNumber(status)
  BY DEF AvGroupConfig, WriteConfig
<1>3. Int16(AsNumber(status)) = AsNumber(status)
  BY DEF Int16, Low16, AsNumber
<1> HIDE DEF c
<1>4. Wire(c) = AsNumber(status)
  BY <1>1, <1>2, <1>3 DEF Wire, MembersOf, IntegerMembers, AvMemberFor
<1> QED
  BY <1>2, <1>4 DEF c

LEMMA ProcessesSend ==
  ASSUME AvDocumentTypeOK, ProcessesHold, sendProcessMetrics
  PROVE  AvDocumentTypeOK' /\ ProcessesHold'
<1> USE DEF ProcessesHold
<1>1. PICK any \in [DOMAIN current_process_states_ -> Indeterminate] :
        batch' = {AvGroupConfig(g, current_process_states_[g], any[g]) :
                    g \in DOMAIN current_process_states_}
  BY DEF sendProcessMetrics
<1>2. ASSUME NEW c \in batch'
      PROVE  \E g \in DOMAIN current_process_states_ :
               /\ g \in NodeIds
               /\ c = AvGroupConfig(g, current_process_states_[g], any[g])
               /\ c.node_id = g
               /\ Wire(c) = AsNumber(current_process_states_[g])
  <2>1. PICK g \in DOMAIN current_process_states_ :
          c = AvGroupConfig(g, current_process_states_[g], any[g])
    BY <1>1
  <2>2. g \in AvGroups /\ g \in NodeIds /\ current_process_states_[g] \in BOOLEAN
    BY GroupNodes
  <2> QED
    BY <2>1, <2>2, AvGroupWire
<1>3. NodesOf(batch') = DOMAIN current_process_states_
  <2>1. ASSUME NEW g \in DOMAIN current_process_states_
        PROVE  g \in NodesOf(batch')
    <3>1. AvGroupConfig(g, current_process_states_[g], any[g]) \in batch'
      BY <1>1
    <3>2. g = AvGroupConfig(g, current_process_states_[g], any[g]).node_id
      BY DEF AvGroupConfig, WriteConfig
    <3> QED
      BY <3>1, <3>2 DEF NodesOf
  <2> QED
    BY <1>2, <2>1 DEF NodesOf
<1>4. AvDocumentTypeOK'
  <2>1. \A c \in batch' : c.node_id \in NodeIds
    BY <1>2
  <2> QED
    BY <2>1, GoesType, OpcRests DEF sendProcessMetrics, AvPlaces
<1>5. /\ \A g \in DOMAIN current_process_states_ :
           /\ g \in DOMAIN last_sent_process_states_'
           /\ last_sent_process_states_'[g] = current_process_states_[g]
      /\ \A g \in DOMAIN last_sent_process_states_' \ DOMAIN current_process_states_ :
           /\ g \in DOMAIN last_sent_process_states_
           /\ last_sent_process_states_'[g] = last_sent_process_states_[g]
  BY DEF sendProcessMetrics, Merge
<1>6. AvProcessesTypeOK'
  BY MergeType DEF sendProcessMetrics, AvProcessesTypeOK
<1>7. GroupBatch'
  BY <1>2, <1>5 DEF GroupBatch, OneConfigPerNode, sendProcessMetrics, Goes
<1>8. ASSUME NEW g \in DOMAIN last_sent_process_states_'
      PROVE  GroupCached(g)'
  <2>1. CASE g \in DOMAIN current_process_states_
    BY <1>3, <2>1 DEF GroupCached, Pends
  <2>2. CASE g \notin DOMAIN current_process_states_
    <3>1. ~Pends(g) /\ GroupCached(g) /\ nodes' = nodes /\ missed' = missed
      BY <1>5, <2>2 DEF GroupBatch, Pends, NodesOf, sendProcessMetrics, Goes, opcVars
    <3> QED
      BY <1>5, <2>2, <3>1 DEF GroupCached
  <2> QED
    BY <2>1, <2>2
<1>9. \A g \in DOMAIN current_process_states_' : GroupCurrent(g)'
  BY <1>5 DEF GroupCurrent, sendProcessMetrics
<1> QED
  BY <1>4, <1>6, <1>7, <1>8, <1>9 DEF sendProcessMetrics

LEMMA ProcessesWrite ==
  ASSUME AvDocumentTypeOK, ProcessesHold, AvSend, UNCHANGED avProcVars
  PROVE  AvDocumentTypeOK' /\ ProcessesHold'
<1> USE DEF ProcessesHold
<1>1. ASSUME NEW g \in DOMAIN last_sent_process_states_
      PROVE  GroupCached(g)'
  <2>1. g \in NodeIds /\ GroupCached(g)
    BY GroupNodes
  <2>2. g \notin missed' =>
          Pends(g)' \/ nodes'[g] = AsNumber(last_sent_process_states_[g])
    BY <2>1, AvSendShows DEF GroupCached, GroupBatch
  <2> QED
    BY <2>2 DEF GroupCached, avProcVars
<1>2. GroupBatch'
  BY AvSendMoves DEF GroupBatch, OneConfigPerNode, avProcVars
<1> QED
  BY <1>1, <1>2, AvSendType, AvSendMoves
     DEF AvProcessesTypeOK, GroupCurrent, avProcVars

LEMMA ProcessesStepHold ==
  ASSUME AvDocumentTypeOK, part = "processes", ProcessesHold, AvProcessesStep
  PROVE  AvDocumentTypeOK' /\ ProcessesHold'
<1>1. CASE collectProcessStatesCrash
  BY <1>1, CrashType
     DEF collectProcessStatesCrash, Crash, avProcVars, opcVars, ProcessesHold,
         AvProcessesTypeOK, GroupBatch, GroupCached, GroupCurrent, Pends
<1> QED
  BY <1>1, ProcessesCollect, ProcessesKeep, ProcessesSend, ProcessesWrite
     DEF AvProcessesStep

LEMMA ProcessesAnyHold ==
  ASSUME AvDocumentTypeOK, ProcessesHold, UNCHANGED avProcVars,
         loadXml \/ (ServerStep /\ UNCHANGED callVars)
  PROVE  ProcessesHold'
<1>1. av_pc' = av_pc /\ batch' = batch
  BY DEF loadXml, callVars
<1>2. ASSUME NEW g \in DOMAIN last_sent_process_states_
      PROVE  GroupCached(g)'
  <2>1. g \in NodeIds
    BY GroupNodes DEF ProcessesHold
  <2>2. CASE loadXml
    BY <2>2 DEF ProcessesHold, GroupCached, Pends, loadXml, opcVars, avProcVars
  <2>3. CASE ServerStep
    BY <1>1, <2>1, <2>3, ServerStepKeeps
       DEF ProcessesHold, GroupCached, Pends, avProcVars
  <2> QED
    BY <2>2, <2>3
<1> QED
  BY <1>1, <1>2
     DEF ProcessesHold, AvProcessesTypeOK, GroupBatch, GroupCurrent, avProcVars

-------------------------------------------------------------------------------
(***************************************************************************)
(* The addresses: the cache is filled with the changes, so until these are *)
(* in a batch, and that is written or dropped, the nodes of their groups   *)
(* need not show the cache.                                                *)
(***************************************************************************)
IpCached(g) ==
  g \notin missed =>
    Pends(g) \/ g \in DOMAIN changes \/ nodes[g] = AsNumber(last_sent_ips_[g])

IpGroupWasUp(g) ==
  IF g \in AvOrGroups THEN AvIpMembers[g] \cap up # {}
  ELSE AvIpMembers[g] \subseteq up

IpBatch ==
  /\ OneConfigPerNode(batch)
  /\ \A c \in batch :
       /\ c.node_id \in DOMAIN last_sent_ips_ \cap AvIpGroups
       /\ Wire(c) = AsNumber(last_sent_ips_[c.node_id])
  /\ batch # {} => av_pc \in {"connect", "write"}

IpsHold ==
  /\ AvIpsTypeOK
  /\ IpBatch
  /\ \A g \in DOMAIN last_sent_ips_ \cap AvIpGroups : IpCached(g)
  /\ \A n \in DOMAIN changes :
       n \in DOMAIN last_sent_ips_ /\ changes[n] = last_sent_ips_[n]
  /\ av_pc # "detected" => changes = EmptyMap
  /\ av_pc # "collected" => last_sent_ips_ = current_ips_
  /\ \A g \in DOMAIN current_ips_ \cap AvIpGroups : current_ips_[g] = IpGroupWasUp(g)

LEMMA IpsStart ==
  ASSUME AvDocumentInit, AvIpsInit
  PROVE  IpsHold
<1>1. EmptyMap \in PartialMaps(AvAddresses \cup AvIpGroups, BOOLEAN)
      /\ DOMAIN EmptyMap = {}
  BY EmptyMapType DEF EmptyMap
<1> QED
  BY <1>1
     DEF AvDocumentInit, AvIpsInit, IpsHold, AvIpsTypeOK, IpBatch,
         OneConfigPerNode

LEMMA IpsHoldShow == IpsHold => AvIpShown
<1> SUFFICES ASSUME IpsHold, av_pc = "idle",
                    NEW g \in DOMAIN current_ips_ \cap AvIpGroups, g \notin missed
             PROVE  nodes[g] = AsNumber(IpGroupWasUp(g))
  BY DEF AvIpShown, AsNumber, IpGroupWasUp
<1>1. ~Pends(g) /\ DOMAIN changes = {} /\ last_sent_ips_ = current_ips_
  BY DEF IpsHold, IpBatch, Pends, NodesOf, EmptyMap
<1>2. nodes[g] = AsNumber(current_ips_[g])
  BY <1>1 DEF IpsHold, IpCached
<1> QED
  BY <1>2 DEF IpsHold

LEMMA IpsCollect ==
  ASSUME AvDocumentTypeOK, part = "ips", IpsHold, collectIpStates
  PROVE  AvDocumentTypeOK' /\ IpsHold'
<1>1. AvDocumentTypeOK'
  BY GoesType, OpcRests DEF collectIpStates, AvPlaces, AvDocumentTypeOK
<1>2. LoadedGroups \subseteq AvIpGroups
  BY DocEdition, AvIpsAssumption DEF collectIpStates, LoadedGroups
<1>3. LoadedIps \subseteq AvAddresses /\ LoadedIps \cap AvIpGroups = {}
  BY <1>2, AvIpsAssumption DEF LoadedIps
<1>4. up' \subseteq AvAddresses
  BY <1>3 DEF collectIpStates
<1>5. current_ips_' \in [LoadedIps \cup LoadedGroups -> BOOLEAN]
  <2>1. ASSUME NEW n
        PROVE  AvIpGroupUp(n) \in BOOLEAN /\ (n \in up') \in BOOLEAN
    <3>1. CASE n \in AvOrGroups
      <4>1. AvIpGroupUp(n) = (AvIpMembers[n] \cap up' # {})
        BY <3>1 DEF AvIpGroupUp
      <4> QED
        BY <4>1
    <3>2. CASE n \notin AvOrGroups
      <4>1. AvIpGroupUp(n) = (AvIpMembers[n] \subseteq up')
        BY <3>2 DEF AvIpGroupUp
      <4> QED
        BY <4>1
    <3> QED
      BY <3>1, <3>2
  <2>2. \A n \in LoadedIps \cup LoadedGroups :
          (IF n \in LoadedIps THEN n \in up' ELSE AvIpGroupUp(n)) \in BOOLEAN
    BY <2>1, Zenon
  <2> QED
    BY <2>2, Zenon DEF collectIpStates
<1>6. current_ips_' \in PartialMaps(AvAddresses \cup AvIpGroups, BOOLEAN)
  BY <1>2, <1>3, <1>5, PartialMapsIntro
<1>7. AvIpsTypeOK'
  BY <1>4, <1>6 DEF collectIpStates, IpsHold, AvIpsTypeOK
<1>8. \A g \in DOMAIN current_ips_' \cap AvIpGroups : current_ips_'[g] = IpGroupWasUp(g)'
  BY <1>3 DEF collectIpStates, AvIpGroupUp, IpGroupWasUp
<1> QED
  BY <1>1, <1>7, <1>8
     DEF IpsHold, IpBatch, IpCached, Pends, collectIpStates, Goes, opcVars

LEMMA IpsDetect ==
  ASSUME AvDocumentTypeOK, IpsHold, detectIpChanges
  PROVE  AvDocumentTypeOK' /\ IpsHold'
<1>1. AvDocumentTypeOK'
  BY GoesType, OpcRests DEF detectIpChanges, AvPlaces, AvDocumentTypeOK
<1> DEFINE Changed == {n \in DOMAIN current_ips_ :
                         n \in DOMAIN last_sent_ips_ =>
                           last_sent_ips_[n] # current_ips_[n]}
<1>2. /\ DOMAIN changes' = Changed
      /\ \A n \in Changed : changes'[n] = current_ips_[n]
  BY DEF detectIpChanges, On
<1>3. changes' \in PartialMaps(AvAddresses \cup AvIpGroups, BOOLEAN)
  <2>1. /\ DOMAIN current_ips_ \subseteq AvAddresses \cup AvIpGroups
        /\ \A n \in DOMAIN current_ips_ : current_ips_[n] \in BOOLEAN
    BY PartialMapsElim DEF IpsHold, AvIpsTypeOK
  <2>2. On(current_ips_, Changed) \in [Changed -> BOOLEAN]
    BY <2>1 DEF On
  <2>3. Changed \subseteq AvAddresses \cup AvIpGroups
    BY <2>1
  <2> HIDE DEF Changed
  <2>4. On(current_ips_, Changed) \in PartialMaps(AvAddresses \cup AvIpGroups, BOOLEAN)
    BY <2>2, <2>3, PartialMapsIntro
  <2> QED
    BY <2>4 DEF detectIpChanges, Changed
<1>4. AvIpsTypeOK'
  BY <1>3 DEF detectIpChanges, IpsHold, AvIpsTypeOK
<1>5. ASSUME NEW g \in DOMAIN current_ips_ \cap AvIpGroups, g \notin Changed
      PROVE  g \notin missed => nodes[g] = AsNumber(current_ips_[g])
  <2>1. g \in DOMAIN last_sent_ips_ /\ last_sent_ips_[g] = current_ips_[g]
    BY <1>5
  <2>2. ~Pends(g) /\ DOMAIN changes = {}
    BY DEF IpsHold, IpBatch, Pends, NodesOf, EmptyMap, detectIpChanges, Goes
  <2> QED
    BY <2>1, <2>2 DEF IpsHold, IpCached
<1>6. \A g \in DOMAIN last_sent_ips_' \cap AvIpGroups : IpCached(g)'
  BY <1>2, <1>5 DEF IpCached, detectIpChanges, opcVars
<1>7. batch' = {}
  BY DEF IpsHold, IpBatch, detectIpChanges, Goes
<1> QED
  BY <1>1, <1>2, <1>4, <1>6, <1>7
     DEF IpsHold, IpBatch, OneConfigPerNode, IpGroupWasUp, detectIpChanges, Goes

LEMMA IpsKeep ==
  ASSUME AvDocumentTypeOK, IpsHold, AvIpsKept
  PROVE  AvDocumentTypeOK' /\ IpsHold'
<1>1. AvDocumentTypeOK'
  BY GoesType, OpcRests DEF AvIpsKept, AvPlaces, AvDocumentTypeOK
<1>2. EmptyMap \in PartialMaps(AvAddresses \cup AvIpGroups, BOOLEAN)
      /\ DOMAIN EmptyMap = {}
  BY EmptyMapType DEF EmptyMap
<1>3. AvIpsTypeOK'
  BY <1>2 DEF AvIpsKept, IpsHold, AvIpsTypeOK
<1>4. \A g \in DOMAIN last_sent_ips_ \cap AvIpGroups : IpCached(g)'
  BY DEF IpsHold, IpCached, Pends, AvIpsKept, ChangedGroups, opcVars
<1> QED
  BY <1>1, <1>2, <1>3, <1>4
     DEF IpsHold, IpBatch, IpGroupWasUp, AvIpsKept, Goes

LEMMA AvIpWire ==
  ASSUME NEW g \in AvIpGroups, NEW any, changes[g] \in BOOLEAN
  PROVE  /\ Wire(AvIpConfig(g, any)) = AsNumber(changes[g])
         /\ AvIpConfig(g, any).node_id = g
<1> DEFINE c == AvIpConfig(g, any)
<1>1. /\ c.node_id = g /\ c.type = "BOOL" /\ c.member = "b"
      /\ c.val = AsNumber(changes[g])
  BY DEF AvIpConfig, WriteConfig, AsNumber
<1> HIDE DEF c
<1>2. Wire(c) = AsNumber(changes[g])
  BY <1>1 DEF Wire, MembersOf, IntegerMembers, AsNumber
<1> QED
  BY <1>1, <1>2 DEF c

LEMMA IpsSend ==
  ASSUME AvDocumentTypeOK, IpsHold, sendIpMetrics
  PROVE  AvDocumentTypeOK' /\ IpsHold'
<1> USE DEF IpsHold
<1>1. PICK any \in [ChangedGroups -> Indeterminate] :
        batch' = {AvIpConfig(g, any[g]) : g \in ChangedGroups}
  BY DEF sendIpMetrics
<1>2. ASSUME NEW g \in ChangedGroups
      PROVE  /\ g \in NodeIds /\ g \in DOMAIN last_sent_ips_ \cap AvIpGroups
             /\ AvIpConfig(g, any[g]) \in batch'
             /\ AvIpConfig(g, any[g]).node_id = g
             /\ Wire(AvIpConfig(g, any[g])) = AsNumber(last_sent_ips_[g])
  <2>1. g \in NodeIds /\ g \in AvIpGroups /\ g \in DOMAIN changes
    BY AvIpsAssumption DEF ChangedGroups
  <2>2. changes[g] \in BOOLEAN
    BY <2>1, PartialMapsElim DEF AvIpsTypeOK
  <2>3. AvIpConfig(g, any[g]).node_id = g
        /\ Wire(AvIpConfig(g, any[g])) = AsNumber(changes[g])
    BY <2>1, <2>2, AvIpWire
  <2> QED
    BY <1>1, <2>1, <2>3
<1>3. ASSUME NEW c \in batch'
      PROVE  \E g \in ChangedGroups : c = AvIpConfig(g, any[g])
  BY <1>1
<1>4. NodesOf(batch') = ChangedGroups
  BY <1>2, <1>3 DEF NodesOf
<1>5. AvDocumentTypeOK'
  <2>1. \A c \in batch' : c.node_id \in NodeIds
    BY <1>2, <1>3
  <2> QED
    BY <2>1, GoesType, OpcRests DEF sendIpMetrics, AvPlaces
<1>6. AvIpsTypeOK' /\ DOMAIN changes' = {}
  <2>1. EmptyMap \in PartialMaps(AvAddresses \cup AvIpGroups, BOOLEAN)
        /\ DOMAIN EmptyMap = {}
    BY EmptyMapType DEF EmptyMap
  <2> QED
    BY <2>1 DEF sendIpMetrics, AvIpsTypeOK
<1>7. IpBatch'
  <2>1. \A c \in batch' : /\ c.node_id \in DOMAIN last_sent_ips_ \cap AvIpGroups
                           /\ Wire(c) = AsNumber(last_sent_ips_[c.node_id])
                           /\ c = AvIpConfig(c.node_id, any[c.node_id])
    BY <1>2, <1>3
  <2> QED
    BY <2>1 DEF IpBatch, OneConfigPerNode, sendIpMetrics, Goes
<1>8. ASSUME NEW g \in DOMAIN last_sent_ips_ \cap AvIpGroups
      PROVE  IpCached(g)'
  <2>1. CASE g \in DOMAIN changes
    BY <1>4, <2>1 DEF IpCached, Pends, ChangedGroups
  <2>2. CASE g \notin DOMAIN changes
    BY <2>2 DEF IpCached, IpBatch, Pends, NodesOf, sendIpMetrics, Goes, opcVars
  <2> QED
    BY <2>1, <2>2
<1> QED
  BY <1>5, <1>6, <1>7, <1>8 DEF IpGroupWasUp, sendIpMetrics, Goes

LEMMA IpsWrite ==
  ASSUME AvDocumentTypeOK, IpsHold, AvSend, UNCHANGED avIpVars
  PROVE  AvDocumentTypeOK' /\ IpsHold'
<1> USE DEF IpsHold
<1>1. DOMAIN changes = {} /\ av_pc' # "detected" /\ av_pc' # "collected"
      /\ av_pc # "collected"
  BY AvSendMoves DEF EmptyMap
<1>2. ASSUME NEW g \in DOMAIN last_sent_ips_ \cap AvIpGroups
      PROVE  IpCached(g)'
  <2>1. g \in NodeIds /\ IpCached(g)
    BY AvIpsAssumption
  <2>2. g \notin missed => Pends(g) \/ nodes[g] = AsNumber(last_sent_ips_[g])
    BY <1>1, <2>1 DEF IpCached
  <2>3. /\ OneConfigPerNode(batch)
        /\ \A c \in batch : c.node_id = g => Wire(c) = AsNumber(last_sent_ips_[g])
    BY DEF IpBatch
  <2>4. g \notin missed' => Pends(g)' \/ nodes'[g] = AsNumber(last_sent_ips_[g])
    BY <2>1, <2>2, <2>3, AvSendShows
  <2> QED
    BY <2>4 DEF IpCached, avIpVars
<1>3. IpBatch'
  BY AvSendMoves DEF IpBatch, OneConfigPerNode, avIpVars
<1>4. AvIpsTypeOK' /\ changes' = EmptyMap
  BY AvSendMoves DEF AvIpsTypeOK, avIpVars
<1> QED
  BY <1>1, <1>2, <1>3, <1>4, AvSendType DEF IpGroupWasUp, avIpVars

LEMMA IpsStepHold ==
  ASSUME AvDocumentTypeOK, part = "ips", IpsHold, AvIpsStep
  PROVE  AvDocumentTypeOK' /\ IpsHold'
<1>1. CASE collectIpStatesCrash
  BY <1>1, CrashType
     DEF collectIpStatesCrash, Crash, avIpVars, opcVars, IpsHold, AvIpsTypeOK,
         IpBatch, IpCached, IpGroupWasUp, Pends
<1> QED
  BY <1>1, IpsCollect, IpsDetect, IpsKeep, IpsSend, IpsWrite DEF AvIpsStep

LEMMA IpsAnyHold ==
  ASSUME AvDocumentTypeOK, IpsHold, UNCHANGED avIpVars,
         loadXml \/ (ServerStep /\ UNCHANGED callVars)
  PROVE  IpsHold'
<1>1. av_pc' = av_pc /\ batch' = batch
  BY DEF loadXml, callVars
<1>2. ASSUME NEW g \in DOMAIN last_sent_ips_ \cap AvIpGroups
      PROVE  IpCached(g)'
  <2>1. g \in NodeIds
    BY AvIpsAssumption
  <2>2. CASE loadXml
    BY <2>2 DEF IpsHold, IpCached, Pends, loadXml, opcVars, avIpVars
  <2>3. CASE ServerStep
    BY <1>1, <2>1, <2>3, ServerStepKeeps DEF IpsHold, IpCached, Pends, avIpVars
  <2> QED
    BY <2>2, <2>3
<1> QED
  BY <1>1, <1>2 DEF IpsHold, AvIpsTypeOK, IpBatch, IpGroupWasUp, avIpVars

-------------------------------------------------------------------------------
(***************************************************************************)
(* The arrays: the server shows the cache, but for the changes detected    *)
(* and not yet sent; between two cycles the cache is what was collected.   *)
(***************************************************************************)
HealthOf(state) == IF state.is_ok THEN 1 ELSE 0

StatusCached(r) ==
  AvStatusNode[r] \notin missed =>
    r \in DOMAIN changed_ \/ nodes[AvStatusNode[r]] = last_sent_raids_[r].status

HealthCached(r) ==
  AvHealthNode[r] \notin missed =>
    r \in DOMAIN changed_ \/ nodes[AvHealthNode[r]] = HealthOf(last_sent_raids_[r])

RaidCurrent(r) ==
  r \in DOMAIN last_sent_raids_ /\ last_sent_raids_[r] = current_raids_[r]

RaidLooks(r) == current_raids_[r].status = Optimal <=> current_raids_[r].is_ok

RaidsHold ==
  /\ AvRaidsTypeOK
  /\ \A r \in DOMAIN last_sent_raids_ : StatusCached(r) /\ HealthCached(r)
  /\ \A r \in DOMAIN changed_ :
       r \in DOMAIN current_raids_ /\ changed_[r] = current_raids_[r]
  /\ av_pc # "detected" => changed_ = EmptyMap
  /\ av_pc # "collected" =>
       \A r \in DOMAIN current_raids_ : r \in DOMAIN changed_ \/ RaidCurrent(r)
  /\ \A r \in DOMAIN current_raids_ : RaidLooks(r)

LEMMA RaidsStart ==
  ASSUME AvDocumentInit, AvRaidsInit
  PROVE  RaidsHold
<1>1. EmptyMap \in PartialMaps({}, AvRaidStates) /\ DOMAIN EmptyMap = {}
  BY EmptyMapType DEF EmptyMap
<1> QED
  BY <1>1 DEF AvRaidsInit, RaidsHold, AvRaidsTypeOK

LEMMA RaidNames ==
  ASSUME AvRaidsTypeOK
  PROVE  /\ DOMAIN last_sent_raids_ \subseteq AvRaidNames
         /\ DOMAIN current_raids_ \subseteq AvRaidNames
         /\ DOMAIN changed_ \subseteq AvRaidNames
<1>1. DOMAIN last_sent_raids_ \subseteq raid_configs_
  BY PartialMapsElim DEF AvRaidsTypeOK
<1>2. DOMAIN current_raids_ \subseteq raid_configs_
  BY PartialMapsElim DEF AvRaidsTypeOK
<1>3. DOMAIN changed_ \subseteq raid_configs_
  BY PartialMapsElim DEF AvRaidsTypeOK
<1> QED
  BY <1>1, <1>2, <1>3 DEF AvRaidsTypeOK

LEMMA RaidsHoldShow == RaidsHold => AvRaidShown
<1> SUFFICES ASSUME RaidsHold, av_pc = "idle",
                    NEW r \in DOMAIN current_raids_,
                    {AvStatusNode[r], AvHealthNode[r]} \cap missed = {}
             PROVE  /\ nodes[AvStatusNode[r]] = current_raids_[r].status
                    /\ nodes[AvHealthNode[r]] = IF current_raids_[r].is_ok THEN 1 ELSE 0
                    /\ nodes[AvStatusNode[r]] = Optimal <=> nodes[AvHealthNode[r]] = 1
  BY DEF AvRaidShown
<1>1. DOMAIN changed_ = {}
  BY DEF RaidsHold, EmptyMap
<1>2. RaidCurrent(r) /\ RaidLooks(r)
  BY <1>1 DEF RaidsHold
<1>3. nodes[AvStatusNode[r]] = current_raids_[r].status
      /\ nodes[AvHealthNode[r]] = HealthOf(current_raids_[r])
  BY <1>1, <1>2 DEF RaidsHold, StatusCached, HealthCached, RaidCurrent
<1> QED
  BY <1>2, <1>3 DEF RaidLooks, HealthOf

LEMMA RaidsLoad ==
  ASSUME AvDocumentTypeOK, part = "raids", RaidsHold, loadRaidConfig
  PROVE  AvDocumentTypeOK' /\ RaidsHold'
<1>1. AvDocumentTypeOK'
  BY DEF loadRaidConfig, AvDocumentTypeOK, OpcTypeOK, opcVars, callVars
<1>2. doc_ \subseteq AvRaidNames
  BY DocEdition, AvRaidsAssumption DEF loadRaidConfig
<1>3. AvRaidsTypeOK'
  BY <1>2, PartialMapsWiden DEF loadRaidConfig, RaidsHold, AvRaidsTypeOK
<1> QED
  BY <1>1, <1>3
     DEF RaidsHold, StatusCached, HealthCached, RaidCurrent, RaidLooks,
         loadRaidConfig, opcVars, callVars

(***************************************************************************)
(* Whatever the tool of an array says: the status of the state formed is   *)
(* Optimal exactly if the state is called healthy.                         *)
(***************************************************************************)
LEMMA OutcomesAgree ==
  ASSUME NEW r \in AvRaidNames, NEW s \in Outcomes(r)
  PROVE  s.status = Optimal <=> s.is_ok
<1>1. PICK report \in Reports(r) : s \in StatesOf(r, report)
  BY DEF Outcomes
<1>2. AvTool[r] \in {"Adaptec", "LSI", "other"}
      /\ Optimal \notin {Degraded, NoStatus, Unknown} \cup Rebuild
  BY AvRaidsAssumption
<1>3. CASE AvTool[r] = "LSI"
  <2>1. s \in LsiStates(report)
    BY <1>1, <1>3 DEF StatesOf
  <2>2. CASE HasDrive(report, Optimal)
    BY <2>1, <2>2 DEF LsiStates, AvRaidState
  <2>3. CASE ~HasDrive(report, Optimal)
    BY <1>2, <2>1, <2>3 DEF LsiStates, AvRaidState
  <2> QED
    BY <2>2, <2>3
<1>4. CASE AvTool[r] = "Adaptec"
  <2>1. s = AdaptecState(report)
    BY <1>1, <1>4 DEF StatesOf
  <2> QED
    BY <1>2, <2>1 DEF AdaptecState, AvRaidState
<1>5. CASE AvTool[r] = "other"
  BY <1>1, <1>2, <1>5 DEF StatesOf, AvRaidState
<1> QED
  BY <1>2, <1>3, <1>4, <1>5

LEMMA RaidsCollect ==
  ASSUME AvDocumentTypeOK, RaidsHold, collectRaidStates
  PROVE  AvDocumentTypeOK' /\ RaidsHold'
<1>1. AvDocumentTypeOK'
  BY GoesType, OpcRests DEF collectRaidStates, AvPlaces, AvDocumentTypeOK
<1>2. /\ current_raids_' \in [raid_configs_ -> AvRaidStates]
      /\ \A r \in raid_configs_ : current_raids_'[r] \in Outcomes(r)
  BY DEF collectRaidStates
<1>3. AvRaidsTypeOK'
  <2>1. current_raids_' \in PartialMaps(raid_configs_, AvRaidStates)
    BY <1>2, PartialMapsIntro
  <2> QED
    BY <2>1 DEF collectRaidStates, RaidsHold, AvRaidsTypeOK
<1>4. ASSUME NEW r \in DOMAIN current_raids_'
      PROVE  RaidLooks(r)'
  <2>1. r \in raid_configs_ /\ r \in AvRaidNames
    BY <1>2 DEF RaidsHold, AvRaidsTypeOK
  <2> QED
    BY <1>2, <2>1, OutcomesAgree DEF RaidLooks
<1>5. DOMAIN changed_ = {} /\ UNCHANGED changed_
  BY DEF RaidsHold, EmptyMap, collectRaidStates, Goes
<1> QED
  BY <1>1, <1>3, <1>4, <1>5
     DEF RaidsHold, StatusCached, HealthCached, collectRaidStates, Goes, opcVars

LEMMA RaidsDetectFirst ==
  ASSUME AvDocumentTypeOK, RaidsHold, detectRaidsFirst
  PROVE  AvDocumentTypeOK' /\ RaidsHold'
<1>1. AvDocumentTypeOK'
  BY GoesType, OpcRests DEF detectRaidsFirst, AvPlaces, AvDocumentTypeOK
<1> QED
  BY <1>1
     DEF RaidsHold, AvRaidsTypeOK, StatusCached, HealthCached, RaidLooks,
         detectRaidsFirst, Goes

LEMMA RaidsDetect ==
  ASSUME AvDocumentTypeOK, RaidsHold, detectRaidChanges
  PROVE  AvDocumentTypeOK' /\ RaidsHold'
<1>1. AvDocumentTypeOK'
  BY GoesType, OpcRests DEF detectRaidChanges, AvPlaces, AvDocumentTypeOK
<1> DEFINE Moved == {r \in DOMAIN current_raids_ : RaidMoved(r)}
<1>2. /\ DOMAIN changed_' = Moved
      /\ \A r \in Moved : changed_'[r] = current_raids_[r]
  BY DEF detectRaidChanges, On
<1>3. AvRaidsTypeOK'
  <2>1. changed_' \in PartialMaps(raid_configs_, AvRaidStates)
    BY OnType DEF detectRaidChanges, RaidsHold, AvRaidsTypeOK
  <2> QED
    BY <2>1 DEF detectRaidChanges, RaidsHold, AvRaidsTypeOK
<1>4. \A r \in DOMAIN current_raids_ : r \in Moved \/ RaidCurrent(r)
  BY DEF RaidMoved, RaidCurrent
<1>5. \A r \in DOMAIN last_sent_raids_ : StatusCached(r)' /\ HealthCached(r)'
  <2>1. DOMAIN changed_ = {}
    BY DEF RaidsHold, detectRaidChanges, Goes, EmptyMap
  <2> QED
    BY <2>1 DEF RaidsHold, StatusCached, HealthCached, detectRaidChanges, opcVars
<1> QED
  BY <1>1, <1>2, <1>3, <1>4, <1>5
     DEF RaidsHold, RaidCurrent, RaidLooks, detectRaidChanges, Goes

LEMMA RaidsKeep ==
  ASSUME AvDocumentTypeOK, RaidsHold, AvRaidsKept
  PROVE  AvDocumentTypeOK' /\ RaidsHold'
<1>1. AvDocumentTypeOK'
  BY GoesType, OpcRests DEF AvRaidsKept, AvPlaces, AvDocumentTypeOK
<1> QED
  BY <1>1
     DEF RaidsHold, AvRaidsTypeOK, StatusCached, HealthCached, RaidCurrent,
         RaidLooks, AvRaidsKept, Goes, opcVars, avRaidVars

(***************************************************************************)
(* The configs of a batch, one by one: a status or a health.               *)
(***************************************************************************)
AvStatusConfig(r) == WriteConfig(AvStatusNode[r], "STRING", "s", changed_[r].status)

AvHealthConfig(r) ==
  WriteConfig(AvHealthNode[r], AvHealthType, AvHealthMember, HealthOf(changed_[r]))

LEMMA RaidConfigs ==
  ASSUME AvRaidsTypeOK
  PROVE  /\ \A x \in RaidBatch :
              \E r \in DOMAIN changed_ \cap AvRaidNames :
                \/ x = AvStatusConfig(r) /\ x.node_id = AvStatusNode[r]
                \/ x = AvHealthConfig(r) /\ x.node_id = AvHealthNode[r]
         /\ \A r \in DOMAIN changed_ :
              /\ AvStatusConfig(r) \in RaidBatch /\ AvHealthConfig(r) \in RaidBatch
              /\ AvStatusConfig(r).node_id = AvStatusNode[r]
              /\ AvHealthConfig(r).node_id = AvHealthNode[r]
              /\ Wire(AvStatusConfig(r)) = changed_[r].status
              /\ Wire(AvHealthConfig(r)) = HealthOf(changed_[r])
<1>1. DOMAIN changed_ \subseteq AvRaidNames
  BY RaidNames
<1>2. \A r : AvRaidConfigs(r) = {AvStatusConfig(r), AvHealthConfig(r)}
  BY DEF AvRaidConfigs, AvStatusConfig, AvHealthConfig, HealthOf
<1>3. \A r : AvStatusConfig(r).node_id = AvStatusNode[r]
             /\ AvHealthConfig(r).node_id = AvHealthNode[r]
  BY DEF AvStatusConfig, AvHealthConfig, WriteConfig
<1>4. \A r : Wire(AvStatusConfig(r)) = changed_[r].status
  BY DEF AvStatusConfig, WriteConfig, Wire, MembersOf
<1>5. \A r : Wire(AvHealthConfig(r)) = HealthOf(changed_[r])
  BY AvRaidsAssumption
     DEF AvHealthConfig, WriteConfig, Wire, MembersOf, IntegerMembers, AvHealthMember
<1> QED
  BY <1>1, <1>2, <1>3, <1>4, <1>5 DEF RaidBatch

LEMMA RaidsSend ==
  ASSUME AvDocumentTypeOK, RaidsHold, sendRaidMetrics
  PROVE  AvDocumentTypeOK' /\ RaidsHold'
<1> USE DEF RaidsHold
<1>1. Write(RaidBatch) /\ DOMAIN nodes = NodeIds
  BY DEF sendRaidMetrics, AvDocumentTypeOK, OpcTypeOK
<1>2. \A x \in RaidBatch : x.node_id \in NodeIds
  BY RaidConfigs, AvRaidsAssumption
<1>3. OneConfigPerNode(RaidBatch)
  BY RaidConfigs, AvRaidsAssumption DEF OneConfigPerNode
<1>4. AvDocumentTypeOK'
  <2>1. OpcTypeOK'
    BY <1>1, <1>2, WriteType DEF AvDocumentTypeOK
  <2> QED
    BY <2>1, GoesType DEF sendRaidMetrics, AvPlaces, AvDocumentTypeOK
<1>5. /\ DOMAIN last_sent_raids_' = DOMAIN last_sent_raids_ \cup DOMAIN changed_
      /\ \A r \in DOMAIN changed_ : last_sent_raids_'[r] = changed_[r]
      /\ \A r \in DOMAIN last_sent_raids_ \ DOMAIN changed_ :
           last_sent_raids_'[r] = last_sent_raids_[r]
  BY DEF sendRaidMetrics, Merge
<1>6. AvRaidsTypeOK' /\ DOMAIN changed_' = {}
  <2>1. EmptyMap \in PartialMaps(raid_configs_, AvRaidStates) /\ DOMAIN EmptyMap = {}
    BY EmptyMapType DEF EmptyMap
  <2>2. last_sent_raids_' \in PartialMaps(raid_configs_, AvRaidStates)
    BY MergeType DEF sendRaidMetrics, AvRaidsTypeOK
  <2> QED
    BY <2>1, <2>2 DEF sendRaidMetrics, AvRaidsTypeOK
<1>7. ASSUME NEW r \in DOMAIN changed_
      PROVE  StatusCached(r)' /\ HealthCached(r)'
  <2>1. AvStatusNode[r] \notin missed' => nodes'[AvStatusNode[r]] = changed_[r].status
    BY <1>1, <1>2, <1>3, RaidConfigs, WriteHands
  <2>2. AvHealthNode[r] \notin missed' => nodes'[AvHealthNode[r]] = HealthOf(changed_[r])
    BY <1>1, <1>2, <1>3, RaidConfigs, WriteHands
  <2> QED
    BY <1>5, <2>1, <2>2 DEF StatusCached, HealthCached, HealthOf
<1>8. ASSUME NEW r \in DOMAIN last_sent_raids_ \ DOMAIN changed_
      PROVE  StatusCached(r)' /\ HealthCached(r)'
  <2>1. r \in AvRaidNames
    BY RaidNames
  <2>2. AvStatusNode[r] \notin NodesOf(RaidBatch)
        /\ AvHealthNode[r] \notin NodesOf(RaidBatch)
    <3> SUFFICES ASSUME NEW x \in RaidBatch,
                        x.node_id \in {AvStatusNode[r], AvHealthNode[r]}
                 PROVE  FALSE
      BY DEF NodesOf
    <3> QED
      BY <2>1, RaidConfigs, AvRaidsAssumption
  <2>3. /\ nodes'[AvStatusNode[r]] = nodes[AvStatusNode[r]]
        /\ AvStatusNode[r] \in missed' <=> AvStatusNode[r] \in missed
    BY <1>1, <2>1, <2>2, WriteKeeps, AvRaidsAssumption
  <2>4. /\ nodes'[AvHealthNode[r]] = nodes[AvHealthNode[r]]
        /\ AvHealthNode[r] \in missed' <=> AvHealthNode[r] \in missed
    BY <1>1, <2>1, <2>2, WriteKeeps, AvRaidsAssumption
  <2> QED
    BY <1>5, <2>3, <2>4 DEF StatusCached, HealthCached, HealthOf
<1>9. \A r \in DOMAIN current_raids_ : RaidCurrent(r)'
  <2>1. \A r \in DOMAIN current_raids_ : r \in DOMAIN changed_ \/ RaidCurrent(r)
    BY DEF sendRaidMetrics, Goes
  <2> QED
    BY <1>5, <2>1 DEF RaidCurrent, sendRaidMetrics
<1> QED
  BY <1>4, <1>5, <1>6, <1>7, <1>8, <1>9 DEF RaidLooks, sendRaidMetrics, Goes

LEMMA RaidsStepHold ==
  ASSUME AvDocumentTypeOK, part = "raids", RaidsHold, AvRaidsStep
  PROVE  AvDocumentTypeOK' /\ RaidsHold'
<1>1. CASE loadRaidConfigCrash
  BY <1>1, CrashType
     DEF loadRaidConfigCrash, Crash, avRaidVars, opcVars, RaidsHold,
         AvRaidsTypeOK, StatusCached, HealthCached, RaidCurrent, RaidLooks
<1> QED
  BY <1>1, RaidsLoad, RaidsCollect, RaidsDetectFirst, RaidsDetect, RaidsKeep, RaidsSend
     DEF AvRaidsStep

LEMMA RaidsAnyHold ==
  ASSUME AvDocumentTypeOK, RaidsHold, UNCHANGED avRaidVars,
         loadXml \/ (ServerStep /\ UNCHANGED callVars)
  PROVE  RaidsHold'
<1>1. av_pc' = av_pc
  BY DEF loadXml, callVars
<1>2. ASSUME NEW r \in DOMAIN last_sent_raids_
      PROVE  StatusCached(r)' /\ HealthCached(r)'
  <2>1. AvStatusNode[r] \in NodeIds /\ AvHealthNode[r] \in NodeIds
    BY RaidNames, AvRaidsAssumption DEF RaidsHold
  <2>2. CASE loadXml
    BY <2>2 DEF RaidsHold, StatusCached, HealthCached, loadXml, opcVars, avRaidVars
  <2>3. CASE ServerStep
    BY <2>1, <2>3, ServerStepKeeps DEF RaidsHold, StatusCached, HealthCached, avRaidVars
  <2> QED
    BY <2>2, <2>3
<1> QED
  BY <1>1, <1>2
     DEF RaidsHold, AvRaidsTypeOK, RaidCurrent, RaidLooks, avRaidVars

-------------------------------------------------------------------------------
(***************************************************************************)
(* The class: the invariant of the part looked at, and the others as they  *)
(* began.                                                                  *)
(***************************************************************************)
AvInv ==
  /\ AvDocumentTypeOK
  /\ IF part = "cpu" THEN CpuHolds ELSE AvCpuInit
  /\ IF part = "disks" THEN DisksHold ELSE AvDisksInit
  /\ IF part = "ram" THEN RamHolds ELSE AvRamInit
  /\ IF part = "processes" THEN ProcessesHold ELSE AvProcessesInit
  /\ IF part = "raids" THEN RaidsHold ELSE AvRaidsInit
  /\ IF part = "ips" THEN IpsHold ELSE AvIpsInit

LEMMA AvInitInv == AvInit => AvInv
<1> SUFFICES ASSUME AvInit
             PROVE  AvInv
  OBVIOUS
<1>1. AvDocumentTypeOK
  BY DEF AvInit, AvDocumentInit, AvDocumentTypeOK, OpcInit, OpcTypeOK
<1> QED
  BY <1>1, AvCpuStarts, DisksStart, AvRamStarts, ProcessesStart, RaidsStart, IpsStart
     DEF AvInit, AvInv

(***************************************************************************)
(* A part that is not looked at is in shape and has nothing to show.       *)
(***************************************************************************)
LEMMA AtRest ==
  /\ AvCpuInit => AvCpuTypeOK /\ AvCpuShown
  /\ AvDisksInit => AvDisksTypeOK /\ AvAmountShown
  /\ AvRamInit => AvRamTypeOK /\ AvRamShown
  /\ AvProcessesInit => AvProcessesTypeOK /\ AvGroupShown
  /\ AvRaidsInit => AvRaidsTypeOK /\ AvRaidShown
  /\ AvIpsInit => AvIpsTypeOK /\ AvIpShown
<1>1. DOMAIN EmptyMap = {} /\ \A T : EmptyMap \in [{} -> T]
  BY DEF EmptyMap
<1>2. \A S, T : EmptyMap \in PartialMaps(S, T)
  BY EmptyMapType
<1>3. ASSUME AvCpuInit
      PROVE  AvCpuTypeOK /\ AvCpuShown
  BY <1>1, <1>2, <1>3 DEF AvCpuInit, AvCpuTypeOK, AvCpuShown
<1>4. ASSUME AvDisksInit
      PROVE  AvDisksTypeOK /\ AvAmountShown
  BY <1>1, <1>4, DisksStartType DEF AvDisksInit, AvAmountShown
<1>5. ASSUME AvRamInit
      PROVE  AvRamTypeOK /\ AvRamShown
  BY <1>1, <1>5, RamStartType DEF AvRamInit, AvRamShown
<1>6. ASSUME AvProcessesInit
      PROVE  AvProcessesTypeOK /\ AvGroupShown
  BY <1>1, <1>2, <1>6 DEF AvProcessesInit, AvProcessesTypeOK, AvGroupShown
<1>7. ASSUME AvRaidsInit
      PROVE  AvRaidsTypeOK /\ AvRaidShown
  BY <1>1, <1>2, <1>7 DEF AvRaidsInit, AvRaidsTypeOK, AvRaidShown
<1>8. ASSUME AvIpsInit
      PROVE  AvIpsTypeOK /\ AvIpShown
  BY <1>1, <1>2, <1>8 DEF AvIpsInit, AvIpsTypeOK, AvIpShown
<1> QED
  BY <1>3, <1>4, <1>5, <1>6, <1>7, <1>8

LEMMA AvInvType == AvInv => AvTypeOK
<1> SUFFICES ASSUME AvInv
             PROVE  AvTypeOK
  OBVIOUS
<1> USE AtRest DEF AvInv
<1>1. AvCpuTypeOK
  BY DEF CpuHolds
<1>2. AvDisksTypeOK
  BY DEF DisksHold
<1>3. AvRamTypeOK
  BY DEF RamHolds
<1>4. AvProcessesTypeOK
  BY DEF ProcessesHold
<1>5. AvRaidsTypeOK
  BY DEF RaidsHold
<1>6. AvIpsTypeOK
  BY DEF IpsHold
<1> QED
  BY <1>1, <1>2, <1>3, <1>4, <1>5, <1>6 DEF AvTypeOK

LEMMA AvInvShows ==
  AvInv => /\ AvCpuShown /\ AvAmountShown /\ AvRamShown
           /\ AvGroupShown /\ AvRaidShown /\ AvIpShown
BY AtRest, CpuHoldsShows, DisksHoldShows, RamHoldsShows, ProcessesHoldShows,
   RaidsHoldShow, IpsHoldShow
   DEF AvInv

(***************************************************************************)
(* Nobody turns from one part to another.                                  *)
(***************************************************************************)
LEMMA SendStays ==
  ASSUME AvSend
  PROVE  part' = part
BY DEF AvSend, AvConnected, AvNotConnected, AvWrite, Goes

LEMMA PartStays ==
  ASSUME AvNext
  PROVE  part' = part
<1>1. CASE CpuPart
  BY <1>1
     DEF CpuPart, AvCpuStep, loadCpuConfig, loadCpuConfigCrash, collectCpuUsage,
         AvCpuKept, sendCpuUsage, Crash, Goes, callVars
<1>2. CASE DisksPart
  BY <1>2
     DEF DisksPart, AvDisksStep, collectDiskUsage, collectDiskUsageCrash,
         AvDisksKept, sendFullDiskMetrics, findChangedDisks, Crash, Goes, callVars
<1>3. CASE RamPart
  BY <1>3
     DEF RamPart, AvRamStep, loadRamConfig, loadRamConfigCrash, collectRamUsage,
         AvRamKept, sendRamMetrics, Crash, Goes, callVars
<1>4. CASE ProcessesPart
  BY <1>4, SendStays
     DEF ProcessesPart, AvProcessesStep, collectProcessStates,
         collectProcessStatesCrash, AvProcessesKept, sendProcessMetrics, Crash,
         Goes, callVars
<1>5. CASE RaidsPart
  BY <1>5
     DEF RaidsPart, AvRaidsStep, loadRaidConfig, loadRaidConfigCrash,
         collectRaidStates, detectRaidsFirst, detectRaidChanges, AvRaidsKept,
         sendRaidMetrics, Crash, Goes, callVars
<1>6. CASE IpsPart
  BY <1>6, SendStays
     DEF IpsPart, AvIpsStep, collectIpStates, collectIpStatesCrash,
         detectIpChanges, AvIpsKept, sendIpMetrics, Crash, Goes, callVars
<1>7. CASE AnyPart
  BY <1>7 DEF AnyPart, loadXml, callVars
<1> QED
  BY <1>1, <1>2, <1>3, <1>4, <1>5, <1>6, <1>7 DEF AvNext

LEMMA Resting ==
  /\ AvCpuInit /\ UNCHANGED avCpuVars => AvCpuInit'
  /\ AvDisksInit /\ UNCHANGED avDiskVars => AvDisksInit'
  /\ AvRamInit /\ UNCHANGED avRamVars => AvRamInit'
  /\ AvProcessesInit /\ UNCHANGED avProcVars => AvProcessesInit'
  /\ AvRaidsInit /\ UNCHANGED avRaidVars => AvRaidsInit'
  /\ AvIpsInit /\ UNCHANGED avIpVars => AvIpsInit'
BY DEF AvCpuInit, avCpuVars, AvDisksInit, avDiskVars, AvRamInit, avRamVars,
       AvProcessesInit, avProcVars, AvRaidsInit, avRaidVars, AvIpsInit, avIpVars

LEMMA AnyPartInv ==
  ASSUME AvInv, AnyPart
  PROVE  AvInv'
<1> USE DEF AvInv
<1>1. loadXml \/ (ServerStep /\ UNCHANGED callVars)
  BY DEF AnyPart
<1>2. part' = part
  BY <1>1 DEF loadXml, callVars
<1>3. AvDocumentTypeOK'
  BY <1>1, LoadXmlType, ServerDocType
<1>4. IF part = "cpu" THEN CpuHolds' ELSE AvCpuInit'
  BY <1>1, CpuAnyHolds, Resting DEF AnyPart
<1>5. IF part = "disks" THEN DisksHold' ELSE AvDisksInit'
  BY <1>1, DisksAnyHold, Resting DEF AnyPart
<1>6. IF part = "ram" THEN RamHolds' ELSE AvRamInit'
  BY <1>1, RamAnyHolds, Resting DEF AnyPart
<1>7. IF part = "processes" THEN ProcessesHold' ELSE AvProcessesInit'
  BY <1>1, ProcessesAnyHold, Resting DEF AnyPart
<1>8. IF part = "raids" THEN RaidsHold' ELSE AvRaidsInit'
  BY <1>1, RaidsAnyHold, Resting DEF AnyPart
<1>9. IF part = "ips" THEN IpsHold' ELSE AvIpsInit'
  BY <1>1, IpsAnyHold, Resting DEF AnyPart
<1> QED
  BY <1>2, <1>3, <1>4, <1>5, <1>6, <1>7, <1>8, <1>9

LEMMA AvNextInv == AvInv /\ [AvNext]_avVars => AvInv'
<1> SUFFICES ASSUME AvInv, [AvNext]_avVars
             PROVE  AvInv'
  OBVIOUS
<1>0. CASE UNCHANGED avVars
  BY <1>0
     DEF AvInv, avVars, opcVars, callVars, avCpuVars, avDiskVars, avRamVars,
         avProcVars, avRaidVars, avIpVars, AvDocumentTypeOK, OpcTypeOK,
         AvCpuInit, AvDisksInit, AvRamInit, AvProcessesInit, AvRaidsInit,
         AvIpsInit, CpuHolds, AvCpuTypeOK, CpuCached, CpuNear, DisksHold,
         AvDisksTypeOK, AvEntriesFit, DiskCached, DiskCurrent, UnitsUnwritten,
         RamHolds, AvRamTypeOK, AvRamEntriesFit, RamCached, HandedHaveNodes, RamNear, ProcessesHold, AvProcessesTypeOK,
         GroupBatch, GroupCached, GroupCurrent, Pends, RaidsHold,
         AvRaidsTypeOK, StatusCached, HealthCached, RaidCurrent, RaidLooks,
         IpsHold, AvIpsTypeOK, IpBatch, IpCached, IpGroupWasUp
<1>1. CASE CpuPart
  BY <1>1, CpuStepHolds, PartStays, Resting DEF AvInv, CpuPart, AvNext
<1>2. CASE DisksPart
  BY <1>2, DisksStepHold, PartStays, Resting DEF AvInv, DisksPart, AvNext
<1>3. CASE RamPart
  BY <1>3, RamStepHolds, PartStays, Resting DEF AvInv, RamPart, AvNext
<1>4. CASE ProcessesPart
  BY <1>4, ProcessesStepHold, PartStays, Resting DEF AvInv, ProcessesPart, AvNext
<1>5. CASE RaidsPart
  BY <1>5, RaidsStepHold, PartStays, Resting DEF AvInv, RaidsPart, AvNext
<1>6. CASE IpsPart
  BY <1>6, IpsStepHold, PartStays, Resting DEF AvInv, IpsPart, AvNext
<1>7. CASE AnyPart
  BY <1>7, AnyPartInv
<1> QED
  BY <1>0, <1>1, <1>2, <1>3, <1>4, <1>5, <1>6, <1>7 DEF AvNext

LEMMA AvInvAlways == AvSpec => []AvInv
<1> QED
  BY AvInitInv, AvNextInv, PTL DEF AvSpec

(***************************************************************************)
(* Every part keeps its data in shape, whatever documents are loaded:      *)
(* current, cached and changed maps hold what was configured.              *)
(***************************************************************************)
THEOREM AvTypeCorrect == AvSpec => []AvTypeOK
BY AvInvAlways, AvInvType, PTL

(***************************************************************************)
(* Between two cycles the node of a CPU collected last, if not missed,     *)
(* shows a usage within the threshold of the collected one or one whose    *)
(* subtraction overflows.                                                  *)
(***************************************************************************)
THEOREM AvCpuCorrect == AvSpec => []AvCpuShown
BY AvInvAlways, AvInvShows, PTL

(***************************************************************************)
(* Between two cycles the node of every disk that ever answered shows its  *)
(* last amount, if not missed, as the type and the units of the time it    *)
(* changed have it; no node for the name of units is ever written.         *)
(***************************************************************************)
THEOREM AvAmountCorrect == AvSpec => []AvAmountShown
BY AvInvAlways, AvInvShows, PTL

(***************************************************************************)
(* Between two cycles the memory nodes of the last batch, if not missed,   *)
(* show what their types made of amounts within a megabyte of the ones the *)
(* class believes reported.                                                *)
(***************************************************************************)
THEOREM AvRamCorrect == AvSpec => []AvRamShown
BY AvInvAlways, AvInvShows, PTL

(***************************************************************************)
(* Between two cycles the node of a group, if not missed, tells whether    *)
(* all its members were listed last, whatever the unset flag drops.        *)
(***************************************************************************)
THEOREM AvGroupCorrect == AvSpec => []AvGroupShown
BY AvInvAlways, AvInvShows, PTL

(***************************************************************************)
(* Between two cycles status and health of an array, if neither was        *)
(* missed, are those collected last, and fit each other.                   *)
(***************************************************************************)
THEOREM AvRaidCorrect == AvSpec => []AvRaidShown
BY AvInvAlways, AvInvShows, PTL

(***************************************************************************)
(* Between two cycles the node of a group, if not missed, shows what its   *)
(* logic makes of the addresses found connected.                           *)
(***************************************************************************)
THEOREM AvIpCorrect == AvSpec => []AvIpShown
BY AvInvAlways, AvInvShows, PTL

-------------------------------------------------------------------------------
(***************************************************************************)
(* The refinement of Publication.  Besides AvInv it takes that only the    *)
(* parts of the groups ask for the connection with a batch in their hands, *)
(* and what the nodes can hold.                                            *)
(***************************************************************************)
BatchOfGroups == part \notin {"processes", "ips"} => batch = {}

KeysTyped == \A k \in AvKeys : nodes[k] \in AvValues \cup {NoValue}

AvRefInv == AvInv /\ BatchOfGroups /\ KeysTyped

KeyMissed(k) == k \in missed \cup OnItsWay

(***************************************************************************)
(* What a step does to the node of a key: the steps of Publication as they *)
(* look here.                                                              *)
(***************************************************************************)
KeyKept(k) ==
  /\ AvSent(k)' \in {AvSent(k), NoValue}
  /\ nodes'[k] = nodes[k]
  /\ KeyMissed(k)' <=> KeyMissed(k)

KeyLost(k) ==
  /\ nodes'[k] = nodes[k]
  /\ KeyMissed(k)'

KeyDelivered(k) ==
  /\ nodes'[k] \in AvValues
  /\ AvSent(k)' = nodes'[k]
  /\ ~KeyMissed(k)'

KeyForgotten(k) ==
  /\ nodes'[k] = NoValue
  /\ KeyMissed(k)' <=> KeyMissed(k) \/ nodes[k] # NoValue
  /\ AvSent(k)' = AvSent(k)

KeyPublished(k) == KeyKept(k) \/ KeyLost(k) \/ KeyDelivered(k)

(***************************************************************************)
(* What is on its way, part by part, and that nodes have one owner.        *)
(***************************************************************************)
LEMMA NothingChanged ==
  /\ AvRaidsInit => NodesOf(RaidBatch) = {}
  /\ AvIpsInit => ChangedGroups = {}
BY DEF AvRaidsInit, AvIpsInit, EmptyMap, NodesOf, RaidBatch, ChangedGroups

WayOfThePart ==
  IF part = "raids" THEN NodesOf(RaidBatch)
  ELSE IF part = "processes" THEN NodesOf(batch)
  ELSE IF part = "ips" THEN NodesOf(batch) \cup ChangedGroups
  ELSE {}

LEMMA Ways == AvInv /\ BatchOfGroups => OnItsWay = WayOfThePart
<1> SUFFICES ASSUME AvInv, BatchOfGroups
             PROVE  OnItsWay = WayOfThePart
  OBVIOUS
<1>1. part # "raids" => NodesOf(RaidBatch) = {}
  BY NothingChanged DEF AvInv
<1>2. part # "ips" => ChangedGroups = {}
  BY NothingChanged DEF AvInv
<1>3. part \notin {"processes", "ips"} => NodesOf(batch) = {}
  BY DEF BatchOfGroups, NodesOf
<1> QED
  BY <1>1, <1>2, <1>3 DEF OnItsWay, WayOfThePart

LEMMA WaysThen == (AvInv /\ BatchOfGroups)' => (OnItsWay = WayOfThePart)'
BY Ways, PTL

LEMMA KeysAreNodes == AvKeys \subseteq NodeIds
<1>1. \A c \in AvCpus : AvCpuNode[c] \in NodeIds
  BY AvCpuAssumption
<1>2. AvGroups \subseteq NodeIds
  BY AvProcessesAssumption
<1>3. AvIpGroups \subseteq NodeIds
  BY AvIpsAssumption
<1>4. \A r \in AvRaidNames : AvStatusNode[r] \in NodeIds
  BY AvRaidsAssumption
<1> QED
  BY <1>1, <1>2, <1>3, <1>4 DEF AvKeys

LEMMA OthersAreNoKeys ==
  /\ \A d \in AvDiskNames : \A n \in AvAmountNodes[d] \cup AvUnitsNodes[d] : n \notin AvKeys
  /\ \A f \in AvFields : \A n \in AvRamNodes[f] : n \notin AvKeys
  /\ \A r \in AvRaidNames : AvHealthNode[r] \notin AvKeys
<1>1. \A n \in AvOtherNodes : n \notin AvKeys
  BY AvKeysAssumption
<1>2. \A d \in AvDiskNames : AvAmountNodes[d] \cup AvUnitsNodes[d] \subseteq AvOtherNodes
  BY DEF AvOtherNodes
<1>3. ASSUME NEW f \in AvFields, NEW n \in AvRamNodes[f]
      PROVE  n \in AvOtherNodes
  BY <1>3 DEF AvOtherNodes
<1>4. ASSUME NEW r \in AvRaidNames
      PROVE  AvHealthNode[r] \in AvOtherNodes
  BY <1>4 DEF AvOtherNodes
<1> QED
  BY <1>1, <1>2, <1>3, <1>4

(***************************************************************************)
(* What the cache says of a key.                                           *)
(***************************************************************************)
LEMMA SentOfCpu ==
  ASSUME NEW c \in AvCpus
  PROVE  /\ part = "cpu" => AvSent(AvCpuNode[c]) = AvSentCpu(c)
         /\ part' = "cpu" => AvSent(AvCpuNode[c])' = AvSentCpu(c)'
<1> DEFINE d == CHOOSE d \in AvCpus : AvCpuNode[d] = AvCpuNode[c]
<1>1. d \in AvCpus /\ AvCpuNode[d] = AvCpuNode[c]
  OBVIOUS
<1>2. d = c
  BY <1>1, AvCpuAssumption
<1> QED
  BY <1>2 DEF AvSent

LEMMA SentOfRaid ==
  ASSUME NEW r \in AvRaidNames
  PROVE  /\ part = "raids" => AvSent(AvStatusNode[r]) = AvSentRaid(r)
         /\ part' = "raids" => AvSent(AvStatusNode[r])' = AvSentRaid(r)'
<1> DEFINE s == CHOOSE s \in AvRaidNames : AvStatusNode[s] = AvStatusNode[r]
<1>1. s \in AvRaidNames /\ AvStatusNode[s] = AvStatusNode[r]
  OBVIOUS
<1>2. s = r
  BY <1>1, AvRaidsAssumption
<1> QED
  BY <1>2 DEF AvSent

LEMMA SentOfNone ==
  ASSUME NEW k
  PROVE  /\ part \in {"disks", "ram"} => AvSent(k) = NoValue
         /\ part = "cpu" /\ (\A c \in AvCpus : AvCpuNode[c] # k) => AvSent(k) = NoValue
         /\ part = "raids" /\ (\A r \in AvRaidNames : AvStatusNode[r] # k)
              => AvSent(k) = NoValue
         /\ part = "processes" => AvSent(k) = AvSentGroup(k, last_sent_process_states_)
         /\ part = "ips" => AvSent(k) = AvSentGroup(k, last_sent_ips_)
BY DEF AvSent

LEMMA SentRests ==
  ASSUME part' = part, UNCHANGED <<last_sent_cpu_usages_, handed_types,
                                   last_sent_process_states_, last_sent_raids_,
                                   last_sent_ips_>>, NEW k
  PROVE  AvSent(k)' = AvSent(k)
BY DEF AvSent, AvSentCpu, AvSentGroup, AvSentRaid

(***************************************************************************)
(* A step that leaves the server, what it missed and what is on its way as *)
(* they are, and one that writes another node.                             *)
(***************************************************************************)
LEMMA KeyRests ==
  ASSUME UNCHANGED <<nodes, missed>>, OnItsWay' = OnItsWay, NEW k,
         AvSent(k)' \in {AvSent(k), NoValue}
  PROVE  KeyKept(k)
BY DEF KeyKept, KeyMissed

LEMMA KeySpared ==
  ASSUME AvDocumentTypeOK, NEW configs, Write(configs), NEW k \in AvKeys,
         k \notin NodesOf(configs), k \in OnItsWay' <=> k \in OnItsWay,
         AvSent(k)' \in {AvSent(k), NoValue}
  PROVE  KeyKept(k)
<1>1. nodes'[k] = nodes[k] /\ (k \in missed' <=> k \in missed)
  BY WriteKeeps, KeysAreNodes DEF AvDocumentTypeOK, OpcTypeOK
<1> QED
  BY <1>1 DEF KeyKept, KeyMissed

(***************************************************************************)
(* A node of a batch gets its value or misses it.                          *)
(***************************************************************************)
LEMMA KeyWritten ==
  ASSUME AvDocumentTypeOK, NEW configs, Write(configs), OneConfigPerNode(configs),
         NEW c \in configs, c.node_id \in AvKeys, c.node_id \notin OnItsWay',
         Wire(c) \in AvValues, AvSent(c.node_id)' = Wire(c)
  PROVE  KeyLost(c.node_id) \/ KeyDelivered(c.node_id)
<1>1. \/ c.node_id \notin missed' /\ nodes'[c.node_id] = Wire(c)
      \/ c.node_id \in missed' /\ nodes'[c.node_id] = nodes[c.node_id]
  BY WriteOutcome, KeysAreNodes DEF AvDocumentTypeOK, OpcTypeOK
<1> QED
  BY <1>1 DEF KeyLost, KeyDelivered, KeyMissed

-------------------------------------------------------------------------------
(***************************************************************************)
(* The CPUs.  Their batch tells a node the wire form of what is cached, a  *)
(* CPU that is gone from the collected ones is no longer followed.         *)
(***************************************************************************)
LEMMA CpuWireValue ==
  ASSUME NEW c \in AvCpus, NEW type, NEW u \in Usages
  PROVE  /\ Wire(AvCpuConfig(c, type, u)) \in AvValues
         /\ AvCpuConfig(c, type, u).node_id = AvCpuNode[c]
<1> DEFINE x == AvCpuConfig(c, type, u)
<1>1. /\ x.node_id = AvCpuNode[c] /\ x.type = type /\ x.val = u
      /\ x.member = AvCpuMember(type)
  BY DEF AvCpuConfig, WriteConfig
<1> HIDE DEF x
<1>2. Wire(x) \in {u, Int16(u), Garbage}
  BY <1>1 DEF Wire, MembersOf, IntegerMembers, AvCpuMember
<1> QED
  BY <1>1, <1>2 DEF AvValues, x

LEMMA CpuSendPublishes ==
  ASSUME AvInv, AvInv', part = "cpu", part' = "cpu", OnItsWay = {}, OnItsWay' = {},
         sendCpuUsage, NEW k \in AvKeys
  PROVE  KeyPublished(k)
<1>1. /\ DOMAIN cpu_nodes_ \subseteq AvCpus
      /\ DOMAIN current_cpu_usages_ \subseteq DOMAIN cpu_nodes_
      /\ \A c \in DOMAIN current_cpu_usages_ : current_cpu_usages_[c] \in Usages
  <2>1. DOMAIN cpu_nodes_ \subseteq AvCpus
    BY PartialMapsElim DEF AvInv, CpuHolds, AvCpuTypeOK
  <2> QED
    BY <2>1, PartialMapsElim DEF AvInv, CpuHolds, AvCpuTypeOK
<1>2. ASSUME NEW x \in AvCpuConfigs
      PROVE  \E c \in DOMAIN current_cpu_usages_ :
               /\ x = AvCpuConfig(c, cpu_nodes_[c], current_cpu_usages_[c])
               /\ x.node_id = AvCpuNode[c]
  BY DEF AvCpuConfigs, AvCpuConfig, WriteConfig
<1>3. OneConfigPerNode(AvCpuConfigs)
  BY <1>1, <1>2, AvCpuAssumption DEF OneConfigPerNode
<1>4. Write(AvCpuConfigs) /\ AvDocumentTypeOK
  BY DEF sendCpuUsage, AvInv
<1>5. CASE \E c \in DOMAIN current_cpu_usages_ : k = AvCpuNode[c]
  <2>1. PICK c \in DOMAIN current_cpu_usages_ : k = AvCpuNode[c]
    BY <1>5
  <2>2. PICK x \in AvCpuConfigs :
          x = AvCpuConfig(c, cpu_nodes_[c], current_cpu_usages_[c])
    BY <1>1, <2>1 DEF AvCpuConfigs
  <2>3. Wire(x) \in AvValues /\ x.node_id = k
    BY <1>1, <2>1, <2>2, CpuWireValue
  <2>4. AvSent(k)' = AvSentCpu(c)'
    BY <1>1, <2>1, SentOfCpu
  <2>5. AvSentCpu(c)' = Wire(x)
    BY <2>1, <2>2 DEF AvSentCpu, sendCpuUsage, HandedTypes, AvCpuConfig
  <2> QED
    BY <1>3, <1>4, <2>3, <2>4, <2>5, KeyWritten DEF KeyPublished
<1>6. CASE \A c \in DOMAIN current_cpu_usages_ : k # AvCpuNode[c]
  <2>1. k \notin NodesOf(AvCpuConfigs)
    BY <1>2, <1>6 DEF NodesOf
  <2>2. AvSent(k)' = NoValue
    <3>1. CASE \E c \in AvCpus : AvCpuNode[c] = k
      <4>1. PICK c \in AvCpus : AvCpuNode[c] = k
        BY <3>1
      <4>2. c \notin DOMAIN last_sent_cpu_usages_'
        BY <1>6, <4>1 DEF sendCpuUsage
      <4>3. AvSentCpu(c)' = NoValue
        BY <4>2 DEF AvSentCpu
      <4> QED
        BY <4>1, <4>3, SentOfCpu
    <3>2. CASE \A c \in AvCpus : AvCpuNode[c] # k
      BY <3>2 DEF AvSent
    <3> QED
      BY <3>1, <3>2
  <2> QED
    BY <1>4, <2>1, <2>2, KeySpared DEF KeyPublished
<1> QED
  BY <1>5, <1>6

LEMMA CpuPublishes ==
  ASSUME AvRefInv, AvInv', BatchOfGroups', part' = part, CpuPart, NEW k \in AvKeys
  PROVE  KeyPublished(k)
<1>1. part = "cpu" /\ part' = "cpu"
  BY DEF CpuPart
<1>2. OnItsWay = {} /\ OnItsWay' = {}
  BY <1>1, Ways, WaysThen DEF AvRefInv, WayOfThePart
<1>3. CASE sendCpuUsage
  BY <1>1, <1>2, <1>3, CpuSendPublishes DEF AvRefInv
<1>4. CASE loadCpuConfig \/ loadCpuConfigCrash \/ collectCpuUsage \/ AvCpuKept
  <2>1. UNCHANGED <<nodes, missed, last_sent_cpu_usages_, handed_types>>
    BY <1>4 DEF loadCpuConfig, loadCpuConfigCrash, collectCpuUsage, AvCpuKept,
                Crash, opcVars, avCpuVars
  <2>2. AvSent(k)' = AvSent(k)
    BY <2>1, SentRests DEF CpuPart, avProcVars, avRaidVars, avIpVars
  <2> QED
    BY <1>2, <2>1, <2>2, KeyRests DEF KeyPublished
<1> QED
  BY <1>3, <1>4 DEF CpuPart, AvCpuStep

-------------------------------------------------------------------------------
(***************************************************************************)
(* The disks and the memory write none of the keys.                        *)
(***************************************************************************)
LEMMA DisksPublish ==
  ASSUME AvRefInv, AvInv', BatchOfGroups', part' = part, DisksPart, NEW k \in AvKeys
  PROVE  KeyPublished(k)
<1>0. OnItsWay = {} /\ OnItsWay' = {}
  BY Ways, WaysThen DEF AvRefInv, WayOfThePart, DisksPart
<1>1. AvSent(k)' \in {AvSent(k), NoValue}
  BY DEF AvSent, DisksPart
<1>2. CASE sendFullDiskMetrics
  <2>1. k \notin NodesOf(AvDiskConfigs)
    BY DiskConfigOf, OthersAreNoKeys DEF NodesOf, AvRefInv, AvInv, DisksPart, DisksHold
  <2> QED
    BY <1>0, <1>1, <1>2, <2>1, KeySpared DEF KeyPublished, sendFullDiskMetrics, AvRefInv, AvInv
<1>3. CASE UNCHANGED opcVars
  BY <1>0, <1>1, <1>3, KeyRests DEF KeyPublished, opcVars
<1> QED
  BY <1>2, <1>3
     DEF DisksPart, AvDisksStep, collectDiskUsage, collectDiskUsageCrash,
         AvDisksKept, Crash

LEMMA RamPublishes ==
  ASSUME AvRefInv, AvInv', BatchOfGroups', part' = part, RamPart, NEW k \in AvKeys
  PROVE  KeyPublished(k)
<1>0. OnItsWay = {} /\ OnItsWay' = {}
  BY Ways, WaysThen DEF AvRefInv, WayOfThePart, RamPart
<1>1. AvSent(k)' \in {AvSent(k), NoValue}
  BY DEF AvSent, RamPart
<1>2. CASE sendRamMetrics
  <2>1. k \notin NodesOf(AvRamConfigs)
    <3>1. AvRamTypeOK
      BY DEF AvRefInv, AvInv, RamPart, RamHolds
    <3> SUFFICES ASSUME NEW f \in FieldsWithNode,
                        AvRamConfig(ram_config_[f], data[f]).node_id = k
                 PROVE  FALSE
      BY <3>1, RamConfigsOf DEF NodesOf
    <3> QED
      BY <3>1, RamConfigsOf, OthersAreNoKeys
  <2> QED
    BY <1>0, <1>1, <1>2, <2>1, KeySpared DEF KeyPublished, sendRamMetrics, AvRefInv, AvInv
<1>3. CASE UNCHANGED opcVars
  BY <1>0, <1>1, <1>3, KeyRests DEF KeyPublished, opcVars
<1> QED
  BY <1>2, <1>3
     DEF RamPart, AvRamStep, loadRamConfig, loadRamConfigCrash, collectRamUsage,
         AvRamKept, Crash


-------------------------------------------------------------------------------
(***************************************************************************)
(* The end of a cycle of the groups: a node of the batch was counted as    *)
(* missed and stays so, or it is told what the cache has been saying.      *)
(***************************************************************************)
LEMMA SendPublishes ==
  ASSUME AvDocumentTypeOK, AvSend, OneConfigPerNode(batch),
         OnItsWay = NodesOf(batch), OnItsWay' = NodesOf(batch)',
         \A c \in batch : Wire(c) \in AvValues /\ AvSent(c.node_id) = Wire(c),
         NEW k \in AvKeys, AvSent(k)' = AvSent(k)
  PROVE  KeyPublished(k)
<1>1. CASE AvConnected
  <2>1. UNCHANGED <<nodes, missed, batch>>
    BY <1>1 DEF AvConnected
  <2> QED
    BY <2>1, KeyRests DEF KeyPublished
<1>2. CASE AvNotConnected
  <2>1. /\ nodes' = nodes /\ missed' = missed \cup NodesOf(batch)
        /\ NodesOf(batch)' = {}
    BY <1>2 DEF AvNotConnected, NodesOf
  <2> QED
    BY <2>1 DEF KeyPublished, KeyKept, KeyMissed
<1>3. CASE AvWrite
  <2>1. Write(batch) /\ NodesOf(batch)' = {}
    BY <1>3 DEF AvWrite, NodesOf
  <2>2. CASE k \in NodesOf(batch)
    <3>1. PICK c \in batch : c.node_id = k
      BY <2>2 DEF NodesOf
    <3> QED
      BY <2>1, <3>1, KeyWritten DEF KeyPublished
  <2>3. CASE k \notin NodesOf(batch)
    BY <2>1, <2>3, KeySpared DEF KeyPublished
  <2> QED
    BY <2>2, <2>3
<1> QED
  BY <1>1, <1>2, <1>3 DEF AvSend

-------------------------------------------------------------------------------
(***************************************************************************)
(* The processes.                                                          *)
(***************************************************************************)
LEMMA GroupSent ==
  ASSUME NEW k, NEW sent_, k \in DOMAIN sent_
  PROVE  AvSentGroup(k, sent_) = AsNumber(sent_[k]) /\ AsNumber(sent_[k]) \in AvValues
BY DEF AvSentGroup, AsNumber, AvValues

LEMMA ProcessesSendPublishes ==
  ASSUME ProcessesHold, part = "processes", part' = "processes",
         OnItsWay = NodesOf(batch), OnItsWay' = NodesOf(batch)',
         sendProcessMetrics, NEW k \in AvKeys
  PROVE  KeyPublished(k)
<1>1. PICK any \in [DOMAIN current_process_states_ -> Indeterminate] :
        batch' = {AvGroupConfig(g, current_process_states_[g], any[g]) :
                    g \in DOMAIN current_process_states_}
  BY DEF sendProcessMetrics
<1>2. \A g : AvGroupConfig(g, current_process_states_[g], any[g]).node_id = g
  BY DEF AvGroupConfig, WriteConfig
<1>3. NodesOf(batch)' = DOMAIN current_process_states_
  <2>1. \A g \in DOMAIN current_process_states_ : \E c \in batch' : c.node_id = g
    BY <1>1, <1>2
  <2>2. \A c \in batch' : c.node_id \in DOMAIN current_process_states_
    BY <1>1, <1>2
  <2> QED
    BY <2>1, <2>2 DEF NodesOf
<1>4. UNCHANGED <<nodes, missed>>
  BY DEF sendProcessMetrics, opcVars
<1>5. CASE k \in DOMAIN current_process_states_
  BY <1>3, <1>4, <1>5 DEF KeyPublished, KeyLost, KeyMissed
<1>6. CASE k \notin DOMAIN current_process_states_
  <2>1. NodesOf(batch) = {}
    BY DEF sendProcessMetrics, Goes, ProcessesHold, GroupBatch, NodesOf
  <2>2. AvSentGroup(k, last_sent_process_states_') = AvSentGroup(k, last_sent_process_states_)
    BY <1>6 DEF sendProcessMetrics, Merge, AvSentGroup
  <2>3. AvSent(k)' = AvSent(k)
    BY <2>2 DEF AvSent
  <2> QED
    BY <1>3, <1>4, <1>6, <2>1, <2>3 DEF KeyPublished, KeyKept, KeyMissed
<1> QED
  BY <1>5, <1>6

LEMMA ProcessesPublish ==
  ASSUME AvRefInv, AvInv', BatchOfGroups', part' = part, ProcessesPart,
         NEW k \in AvKeys
  PROVE  KeyPublished(k)
<1>1. /\ part = "processes" /\ part' = "processes"
      /\ AvDocumentTypeOK /\ ProcessesHold
  BY DEF ProcessesPart, AvRefInv, AvInv
<1>2. OnItsWay = NodesOf(batch) /\ OnItsWay' = NodesOf(batch)'
  BY <1>1, Ways, WaysThen DEF AvRefInv, WayOfThePart
<1>3. CASE sendProcessMetrics
  BY <1>1, <1>2, <1>3, ProcessesSendPublishes
<1>4. CASE AvSend /\ UNCHANGED avProcVars
  <2>1. \A c \in batch : Wire(c) \in AvValues /\ AvSent(c.node_id) = Wire(c)
    BY <1>1, GroupSent DEF ProcessesHold, GroupBatch, AvSent
  <2>2. AvSent(k)' = AvSent(k)
    BY <1>1, <1>4 DEF AvSent, avProcVars
  <2> QED
    BY <1>1, <1>2, <1>4, <2>1, <2>2, SendPublishes DEF ProcessesHold, GroupBatch
<1>5. CASE collectProcessStates \/ collectProcessStatesCrash \/ AvProcessesKept
  <2>1. UNCHANGED <<nodes, missed, batch, last_sent_process_states_>>
    BY <1>5 DEF collectProcessStates, collectProcessStatesCrash, AvProcessesKept,
                Crash, opcVars, avProcVars
  <2>2. AvSent(k)' = AvSent(k)
    BY <1>1, <2>1 DEF AvSent
  <2> QED
    BY <1>2, <2>1, <2>2, KeyRests DEF KeyPublished
<1> QED
  BY <1>3, <1>4, <1>5 DEF ProcessesPart, AvProcessesStep

-------------------------------------------------------------------------------
(***************************************************************************)
(* The addresses.                                                          *)
(***************************************************************************)
LEMMA IpsDetectPublishes ==
  ASSUME IpsHold, part = "ips", part' = "ips",
         OnItsWay = NodesOf(batch) \cup ChangedGroups,
         OnItsWay' = (NodesOf(batch) \cup ChangedGroups)',
         detectIpChanges, NEW k \in AvKeys
  PROVE  KeyPublished(k)
<1>1. NodesOf(batch) = {} /\ NodesOf(batch)' = {} /\ ChangedGroups = {}
  BY DEF IpsHold, IpBatch, NodesOf, detectIpChanges, Goes, EmptyMap, ChangedGroups
<1>2. UNCHANGED <<nodes, missed>>
  BY DEF detectIpChanges, opcVars
<1>3. CASE k \in ChangedGroups'
  BY <1>2, <1>3 DEF KeyPublished, KeyLost, KeyMissed
<1>4. CASE k \notin ChangedGroups'
  <2>1. AvSentGroup(k, current_ips_) \in {AvSentGroup(k, last_sent_ips_), NoValue}
    <3>1. CASE k \in DOMAIN current_ips_
      <4>1. DOMAIN current_ips_ \subseteq AvAddresses \cup AvIpGroups
        BY PartialMapsElim DEF IpsHold, AvIpsTypeOK
      <4>2. k \in AvIpGroups
        BY <3>1, <4>1, AvKeysAssumption
      <4>3. k \in DOMAIN last_sent_ips_ /\ last_sent_ips_[k] = current_ips_[k]
        BY <1>4, <3>1, <4>2 DEF ChangedGroups, detectIpChanges, On
      <4> QED
        BY <3>1, <4>3 DEF AvSentGroup
    <3>2. CASE k \notin DOMAIN current_ips_
      BY <3>2 DEF AvSentGroup
    <3> QED
      BY <3>1, <3>2
  <2>2. AvSent(k)' \in {AvSent(k), NoValue}
    BY <2>1 DEF AvSent, detectIpChanges
  <2> QED
    BY <1>1, <1>2, <1>4, <2>2 DEF KeyPublished, KeyKept, KeyMissed
<1> QED
  BY <1>3, <1>4

LEMMA IpsSendPublishes ==
  ASSUME IpsHold, part = "ips", part' = "ips",
         OnItsWay = NodesOf(batch) \cup ChangedGroups,
         OnItsWay' = (NodesOf(batch) \cup ChangedGroups)',
         sendIpMetrics, NEW k \in AvKeys
  PROVE  KeyPublished(k)
<1>1. PICK any \in [ChangedGroups -> Indeterminate] :
        batch' = {AvIpConfig(g, any[g]) : g \in ChangedGroups}
  BY DEF sendIpMetrics
<1>2. \A g : AvIpConfig(g, any[g]).node_id = g
  BY DEF AvIpConfig, WriteConfig
<1>3. NodesOf(batch)' = ChangedGroups /\ ChangedGroups' = {}
  <2>1. \A g \in ChangedGroups : \E c \in batch' : c.node_id = g
    BY <1>1, <1>2
  <2>2. \A c \in batch' : c.node_id \in ChangedGroups
    BY <1>1, <1>2
  <2>3. ChangedGroups' = {}
    BY DEF ChangedGroups, sendIpMetrics, EmptyMap
  <2> QED
    BY <2>1, <2>2, <2>3 DEF NodesOf
<1>4. NodesOf(batch) = {}
  BY DEF IpsHold, IpBatch, NodesOf, sendIpMetrics, Goes
<1>5. UNCHANGED <<nodes, missed>> /\ AvSent(k)' = AvSent(k)
  BY DEF AvSent, sendIpMetrics, opcVars
<1> QED
  BY <1>3, <1>4, <1>5, KeyRests DEF KeyPublished

LEMMA IpsPublish ==
  ASSUME AvRefInv, AvInv', BatchOfGroups', part' = part, IpsPart, NEW k \in AvKeys
  PROVE  KeyPublished(k)
<1>1. /\ part = "ips" /\ part' = "ips"
      /\ AvDocumentTypeOK /\ IpsHold
  BY DEF IpsPart, AvRefInv, AvInv
<1>2. /\ OnItsWay = NodesOf(batch) \cup ChangedGroups
      /\ OnItsWay' = (NodesOf(batch) \cup ChangedGroups)'
  BY <1>1, Ways, WaysThen DEF AvRefInv, WayOfThePart
<1>3. CASE detectIpChanges
  BY <1>1, <1>2, <1>3, IpsDetectPublishes
<1>4. CASE sendIpMetrics
  BY <1>1, <1>2, <1>4, IpsSendPublishes
<1>5. CASE AvSend /\ UNCHANGED avIpVars
  <2>1. ChangedGroups = {} /\ ChangedGroups' = {}
    BY <1>1, <1>5, AvSendMoves DEF IpsHold, ChangedGroups, EmptyMap, avIpVars
  <2>2. OnItsWay = NodesOf(batch) /\ OnItsWay' = NodesOf(batch)'
    BY <1>2, <2>1
  <2>3. \A c \in batch : Wire(c) \in AvValues /\ AvSent(c.node_id) = Wire(c)
    BY <1>1, GroupSent DEF IpsHold, IpBatch, AvSent
  <2>4. AvSent(k)' = AvSent(k)
    BY <1>1, <1>5 DEF AvSent, avIpVars
  <2> QED
    BY <1>1, <1>5, <2>2, <2>3, <2>4, SendPublishes DEF IpsHold, IpBatch
<1>6. CASE collectIpStates \/ collectIpStatesCrash \/ AvIpsKept
  <2>1. UNCHANGED <<nodes, missed, batch, last_sent_ips_>>
    BY <1>6 DEF collectIpStates, collectIpStatesCrash, AvIpsKept, Crash, opcVars,
                avIpVars
  <2>2. ChangedGroups' = ChangedGroups
    BY <1>6 DEF collectIpStates, collectIpStatesCrash, AvIpsKept, avIpVars,
                ChangedGroups, EmptyMap
  <2>3. AvSent(k)' = AvSent(k)
    BY <1>1, <2>1 DEF AvSent
  <2> QED
    BY <1>2, <2>1, <2>2, <2>3, KeyRests DEF KeyPublished
<1> QED
  BY <1>3, <1>4, <1>5, <1>6 DEF IpsPart, AvIpsStep


-------------------------------------------------------------------------------
(***************************************************************************)
(* The arrays, of which the statuses are keys and the health is not.       *)
(***************************************************************************)
RaidKeys ==
  /\ \A k \in AvKeys : k \in NodesOf(RaidBatch) =>
       \E r \in DOMAIN changed_ \cap AvRaidNames : k = AvStatusNode[r]
  /\ \A r \in DOMAIN changed_ : AvStatusNode[r] \in NodesOf(RaidBatch)

LEMMA KeysOfRaids == AvRaidsTypeOK => RaidKeys /\ OneConfigPerNode(RaidBatch)
<1> SUFFICES ASSUME AvRaidsTypeOK
             PROVE  RaidKeys /\ OneConfigPerNode(RaidBatch)
  OBVIOUS
<1>1. OneConfigPerNode(RaidBatch)
  BY RaidConfigs, AvRaidsAssumption DEF OneConfigPerNode
<1>2. ASSUME NEW k \in AvKeys, k \in NodesOf(RaidBatch)
      PROVE  \E r \in DOMAIN changed_ \cap AvRaidNames : k = AvStatusNode[r]
  <2>1. PICK x \in RaidBatch : x.node_id = k
    BY <1>2 DEF NodesOf
  <2> QED
    BY <2>1, RaidConfigs, OthersAreNoKeys
<1>3. \A r \in DOMAIN changed_ : AvStatusNode[r] \in NodesOf(RaidBatch)
  BY RaidConfigs DEF NodesOf
<1> QED
  BY <1>1, <1>2, <1>3 DEF RaidKeys

LEMMA KeysOfRaidsThen == AvRaidsTypeOK' => RaidKeys'
BY KeysOfRaids, PTL

LEMMA RaidsDetectPublishes ==
  ASSUME RaidsHold, AvRaidsTypeOK', part = "raids", part' = "raids",
         OnItsWay = NodesOf(RaidBatch), OnItsWay' = NodesOf(RaidBatch)',
         detectRaidsFirst \/ detectRaidChanges, NEW k \in AvKeys
  PROVE  KeyPublished(k)
<1>1. UNCHANGED <<nodes, missed>>
  BY DEF detectRaidsFirst, detectRaidChanges, opcVars
<1>2. DOMAIN changed_ = {}
  BY DEF RaidsHold, EmptyMap, detectRaidsFirst, detectRaidChanges, Goes
<1>3. k \notin OnItsWay
  BY <1>2, KeysOfRaids DEF RaidsHold, RaidKeys
<1>4. CASE k \in OnItsWay'
  BY <1>1, <1>4 DEF KeyPublished, KeyLost, KeyMissed
<1>5. CASE k \notin OnItsWay'
  <2>1. \A r \in AvRaidNames : AvStatusNode[r] = k => r \notin DOMAIN changed_'
    BY <1>5, KeysOfRaidsThen DEF RaidKeys
  <2>2. ASSUME NEW r \in AvRaidNames, AvStatusNode[r] = k
        PROVE  AvSentRaid(r)' \in {AvSentRaid(r), NoValue}
    BY <2>1, <2>2 DEF AvSentRaid, detectRaidsFirst, detectRaidChanges
  <2>3. AvSent(k)' \in {AvSent(k), NoValue}
    <3>1. CASE \E r \in AvRaidNames : AvStatusNode[r] = k
      BY <2>2, <3>1, SentOfRaid
    <3>2. CASE \A r \in AvRaidNames : AvStatusNode[r] # k
      BY <3>2 DEF AvSent
    <3> QED
      BY <3>1, <3>2
  <2> QED
    BY <1>1, <1>3, <1>5, <2>3 DEF KeyPublished, KeyKept, KeyMissed
<1> QED
  BY <1>4, <1>5

LEMMA RaidsSendPublishes ==
  ASSUME AvDocumentTypeOK, RaidsHold, AvRaidsTypeOK', part = "raids", part' = "raids",
         OnItsWay = NodesOf(RaidBatch), OnItsWay' = NodesOf(RaidBatch)',
         sendRaidMetrics, NEW k \in AvKeys
  PROVE  KeyPublished(k)
<1>1. Write(RaidBatch) /\ AvRaidsTypeOK
  BY DEF sendRaidMetrics, RaidsHold
<1>2. k \notin OnItsWay'
  BY KeysOfRaidsThen DEF RaidKeys, sendRaidMetrics, EmptyMap
<1>3. CASE k \in NodesOf(RaidBatch)
  <2>1. PICK r \in DOMAIN changed_ \cap AvRaidNames : k = AvStatusNode[r]
    BY <1>1, <1>3, KeysOfRaids DEF RaidKeys
  <2>2. AvStatusConfig(r) \in RaidBatch /\ AvStatusConfig(r).node_id = k
        /\ Wire(AvStatusConfig(r)) = changed_[r].status
    BY <1>1, <2>1, RaidConfigs
  <2>3. changed_[r].status \in AvValues
    <3>1. changed_[r] \in AvRaidStates
      BY <1>1, <2>1, PartialMapsElim DEF AvRaidsTypeOK
    <3> QED
      BY <3>1 DEF AvValues
  <2>4. AvSentRaid(r)' = changed_[r].status
    BY <2>1 DEF AvSentRaid, sendRaidMetrics, Merge
  <2>5. AvSent(k)' = changed_[r].status
    BY <2>1, <2>4, SentOfRaid
  <2> QED
    BY <1>1, <1>2, <2>2, <2>3, <2>5, KeysOfRaids, KeyWritten DEF KeyPublished
<1>4. CASE k \notin NodesOf(RaidBatch)
  <2>1. ASSUME NEW r \in AvRaidNames, AvStatusNode[r] = k
        PROVE  AvSentRaid(r)' = AvSentRaid(r)
    <3>1. r \notin DOMAIN changed_
      BY <1>1, <1>4, <2>1, KeysOfRaids DEF RaidKeys
    <3> QED
      BY <3>1 DEF AvSentRaid, sendRaidMetrics, Merge
  <2>2. AvSent(k)' = AvSent(k)
    <3>1. CASE \E r \in AvRaidNames : AvStatusNode[r] = k
      BY <2>1, <3>1, SentOfRaid
    <3>2. CASE \A r \in AvRaidNames : AvStatusNode[r] # k
      BY <3>2 DEF AvSent
    <3> QED
      BY <3>1, <3>2
  <2> QED
    BY <1>1, <1>2, <1>4, <2>2, KeySpared DEF KeyPublished
<1> QED
  BY <1>3, <1>4

LEMMA RaidsPublish ==
  ASSUME AvRefInv, AvInv', BatchOfGroups', part' = part, RaidsPart, NEW k \in AvKeys
  PROVE  KeyPublished(k)
<1>1. /\ part = "raids" /\ part' = "raids"
      /\ AvDocumentTypeOK /\ RaidsHold /\ AvRaidsTypeOK'
  BY DEF RaidsPart, AvRefInv, AvInv, RaidsHold
<1>2. OnItsWay = NodesOf(RaidBatch) /\ OnItsWay' = NodesOf(RaidBatch)'
  BY <1>1, Ways, WaysThen DEF AvRefInv, WayOfThePart
<1>3. CASE detectRaidsFirst \/ detectRaidChanges
  BY <1>1, <1>2, <1>3, RaidsDetectPublishes
<1>4. CASE sendRaidMetrics
  BY <1>1, <1>2, <1>4, RaidsSendPublishes
<1>5. CASE loadRaidConfig \/ loadRaidConfigCrash \/ collectRaidStates \/ AvRaidsKept
  <2>1. UNCHANGED <<nodes, missed, changed_, last_sent_raids_>>
    BY <1>5 DEF loadRaidConfig, loadRaidConfigCrash, collectRaidStates, AvRaidsKept,
                Crash, opcVars, avRaidVars
  <2>2. NodesOf(RaidBatch)' = NodesOf(RaidBatch)
    BY <2>1 DEF NodesOf, RaidBatch, AvRaidConfigs
  <2>3. AvSent(k)' = AvSent(k)
    BY <1>1, <2>1 DEF AvSent, AvSentRaid
  <2> QED
    BY <1>2, <2>1, <2>2, <2>3, KeyRests DEF KeyPublished
<1> QED
  BY <1>3, <1>4, <1>5 DEF RaidsPart, AvRaidsStep


-------------------------------------------------------------------------------
(***************************************************************************)
(* A document that is loaded, and the server on its own: what it forgets   *)
(* is missed from then on, whatever the caches say.                        *)
(***************************************************************************)
LEMMA AnyPublishes ==
  ASSUME AvRefInv, part' = part, AnyPart
  PROVE  (\A k \in AvKeys : KeyPublished(k)) \/ (\A k \in AvKeys : KeyForgotten(k))
<1>1. batch' = batch
  BY DEF AnyPart, loadXml, callVars
<1>2. OnItsWay' = OnItsWay
  BY <1>1 DEF AnyPart, OnItsWay, NodesOf, RaidBatch, AvRaidConfigs, ChangedGroups,
              avRaidVars, avIpVars
<1>3. \A k \in AvKeys : AvSent(k)' = AvSent(k)
  BY SentRests DEF AnyPart, avCpuVars, avProcVars, avRaidVars, avIpVars
<1>4. CASE ServerRestarted
  <2>1. ASSUME NEW k \in AvKeys
        PROVE  /\ nodes'[k] = NoValue
               /\ k \in missed' <=> k \in missed \/ nodes[k] # NoValue
    <3>1. k \in NodeIds
      BY KeysAreNodes
    <3> QED
      BY <1>4, <3>1 DEF ServerRestarted
  <2> QED
    BY <1>2, <1>3, <2>1 DEF KeyForgotten, KeyMissed
<1>5. CASE UNCHANGED <<nodes, missed>>
  BY <1>2, <1>3, <1>5, KeyRests DEF KeyPublished
<1> QED
  BY <1>4, <1>5
     DEF AnyPart, loadXml, opcVars, ServerStep, ServerDown, ServerBack, OthersCall

(***************************************************************************)
(* Every step publishes or forgets, and AvRefInv is an invariant.          *)
(***************************************************************************)
LEMMA BatchStays ==
  ASSUME AvRefInv, [AvNext]_avVars
  PROVE  BatchOfGroups'
<1>1. CASE UNCHANGED avVars
  BY <1>1 DEF AvRefInv, BatchOfGroups, avVars, callVars
<1>2. CASE AvNext
  <2>1. part' = part
    BY <1>2, PartStays
  <2>2. CASE part \in {"processes", "ips"}
    BY <2>1, <2>2 DEF BatchOfGroups
  <2>3. CASE part \notin {"processes", "ips"}
    <3>1. batch' = batch
      BY <1>2, <2>3
         DEF AvNext, CpuPart, AvCpuStep, loadCpuConfig, loadCpuConfigCrash,
             collectCpuUsage, AvCpuKept, sendCpuUsage, DisksPart, AvDisksStep,
             collectDiskUsage, collectDiskUsageCrash, AvDisksKept,
             sendFullDiskMetrics, findChangedDisks, RamPart, AvRamStep,
             loadRamConfig, loadRamConfigCrash, collectRamUsage, AvRamKept,
             sendRamMetrics, RaidsPart, AvRaidsStep, loadRaidConfig, loadRaidConfigCrash,
             collectRaidStates, detectRaidsFirst, detectRaidChanges,
             AvRaidsKept, sendRaidMetrics, ProcessesPart, IpsPart, AnyPart,
             loadXml, Crash, callVars
    <3> QED
      BY <2>1, <3>1 DEF AvRefInv, BatchOfGroups
  <2> QED
    BY <2>2, <2>3
<1> QED
  BY <1>1, <1>2

LEMMA AvStepPublishes ==
  ASSUME AvRefInv, AvInv', BatchOfGroups', AvNext
  PROVE  (\A k \in AvKeys : KeyPublished(k)) \/ (\A k \in AvKeys : KeyForgotten(k))
<1>1. part' = part
  BY PartStays
<1>2. CASE AnyPart
  BY <1>1, <1>2, AnyPublishes
<1>3. CASE \/ CpuPart \/ DisksPart \/ RamPart \/ ProcessesPart \/ RaidsPart
           \/ IpsPart
  BY <1>1, <1>3, CpuPublishes, DisksPublish, RamPublishes, ProcessesPublish,
     RaidsPublish, IpsPublish
<1> QED
  BY <1>2, <1>3 DEF AvNext

LEMMA AvRefInitInv == AvInit => AvRefInv
<1> SUFFICES ASSUME AvInit
             PROVE  BatchOfGroups /\ KeysTyped
  BY AvInitInv DEF AvRefInv
<1> QED
  BY KeysAreNodes DEF AvInit, AvDocumentInit, OpcInit, BatchOfGroups, KeysTyped

LEMMA AvRefNextInv == AvRefInv /\ [AvNext]_avVars => AvRefInv'
<1> SUFFICES ASSUME AvRefInv, [AvNext]_avVars
             PROVE  AvRefInv'
  OBVIOUS
<1>1. AvInv' /\ BatchOfGroups'
  BY AvNextInv, BatchStays DEF AvRefInv
<1>2. KeysTyped'
  <2>1. CASE UNCHANGED avVars
    BY <2>1 DEF AvRefInv, KeysTyped, avVars, opcVars
  <2>2. CASE AvNext
    <3>1. \A k \in AvKeys : KeyPublished(k) \/ KeyForgotten(k)
      BY <1>1, <2>2, AvStepPublishes
    <3>2. \A k \in AvKeys : nodes'[k] \in {nodes[k], NoValue} \cup AvValues
      BY <3>1 DEF KeyPublished, KeyKept, KeyLost, KeyDelivered, KeyForgotten
    <3> QED
      BY <3>2 DEF AvRefInv, KeysTyped
  <2> QED
    BY <2>1, <2>2
<1> QED
  BY <1>1, <1>2 DEF AvRefInv

(***************************************************************************)
(* The refinement mapping of AvPub.                                        *)
(***************************************************************************)
AvSentMap == [n \in AvKeys |-> AvSent(n)]
AvShownMap == [n \in AvKeys |-> nodes[n]]
AvMissedSet == (missed \cup OnItsWay) \cap AvKeys

LEMMA AvSentTyped ==
  ASSUME AvInv, NEW k \in AvKeys
  PROVE  AvSent(k) \in AvValues \cup {NoValue}
<1>1. CASE part = "cpu" /\ \E c \in AvCpus : AvCpuNode[c] = k
  <2>1. PICK c \in AvCpus : AvCpuNode[c] = k
    BY <1>1
  <2>2. c \in DOMAIN last_sent_cpu_usages_ => last_sent_cpu_usages_[c] \in Usages
    BY <1>1, PartialMapsElim DEF AvInv, CpuHolds, AvCpuTypeOK
  <2> QED
    BY <1>1, <2>1, <2>2, SentOfCpu, CpuWireValue DEF AvSentCpu
<1>2. CASE part = "raids" /\ \E r \in AvRaidNames : AvStatusNode[r] = k
  <2>1. PICK r \in AvRaidNames : AvStatusNode[r] = k
    BY <1>2
  <2>2. r \in DOMAIN last_sent_raids_ => last_sent_raids_[r] \in AvRaidStates
    BY <1>2, PartialMapsElim DEF AvInv, RaidsHold, AvRaidsTypeOK
  <2> QED
    BY <1>2, <2>1, <2>2, SentOfRaid DEF AvSentRaid, AvValues
<1>3. CASE part \in {"processes", "ips"}
  BY <1>3 DEF AvSent, AvSentGroup, AsNumber, AvValues
<1> QED
  BY <1>1, <1>2, <1>3 DEF AvSent

LEMMA AvRefType == AvRefInv => AvPub!PubTypeOK
<1> SUFFICES ASSUME AvRefInv
             PROVE  AvPub!PubTypeOK
  OBVIOUS
<1>1. AvSentMap \in [AvKeys -> AvValues \cup {NoValue}]
  BY AvSentTyped DEF AvSentMap, AvRefInv
<1>2. AvShownMap \in [AvKeys -> AvValues \cup {NoValue}]
  BY DEF AvShownMap, AvRefInv, KeysTyped
<1> QED
  BY <1>1, <1>2 DEF AvPub!PubTypeOK, AvSentMap, AvShownMap

LEMMA AvRefInit == AvInit => AvPub!PubInit
<1> SUFFICES ASSUME AvInit
             PROVE  AvPub!PubInit
  OBVIOUS
<1>1. \A k \in AvKeys : AvSent(k) = NoValue
  <2>1. DOMAIN EmptyMap = {}
    BY DEF EmptyMap
  <2>2. \A k : /\ AvSentCpu(k) = NoValue
               /\ AvSentRaid(k) = NoValue
               /\ AvSentGroup(k, EmptyMap) = NoValue
    BY <2>1 DEF AvInit, AvCpuInit, AvRaidsInit, AvSentCpu, AvSentRaid, AvSentGroup
  <2> QED
    BY <2>2 DEF AvSent, AvInit, AvProcessesInit, AvIpsInit
<1>2. \A k \in AvKeys : nodes[k] = NoValue
  BY KeysAreNodes DEF AvInit, AvDocumentInit, OpcInit
<1>3. missed \cup OnItsWay = {}
  BY NothingChanged
     DEF AvInit, AvDocumentInit, OpcInit, OnItsWay, NodesOf
<1> QED
  BY <1>1, <1>2, <1>3 DEF AvPub!PubInit

LEMMA AvRefNext ==
  AvRefInv /\ AvRefInv' /\ [AvNext]_avVars => [AvPub!PubNext]_(AvPub!pubVars)
<1> SUFFICES ASSUME AvRefInv, AvRefInv', [AvNext]_avVars
             PROVE  [AvPub!PubNext]_(AvPub!pubVars)
  OBVIOUS
<1>1. AvPub!PubTypeOK'
  BY AvRefType, PTL
<1>2. CASE UNCHANGED avVars
  BY <1>2
     DEF avVars, opcVars, callVars, avCpuVars, avProcVars, avRaidVars, avIpVars,
         AvPub!pubVars, AvSent, AvSentCpu, AvSentGroup, AvSentRaid, OnItsWay,
         NodesOf, RaidBatch, AvRaidConfigs, ChangedGroups
<1>3. CASE \A k \in AvKeys : KeyPublished(k)
  <2>1. ASSUME NEW k \in AvKeys
        PROVE  AvPub!Kept(k) \/ AvPub!Lost(k) \/ AvPub!Delivered(k)
    <3>1. CASE KeyKept(k)
      BY <3>1 DEF KeyKept, KeyMissed, AvPub!Kept
    <3>2. CASE KeyLost(k)
      BY <3>2 DEF KeyLost, KeyMissed, AvPub!Lost
    <3>3. CASE KeyDelivered(k)
      BY <3>3, AvKeysAssumption DEF KeyDelivered, KeyMissed, AvPub!Delivered
    <3> QED
      BY <1>3, <3>1, <3>2, <3>3 DEF KeyPublished
  <2> QED
    BY <1>1, <2>1 DEF AvPub!PubNext, AvPub!Publish
<1>4. CASE \A k \in AvKeys : KeyForgotten(k)
  <2>1. AvShownMap' = [k \in AvKeys |-> NoValue]
    BY <1>4 DEF AvShownMap, KeyForgotten
  <2>2. AvMissedSet' = AvMissedSet \cup {k \in AvKeys : AvShownMap[k] # NoValue}
    BY <1>4 DEF AvMissedSet, AvShownMap, KeyForgotten, KeyMissed
  <2>3. AvSentMap' = AvSentMap
    BY <1>4 DEF AvSentMap, KeyForgotten
  <2>4. AvPub!Forget
    BY <2>1, <2>2, <2>3 DEF AvPub!Forget, AvSentMap, AvShownMap, AvMissedSet
  <2> QED
    BY <1>1, <2>4 DEF AvPub!PubNext
<1> QED
  BY <1>2, <1>3, <1>4, AvStepPublishes DEF AvRefInv

(***************************************************************************)
(* The parts of class AvDiagnostics for CPUs, processes, arrays and        *)
(* addresses implement Publication, however config.xml is edited between   *)
(* their calls: what their caches hold the server shows, except for what   *)
(* was missed or is still on its way in changed_, changes or a batch.      *)
(***************************************************************************)
THEOREM AvImplementsPublication == AvSpec => AvPublishes
BY AvRefInitInv, AvRefNextInv, AvRefInit, AvRefNext, PTL
   DEF AvSpec, AvPublishes, AvPub!PubSpec

-------------------------------------------------------------------------------
(***************************************************************************)
(* AVLicensing: a login is held from GrdFeatureLogin to the return, and    *)
(* what the checks passed so far found is still so if nothing changed.     *)
(***************************************************************************)
LoggedIn == {"time", "runs", "logout"}

LicInv ==
  /\ AVLicensingTypeOK
  /\ logins = IF lic_pc \in LoggedIn THEN 1 ELSE 0
  /\ buffers = 1 => method = "ShowProducts"
  /\ dongle # NoDongle => carried
  /\ lic_pc \in LoggedIn => carried
  /\ steady /\ carried => dongle # NoDongle
  /\ lic_pc \in {"runs", "logout"} /\ steady => dongle.remaining \in {NotLimited, 0}
  /\ lic_pc = "logout" /\ steady => dongle.runs # 0
  /\ lic_pc # "returned" => answer = 0
  /\ AnswerFits

LEMMA LicStarts ==
  ASSUME AVLicensingInit
  PROVE  LicInv
<1>1. carried \in BOOLEAN /\ (carried <=> dongle # NoDongle)
  BY DEF AVLicensingInit
<1>2. /\ lic_pc = "info" /\ buffers = 0 /\ logins = 0 /\ answer = 0 /\ steady = TRUE
      /\ method \in Methods /\ dongle \in Features \cup {NoDongle}
  BY DEF AVLicensingInit
<1>3. AVLicensingTypeOK
  BY <1>1, <1>2 DEF AVLicensingTypeOK, CheckerSteps
<1> QED
  BY <1>1, <1>2, <1>3 DEF LicInv, LoggedIn, AnswerFits

LEMMA LicStepHolds ==
  ASSUME LicInv, AVLicensingNext
  PROVE  LicInv'
<1> USE DEF LicInv, AVLicensingTypeOK, CheckerSteps, LoggedIn, AnswerFits
<1>1. CASE DongleChanges
  BY <1>1 DEF DongleChanges
<1>2. CASE InfoFails
  BY <1>2 DEF InfoFails, World
<1>3. CASE InfoGood
  BY <1>3 DEF InfoGood, World
<1>4. CASE LoginFails
  BY <1>4 DEF LoginFails, World
<1>5. CASE LoginGood
  BY <1>5 DEF LoginGood, World
<1>6. CASE CheckTime
  <2>1. CASE TimeLimitHit
    BY <1>6, <2>1 DEF CheckTime, ReturnIf, World, TimeLimitHit
  <2>2. CASE ~TimeLimitHit
    <3>1. steady => dongle.remaining \in {NotLimited, 0}
      <4> SUFFICES ASSUME steady, dongle.remaining # NotLimited
                   PROVE  dongle.remaining = 0
        OBVIOUS
      <4>1. dongle # NoDongle /\ dongle \in Features
        BY <1>6 DEF CheckTime
      <4>2. dongle.remaining \in 0..(Now - 1) /\ Now \in Nat
        BY <4>1, AVLicensingAssumption DEF Features
      <4> QED
        BY <2>2, <4>1, <4>2 DEF TimeLimitHit
    <3> QED
      BY <1>6, <2>2, <3>1 DEF CheckTime, ReturnIf, World
  <2> QED
    BY <2>1, <2>2
<1>7. CASE CheckRuns
  <2>1. CASE RunsHit
    BY <1>7, <2>1 DEF CheckRuns, ReturnIf, World, RunsHit
  <2>2. CASE ~RunsHit
    BY <1>7, <2>2 DEF CheckRuns, ReturnIf, World, RunsHit
  <2> QED
    BY <2>1, <2>2
<1>8. CASE Logout
  BY <1>8 DEF Logout, ReturnIf, World
<1> QED
  BY <1>1, <1>2, <1>3, <1>4, <1>5, <1>6, <1>7, <1>8 DEF AVLicensingNext

LEMMA LicLeavesNothing == LicInv => NothingLeft
BY DEF LicInv, AVLicensingTypeOK, NothingLeft, LoggedIn

-------------------------------------------------------------------------------
(***************************************************************************)
(* The client: what a node shows it has held, in the width of its type.    *)
(***************************************************************************)
RwInv ==
  /\ OpcReadWriteTypeOK
  /\ \A n \in NodeIds : nodes[n] # NoValue => nodes[n] \in held[n]
  /\ \A n \in NodeIds : held[n] \subseteq ValuesOf(n)
  /\ ResultsWereHeld

LEMMA RwStarts ==
  ASSUME OpcReadWriteInit
  PROVE  RwInv
<1>1. OpcTypeOK
  BY DEF OpcReadWriteInit, OpcInit, OpcTypeOK
<1>2. DOMAIN EmptyMap = {}
  BY DEF EmptyMap
<1> QED
  BY <1>1, <1>2
     DEF OpcReadWriteInit, OpcInit, RwInv, OpcReadWriteTypeOK, ResultsWereHeld

LEMMA ValuesInWidth == \A n \in NodeIds : ValuesOf(n) \subseteq NodeValues
BY SMT DEF ValuesOf

LEMMA ValuesRest ==
  ASSUME UNCHANGED node_type
  PROVE  \A n \in NodeIds : ValuesOf(n)' = ValuesOf(n)
BY SMT DEF ValuesOf

(***************************************************************************)
(* A result stays good while its node gets more values.                    *)
(***************************************************************************)
LEMMA HeldGrows ==
  ASSUME ResultsWereHeld, DOMAIN results \subseteq NodeIds,
         UNCHANGED <<node_type, results>>,
         \A n \in NodeIds : held[n] \subseteq held'[n]
  PROVE  ResultsWereHeld'
<1>1. ASSUME NEW n \in DOMAIN results
      PROVE  WasHeld(n, results[n])'
  <2>1. WasHeld(n, results[n]) /\ held[n] \subseteq held'[n]
    BY DEF ResultsWereHeld
  <2> QED
    BY <2>1 DEF WasHeld
<1> QED
  BY <1>1 DEF ResultsWereHeld

LEMMA RwRests ==
  ASSUME RwInv, UNCHANGED <<nodes, node_type, results, held>>, OpcReadWriteTypeOK'
  PROVE  RwInv'
<1>1. ResultsWereHeld'
  BY HeldGrows DEF RwInv, OpcReadWriteTypeOK
<1>2. \A n \in NodeIds : ValuesOf(n)' = ValuesOf(n)
  BY ValuesRest
<1> QED
  BY <1>1, <1>2 DEF RwInv

Stores(n, v) ==
  /\ nodes' = [nodes EXCEPT ![n] = v]
  /\ held' = [held EXCEPT ![n] = @ \cup {v}]
  /\ UNCHANGED <<node_type, results>>

LEMMA StoreHolds ==
  ASSUME RwInv, NEW n \in NodeIds, NEW v \in ValuesOf(n), Stores(n, v)
  PROVE  /\ \A m \in NodeIds : nodes'[m] # NoValue => nodes'[m] \in held'[m]
         /\ \A m \in NodeIds : held'[m] \subseteq ValuesOf(m)'
         /\ held' \in [NodeIds -> SUBSET NodeValues]
         /\ ResultsWereHeld'
<1>1. /\ held \in [NodeIds -> SUBSET NodeValues] /\ DOMAIN nodes = NodeIds
      /\ DOMAIN results \subseteq NodeIds
  BY DEF RwInv, OpcReadWriteTypeOK, OpcTypeOK
<1>2. v \in NodeValues
  BY ValuesInWidth
<1>3. UNCHANGED <<node_type, results>>
  BY DEF Stores
<1>4. \A m \in NodeIds :
        /\ held'[m] = IF m = n THEN held[m] \cup {v} ELSE held[m]
        /\ nodes'[m] = IF m = n THEN v ELSE nodes[m]
  BY <1>1 DEF Stores
<1>5. held' \in [NodeIds -> SUBSET NodeValues]
  BY <1>1, <1>2 DEF Stores
<1>6. \A m \in NodeIds : held[m] \subseteq held'[m]
  BY <1>4
<1>7. ResultsWereHeld'
  BY <1>1, <1>3, <1>6, HeldGrows DEF RwInv
<1>8. \A m \in NodeIds : ValuesOf(m)' = ValuesOf(m)
  BY <1>3, ValuesRest
<1>9. \A m \in NodeIds : nodes'[m] # NoValue => nodes'[m] \in held'[m]
  BY <1>4 DEF RwInv
<1>10. ASSUME NEW m \in NodeIds
       PROVE  held'[m] \subseteq ValuesOf(m)'
  <2>1. held[m] \subseteq ValuesOf(m)
    BY DEF RwInv
  <2>2. m = n => v \in ValuesOf(m)
    OBVIOUS
  <2>3. held'[m] \subseteq held[m] \cup (IF m = n THEN {v} ELSE {})
    BY <1>4
  <2> QED
    BY <1>8, <2>1, <2>2, <2>3
<1> QED
  BY <1>5, <1>7, <1>9, <1>10

(***************************************************************************)
(* What Read makes of the 16 bits of a node and of those that follow them. *)
(***************************************************************************)
LEMMA HalfOf ==
  ASSUME NEW low \in Nat, NEW high \in Nat, low < 65536
  PROVE  Low16(low + 65536 * high) = low
BY SMT DEF Low16

LEMMA ReadAsHeld ==
  ASSUME RwInv, NEW n \in NodeIds, nodes[n] # NoValue,
         NEW r \in ReadAs(node_type[n], nodes[n])
  PROVE  WasHeld(n, r)
<1> DEFINE type == node_type[n]
           value == nodes[n]
<1>1. value \in held[n] /\ value \in ValuesOf(n)
  BY DEF RwInv
<1>2. r \in ReadAs(type, value)
  OBVIOUS
<1>3. CASE type \in HalfWidth
  <2>1. r \in {value + 65536 * high : high \in HighHalves}
    BY <1>2, <1>3, SMT DEF ReadAs
  <2>2. PICK high \in HighHalves : r = value + 65536 * high
    BY <2>1, SMT
  <2>3. value \in Nat /\ value < 65536
    BY <1>1, <1>3, OpcReadWriteAssumption, SMT DEF ValuesOf
  <2>4. high \in Nat
    BY OpcReadWriteAssumption, SMT
  <2>5. Low16(r) = value
    BY <2>2, <2>3, <2>4, HalfOf
  <2>6. type \notin {"BOOL", "STRING"}
    BY <1>3 DEF HalfWidth
  <2> HIDE DEF value
  <2> QED
    BY <1>1, <1>3, <2>5, <2>6 DEF WasHeld
<1>4. CASE type \in {"BOOL", "STRING"}
  <2>1. type \notin HalfWidth
    BY <1>4 DEF HalfWidth
  <2> QED
    BY <1>2, <1>4, <2>1 DEF ReadAs, WasHeld
<1>5. CASE type \notin HalfWidth \cup {"BOOL", "STRING"}
  <2>1. r = value
    BY <1>2, <1>5 DEF ReadAs
  <2> HIDE DEF value
  <2> QED
    BY <1>1, <1>5, <2>1 DEF WasHeld
<1> QED
  BY <1>3, <1>4, <1>5

LEMMA ReadHolds ==
  ASSUME RwInv, NEW ns \in SUBSET NodeIds, ReadGood(ns)
  PROVE  RwInv'
<1>1. PICK good \in SUBSET {n \in ns : nodes[n] # NoValue} :
        \E got \in [good -> UNION {ReadAs(node_type[n], nodes[n]) : n \in good}] :
          /\ \A n \in good : got[n] \in ReadAs(node_type[n], nodes[n])
          /\ results' = Merge(results, got)
  BY DEF ReadGood
<1>2. PICK got \in [good -> UNION {ReadAs(node_type[n], nodes[n]) : n \in good}] :
        /\ \A n \in good : got[n] \in ReadAs(node_type[n], nodes[n])
        /\ results' = Merge(results, got)
  BY <1>1
<1>3. /\ DOMAIN results' = DOMAIN results \cup good
      /\ \A n \in good : results'[n] = got[n]
      /\ \A n \in DOMAIN results \ good : results'[n] = results[n]
  BY <1>2 DEF Merge
<1>4. UNCHANGED <<serverUp, nodes, missed, node_type, client_pc, allowed, held>>
      /\ session' = TRUE
  BY DEF ReadGood
<1>5. OpcReadWriteTypeOK'
  BY <1>1, <1>3, <1>4 DEF RwInv, OpcReadWriteTypeOK, OpcTypeOK
<1>6. ASSUME NEW n \in DOMAIN results'
      PROVE  WasHeld(n, results'[n])
  <2>1. CASE n \in good
    BY <1>2, <1>3, <2>1, ReadAsHeld
  <2>2. CASE n \notin good
    BY <1>3, <2>2 DEF RwInv, ResultsWereHeld
  <2> QED
    BY <2>1, <2>2
<1>7. ResultsWereHeld'
  <2>1. ASSUME NEW n, WasHeld(n, results'[n])
        PROVE  WasHeld(n, results[n])'
    BY <1>4, <2>1 DEF WasHeld
  <2> QED
    BY <1>6, <2>1 DEF ResultsWereHeld
<1> QED
  BY <1>4, <1>5, <1>7 DEF RwInv, ValuesOf

LEMMA RwStepHolds ==
  ASSUME RwInv, OpcReadWriteNext
  PROVE  RwInv'
<1>0. /\ OpcReadWriteTypeOK
      /\ \A n \in NodeIds : nodes[n] # NoValue => nodes[n] \in held[n]
  BY DEF RwInv
<1>1. ASSUME NEW n \in NodeIds,
             WriteOneUndefined(n) \/ WriteOneIgnored(n) \/ WriteOneLost(n) \/ Refill(n)
      PROVE  RwInv'
  <2>1. UNCHANGED <<nodes, node_type, results, held>>
    BY <1>1
       DEF WriteOneUndefined, ClientCrash, WriteOneIgnored, WriteOneLost, Refill,
           Disconnect, opcVars, rwVars
  <2>2. OpcReadWriteTypeOK'
    <3>1. CASE WriteOneUndefined(n)
      BY <1>0, <3>1
         DEF WriteOneUndefined, ClientCrash, opcVars, OpcReadWriteTypeOK, OpcTypeOK
    <3>2. CASE WriteOneIgnored(n)
      BY <1>0, <3>2 DEF WriteOneIgnored, rwVars, OpcReadWriteTypeOK, OpcTypeOK
    <3>3. CASE WriteOneLost(n)
      BY <1>0, <3>3 DEF WriteOneLost, Disconnect, OpcReadWriteTypeOK, OpcTypeOK
    <3>4. CASE Refill(n)
      BY <1>0, <3>4 DEF Refill, opcVars, OpcReadWriteTypeOK, OpcTypeOK
    <3> QED
      BY <1>1, <3>1, <3>2, <3>3, <3>4
  <2> QED
    BY <2>1, <2>2, RwRests
<1>2. ASSUME NEW n \in NodeIds, WriteOneGood(n)
      PROVE  RwInv'
  <2>1. CASE n \in Accepted /\ node_type[n] # "BOOL"
    <3>1. PICK v \in ValuesOf(n) :
            /\ nodes' = [nodes EXCEPT ![n] = v]
            /\ held' = [held EXCEPT ![n] = @ \cup {v}]
      BY <1>2, <2>1 DEF WriteOneGood
    <3>2. missed' \subseteq missed /\ allowed' \subseteq allowed /\ session' = TRUE
          /\ UNCHANGED <<serverUp, node_type, client_pc, results>>
      BY <1>2, <2>1 DEF WriteOneGood
    <3>3. OpcTypeOK'
      BY <1>0, <3>1, <3>2 DEF OpcReadWriteTypeOK, OpcTypeOK
    <3>4. Stores(n, v)
      BY <3>1, <3>2 DEF Stores
    <3>5. client_pc' = client_pc /\ node_type' = node_type /\ results' = results
      BY <3>2
    <3>6. allowed' \subseteq NodeIds
      BY <1>0, <3>2 DEF OpcReadWriteTypeOK
    <3>7. OpcReadWriteTypeOK'
      BY <1>0, <3>3, <3>4, <3>5, <3>6, StoreHolds DEF OpcReadWriteTypeOK
    <3> QED
      BY <3>4, <3>7, StoreHolds DEF RwInv
  <2>2. CASE ~(n \in Accepted /\ node_type[n] # "BOOL")
    <3>1. /\ UNCHANGED <<serverUp, nodes, node_type, client_pc, results, held>>
          /\ session' = TRUE
          /\ missed' = missed \cup {n} /\ allowed' = allowed \ {n}
      BY <1>2, <2>2 DEF WriteOneGood
    <3>2. OpcReadWriteTypeOK'
      BY <1>0, <3>1 DEF OpcReadWriteTypeOK, OpcTypeOK
    <3> QED
      BY <3>1, <3>2, RwRests
  <2> QED
    BY <2>1, <2>2
<1>3. ASSUME NEW n \in NodeIds, OtherClientWrites(n)
      PROVE  RwInv'
  <2>1. PICK v \in ValuesOf(n) :
          /\ nodes' = [nodes EXCEPT ![n] = v]
          /\ held' = [held EXCEPT ![n] = @ \cup {v}]
    BY <1>3 DEF OtherClientWrites
  <2>2. UNCHANGED <<serverUp, session, missed, node_type, client_pc, allowed, results>>
    BY <1>3 DEF OtherClientWrites
  <2>3. OpcTypeOK'
    BY <1>0, <2>1, <2>2 DEF OpcReadWriteTypeOK, OpcTypeOK
  <2>4. Stores(n, v)
    BY <2>1, <2>2 DEF Stores
  <2>5. UNCHANGED <<node_type, client_pc, results, allowed>>
    BY <2>2
  <2>6. OpcReadWriteTypeOK'
    BY <1>0, <2>3, <2>4, <2>5, StoreHolds DEF OpcReadWriteTypeOK
  <2> QED
    BY <2>4, <2>6, StoreHolds DEF RwInv
<1>4. ASSUME NEW ns \in SUBSET NodeIds, ReadUndefined(ns)
      PROVE  RwInv'
  <2>1. OpcReadWriteTypeOK' /\ UNCHANGED <<nodes, node_type, results, held>>
    BY <1>0, <1>4
       DEF ReadUndefined, ClientCrash, opcVars, OpcReadWriteTypeOK, OpcTypeOK
  <2> QED
    BY <2>1, RwRests
<1>5. CASE CallLost
  <2>1. OpcReadWriteTypeOK' /\ UNCHANGED <<nodes, node_type, results, held>>
    BY <1>0, <1>5 DEF CallLost, Disconnect, rwVars, OpcReadWriteTypeOK, OpcTypeOK
  <2> QED
    BY <2>1, RwRests
<1>6. CASE (ServerDown \/ ServerBack \/ ServerRestarted) /\ UNCHANGED rwVars
  <2>1. OpcTypeOK'
    BY <1>0, <1>6, ServerStepType DEF ServerStep, OpcReadWriteTypeOK
  <2>2. OpcReadWriteTypeOK'
    BY <1>0, <1>6, <2>1 DEF OpcReadWriteTypeOK, rwVars
  <2>3. \A n \in NodeIds : nodes'[n] \in {nodes[n], NoValue}
    BY <1>6 DEF ServerDown, ServerBack, ServerRestarted
  <2>4. UNCHANGED <<node_type, results, held>>
    BY <1>6 DEF rwVars
  <2>5. ResultsWereHeld'
    BY <1>0, <2>4, HeldGrows DEF RwInv, OpcReadWriteTypeOK
  <2> QED
    BY <1>0, <2>2, <2>3, <2>4, <2>5 DEF RwInv, ValuesOf
<1> QED
  BY <1>1, <1>2, <1>3, <1>4, <1>5, <1>6, ReadHolds DEF OpcReadWriteNext


-------------------------------------------------------------------------------
(***************************************************************************)
(* ReadConfig: the settings at every moment are those of the last Modbus   *)
(* device handled, and only the connections of one are walked over.        *)
(***************************************************************************)
DriverInv ==
  /\ AvDriverConfigTypeOK
  /\ driver_pc = "connections" => devices[device].type = "ModbusTcpClient"
  /\ SettingsAreTheLast

LEMMA WithinInRange ==
  ASSUME NEW low \in Int, NEW high \in Int, NEW value \in Int,
         NEW default \in Int, low <= default, default <= high
  PROVE  InRange(Within(value, low, high, default), low, high)
BY SMT DEF InRange, Within

LEMMA NumberFits ==
  ASSUME NEW low \in Int, NEW high \in Int, NEW value \in Int, NEW default \in Int
  PROVE  Fits(value, low, high, default, Within(value, low, high, default))
BY SMT DEF Fits, InRange, Within

LEMMA MissingFits ==
  ASSUME NEW low \in Int, NEW high \in Int, NEW default \in Int,
         NEW missing \in Int, low <= missing, missing <= high
  PROVE  Fits(Absent, low, high, missing, Within(missing, low, high, default))
BY AvDriverConfigAssumption, SMT DEF Fits, InRange, Within

(***************************************************************************)
(* A number that fits is taken; one that does not, or none, is replaced.   *)
(***************************************************************************)
LEMMA WithinFits ==
  ASSUME NEW low \in Int, NEW high \in Int, NEW value \in Number,
         NEW default \in Int, low <= default, default <= high
  PROVE  Fits(value, low, high, default,
              Within(Or(value, default), low, high, default))
BY NumberFits, MissingFits, SMT DEF Or, Number

LEMMA TimeoutFits ==
  ASSUME NEW value \in Number
  PROVE  Fits(value, 1000, 32000, IF value = Absent THEN 2000 ELSE 1000,
              Within(Or(value, 2000), 1000, 32000, 1000))
<1>1. CASE value = Absent
  BY <1>1, MissingFits, SMT DEF Or
<1>2. CASE value # Absent
  BY <1>2, NumberFits, SMT DEF Or, Number
<1> QED
  BY <1>1, <1>2

LEMMA OrIsNumber ==
  ASSUME NEW value \in Number, NEW default \in Int
  PROVE  Or(value, default) \in Int
BY SMT DEF Or, Number

LEMMA DeviceHas ==
  ASSUME NEW d \in Devices
  PROVE  /\ d.max_socket \in Number /\ d.max_request \in Number
         /\ d.port \in Number /\ d.timeout \in Number
         /\ d.connections \in Seq(Seq(Pieces))
BY SMT DEF Devices

LEMMA ModbusFits ==
  ASSUME NEW d \in Devices
  PROVE  /\ InRange(ModbusOf(d).max_socket, 1, 16)
         /\ InRange(ModbusOf(d).max_request, 1, 32)
         /\ InRange(ModbusOf(d).port, 0, 65535)
         /\ InRange(ModbusOf(d).timeout, 1000, 32000)
         /\ Fits(d.max_socket, 1, 16, 1, ModbusOf(d).max_socket)
         /\ Fits(d.max_request, 1, 32, 1, ModbusOf(d).max_request)
         /\ Fits(d.port, 0, 65535, 502, ModbusOf(d).port)
         /\ Fits(d.timeout, 1000, 32000, IF d.timeout = Absent THEN 2000 ELSE 1000,
                 ModbusOf(d).timeout)
<1>1. /\ ModbusOf(d).max_socket = Within(Or(d.max_socket, 1), 1, 16, 1)
      /\ ModbusOf(d).max_request = Within(Or(d.max_request, 1), 1, 32, 1)
      /\ ModbusOf(d).port = Within(Or(d.port, 502), 0, 65535, 502)
      /\ ModbusOf(d).timeout = Within(Or(d.timeout, 2000), 1000, 32000, 1000)
  BY SMT DEF ModbusOf
<1>2. /\ d.max_socket \in Number /\ d.max_request \in Number
      /\ d.port \in Number /\ d.timeout \in Number
  BY DeviceHas
<1>3. /\ Or(d.max_socket, 1) \in Int /\ Or(d.max_request, 1) \in Int
      /\ Or(d.port, 502) \in Int /\ Or(d.timeout, 2000) \in Int
  BY <1>2, OrIsNumber, SMT
<1>4. /\ InRange(ModbusOf(d).max_socket, 1, 16)
      /\ InRange(ModbusOf(d).max_request, 1, 32)
  BY <1>1, <1>3, WithinInRange, SMT
<1>5. InRange(ModbusOf(d).port, 0, 65535)
  BY <1>1, <1>3, WithinInRange, SMT
<1>6. InRange(ModbusOf(d).timeout, 1000, 32000)
  BY <1>1, <1>3, WithinInRange, SMT
<1>7. Fits(d.max_socket, 1, 16, 1, ModbusOf(d).max_socket)
  BY <1>1, <1>2, WithinFits, SMT
<1>8. Fits(d.max_request, 1, 32, 1, ModbusOf(d).max_request)
  BY <1>1, <1>2, WithinFits, SMT
<1>9. Fits(d.port, 0, 65535, 502, ModbusOf(d).port)
  BY <1>1, <1>2, WithinFits, SMT
<1>10. Fits(d.timeout, 1000, 32000, IF d.timeout = Absent THEN 2000 ELSE 1000,
            ModbusOf(d).timeout)
  BY <1>1, <1>2, TimeoutFits, SMT
<1> QED
  BY <1>4, <1>5, <1>6, <1>7, <1>8, <1>9, <1>10, SMT


LEMMA DriverStarts ==
  ASSUME AvDriverConfigInit
  PROVE  DriverInv
<1>1. devices \in Seq(Devices) /\ device = 0 /\ driver_pc = "devices"
      /\ modbus = Absent /\ addr = old_addr
  BY AvDriverConfigAssumption, SMT DEF AvDriverConfigInit
<1>2. addr \in Seq(Seq(Pieces) \cup {SomeAddress})
  <2>1. old_addr = <<>> \/ old_addr = <<SomeAddress>>
    BY SMT DEF AvDriverConfigInit
  <2>2. ASSUME NEW S, NEW x \in S
        PROVE  <<>> \in Seq(S) /\ <<x>> \in Seq(S)
    OBVIOUS
  <2>3. SomeAddress \in Seq(Pieces) \cup {SomeAddress}
    OBVIOUS
  <2> QED
    BY <1>1, <2>1, <2>2, <2>3, Zenon
<1>3. AvDriverConfigTypeOK
  BY <1>1, <1>2, SMT DEF AvDriverConfigTypeOK
<1>4. \A type : Handled(type) = {}
  BY <1>1, SMT DEF Handled
<1> QED
  BY <1>1, <1>3, <1>4 DEF DriverInv, SettingsAreTheLast

(***************************************************************************)
(* What a step that handles no device leaves as it was.                    *)
(***************************************************************************)
LEMMA SettingsRest ==
  ASSUME SettingsAreTheLast, UNCHANGED <<devices, device, modbus, old_addr>>,
         addr' = addr \/ Handled("ModbusTcpClient") # {}
  PROVE  SettingsAreTheLast'
<1>1. Handled("ModbusTcpClient")' = Handled("ModbusTcpClient")
  BY DEF Handled
<1>2. \A d : SettingsFit(d)' = SettingsFit(d)
  BY DEF SettingsFit
<1>3. \A i : SettingsFit(devices[i])' = SettingsFit(devices[i])
  BY DEF SettingsFit
<1> QED
  BY <1>1, <1>3 DEF SettingsAreTheLast

LEMMA HandledNext ==
  ASSUME devices \in Seq(Devices), device \in 0..Len(devices),
         NEW type, NextDevice(type)
  PROVE  /\ device + 1 \in DOMAIN devices /\ devices[device + 1] \in Devices
         /\ device' \in 0..Len(devices) /\ device' = device + 1
         /\ Handled(type)' = Handled(type) \cup {device + 1}
         /\ \A other : other # type => Handled(other)' = Handled(other)
         /\ \A i \in Handled(type) : i \in Int /\ i <= device
<1>1. devices[device + 1].type = type /\ device' = device + 1 /\ devices' = devices
      /\ device < Len(devices)
  BY DEF NextDevice, Device
<1>2. device + 1 \in DOMAIN devices /\ devices[device + 1] \in Devices
      /\ device' \in 0..Len(devices)
  BY <1>1, SMT
<1>3. \A i : i \in 1..device' <=> i \in 1..device \/ i = device + 1
  BY <1>1, SMT
<1>4. Handled(type)' = Handled(type) \cup {device + 1}
  BY <1>1, <1>3, SMT DEF Handled
<1>5. ASSUME NEW other, other # type
      PROVE  Handled(other)' = Handled(other)
  BY <1>1, <1>3, <1>5, SMT DEF Handled
<1>6. \A i \in Handled(type) : i \in Int /\ i <= device
  BY SMT DEF Handled
<1> QED
  BY <1>1, <1>2, <1>4, <1>5, <1>6

LEMMA DriverStepHolds ==
  ASSUME DriverInv, AvDriverConfigNext
  PROVE  DriverInv'
<1>0. /\ AvDriverConfigTypeOK /\ SettingsAreTheLast
      /\ devices \in Seq(Devices) /\ device \in 0..Len(devices)
      /\ addr \in Seq(Seq(Pieces) \cup {SomeAddress})
  BY DEF DriverInv, AvDriverConfigTypeOK
<1>1. ASSUME UNCHANGED <<devices, device, connection, modbus, addr, old_addr>>,
             driver_pc' \in {"devices", "configs", "returned", "crashed"}
      PROVE  DriverInv'
  <2>1. AvDriverConfigTypeOK'
    BY <1>0, <1>1, SMT DEF AvDriverConfigTypeOK
  <2>2. SettingsAreTheLast'
    BY <1>0, <1>1, SettingsRest
  <2> QED
    BY <1>1, <2>1, <2>2, SMT DEF DriverInv
<1>2. CASE NoFile \/ ConnectionsDone \/ DevicesDone \/ Configs
  <2>1. UNCHANGED <<devices, device, connection, modbus, addr, old_addr>>
        /\ driver_pc' \in {"devices", "configs", "returned", "crashed"}
    BY <1>2, SMT DEF NoFile, ConnectionsDone, DevicesDone, Configs
  <2> QED
    BY <1>1, <2>1
<1>3. CASE Connection
  <2>1. /\ driver_pc = "connections" /\ connection < Len(Connections)
        /\ connection' = connection + 1
        /\ addr' = addr \/ addr' = Append(addr, Connections[connection + 1])
        /\ driver_pc' \in {"thrown", "connections"}
        /\ UNCHANGED <<devices, device, modbus, old_addr>>
    BY <1>3, SMT DEF Connection
  <2>2. /\ device > 0 /\ connection \in 0..Len(Connections)
        /\ devices[device].type = "ModbusTcpClient"
    BY <2>1, SMT DEF DriverInv, AvDriverConfigTypeOK, Connections
  <2>3. devices[device] \in Devices
    BY <1>0, <2>2, SMT
  <2>4. Connections \in Seq(Seq(Pieces))
    BY <2>3, DeviceHas DEF Connections
  <2>5. addr' \in Seq(Seq(Pieces) \cup {SomeAddress})
    <3>1. Connections[connection + 1] \in Seq(Pieces) \cup {SomeAddress}
      BY <2>1, <2>2, <2>4, SMT
    <3> QED
      BY <1>0, <2>1, <3>1, SMT
  <2>6. connection' \in 0..Len(devices[device].connections)
    BY <2>1, <2>2, <2>4, SMT DEF Connections
  <2>7. AvDriverConfigTypeOK'
    BY <1>0, <2>1, <2>2, <2>5, <2>6, SMT DEF AvDriverConfigTypeOK
  <2>8. device \in Handled("ModbusTcpClient")
    BY <1>0, <2>2, SMT DEF Handled
  <2>9. SettingsAreTheLast'
    BY <1>0, <2>1, <2>8, SettingsRest
  <2> QED
    BY <2>1, <2>2, <2>7, <2>9 DEF DriverInv
<1>4. ASSUME NEW type, type # "ModbusTcpClient", NextDevice(type),
             UNCHANGED <<modbus, addr>>, driver_pc' \in {"devices", "thrown"}
      PROVE  DriverInv'
  <2>1. /\ device' \in 0..Len(devices)
        /\ Handled("ModbusTcpClient")' = Handled("ModbusTcpClient")
    BY <1>0, <1>4, HandledNext
  <2>2. UNCHANGED <<devices, old_addr>>
    BY <1>4 DEF NextDevice
  <2>3. AvDriverConfigTypeOK'
    BY <1>0, <1>4, <2>1, <2>2, SMT DEF AvDriverConfigTypeOK
  <2>4. \A i : SettingsFit(devices[i])' = SettingsFit(devices[i])
    BY <1>4, <2>2 DEF SettingsFit
  <2>5. SettingsAreTheLast'
    BY <1>0, <1>4, <2>1, <2>2, <2>4 DEF SettingsAreTheLast
  <2> QED
    BY <1>4, <2>3, <2>5, SMT DEF DriverInv
<1>5. CASE OpcUaDevice
  <2>1. NextDevice("OpcUaClient") /\ UNCHANGED <<modbus, addr>>
        /\ driver_pc' \in {"devices", "thrown"}
    BY <1>5 DEF OpcUaDevice
  <2> QED
    BY <1>4, <2>1
<1>6. CASE OtherDevice
  <2>1. NextDevice("other") /\ UNCHANGED <<modbus, addr>> /\ driver_pc' = "devices"
    BY <1>6 DEF OtherDevice, NextDevice
  <2> QED
    BY <1>4, <2>1
<1>7. CASE ModbusDevice
  <2> DEFINE next == device + 1
  <2>1. /\ NextDevice("ModbusTcpClient") /\ modbus' = ModbusOf(devices[next])
        /\ driver_pc' = "connections" /\ addr' = addr
    BY <1>7 DEF ModbusDevice, Device
  <2>2. /\ devices' = devices /\ old_addr' = old_addr /\ connection' = 0
        /\ devices[next].type = "ModbusTcpClient"
    BY <2>1 DEF NextDevice, Device
  <2>3. /\ next \in DOMAIN devices /\ devices[next] \in Devices
        /\ device' \in 0..Len(devices) /\ device' = next
        /\ Handled("ModbusTcpClient")' = Handled("ModbusTcpClient") \cup {next}
        /\ \A i \in Handled("ModbusTcpClient") : i \in Int /\ i <= device
    BY <1>0, <2>1, HandledNext
  <2>4. AvDriverConfigTypeOK'
    <3>1. /\ InRange(modbus'.max_socket, 1, 16) /\ InRange(modbus'.max_request, 1, 32)
          /\ InRange(modbus'.port, 0, 65535) /\ InRange(modbus'.timeout, 1000, 32000)
      BY <2>1, <2>3, ModbusFits
    <3>2. 0 \in 0..Len(devices[next].connections)
      <4>1. devices[next].connections \in Seq(Seq(Pieces))
        BY <2>3, DeviceHas
      <4> QED
        BY <4>1, SMT
    <3>3. next > 0
      BY <1>0, SMT
    <3> QED
      BY <1>0, <2>1, <2>2, <2>3, <3>1, <3>2, <3>3, SMT DEF AvDriverConfigTypeOK
  <2>5. SettingsFit(devices[device])'
    BY <2>1, <2>2, <2>3, ModbusFits DEF SettingsFit
  <2>6. ASSUME NEW i \in Handled("ModbusTcpClient")',
               \A j \in Handled("ModbusTcpClient")' : j <= i
        PROVE  SettingsFit(devices[i])'
    <3>1. next \in Handled("ModbusTcpClient")' /\ next \in Int /\ device \in Int
      BY <1>0, <2>3
    <3>2. next <= i
      BY <2>6, <3>1
    <3>3. i = next \/ i \in Handled("ModbusTcpClient")
      BY <2>3
    <3>4. i \in Handled("ModbusTcpClient") => i \in Int /\ i <= device
      BY <2>3
    <3>5. i = device'
      BY <2>3, <3>1, <3>2, <3>3, <3>4, SMT
    <3> QED
      BY <2>5, <3>5
  <2>7. SettingsAreTheLast'
    BY <2>3, <2>6 DEF SettingsAreTheLast
  <2> QED
    BY <2>1, <2>2, <2>3, <2>4, <2>7 DEF DriverInv
<1> QED
  BY <1>2, <1>3, <1>5, <1>6, <1>7 DEF AvDriverConfigNext


-------------------------------------------------------------------------------
(***************************************************************************)
(* ReadConfig: the addresses.  Between two devices the connections of the  *)
(* last one have all been looked at, so that the places of addresses       *)
(* change with a connection only, which comes behind all of them.          *)
(***************************************************************************)
AddrInv ==
  /\ old_addr \in Seq(Seq(Pieces) \cup {SomeAddress})
  /\ IsFiniteSet(Places)
  /\ driver_pc = "devices" /\ device \in Handled("ModbusTcpClient") =>
       connection = Len(Connections)
  /\ AddressesAreAll

LEMMA Beginning ==
  ASSUME NEW S, NEW seq \in Seq(S), NEW n \in 0..Len(seq)
  PROVE  /\ SubSeq(seq, 1, n) \in Seq(S) /\ Len(SubSeq(seq, 1, n)) = n
         /\ \A i \in 1..n : SubSeq(seq, 1, n)[i] = seq[i]
OBVIOUS

LEMMA AllTokens ==
  ASSUME NEW tokens, DOMAIN tokens = 1..Len(tokens), Len(tokens) = 4
  PROVE  {i \in DOMAIN tokens : tokens[i] # "octet"} = {} <=>
           \A i \in 1..4 : tokens[i] = "octet"
OBVIOUS

(***************************************************************************)
(* What IsIpAddress takes for an address.                                  *)
(***************************************************************************)
LEMMA IpAddresses ==
  ASSUME NEW pieces \in Seq(Pieces)
  PROVE  IsIpAddress(pieces) = "yes" <=> IsIp(pieces)
<1> DEFINE tokens == Split(pieces)
<1>1. IsIpAddress(pieces) = "yes" <=>
        Len(tokens) = 4 /\ {i \in DOMAIN tokens : tokens[i] # "octet"} = {}
  BY DEF IsIpAddress
<1>2. CASE pieces # <<>> /\ pieces[Len(pieces)] = "empty"
  <2>1. /\ Len(tokens) = Len(pieces) - 1 /\ DOMAIN tokens = 1..Len(tokens)
        /\ \A i \in 1..Len(tokens) : tokens[i] = pieces[i]
        /\ Len(pieces) \in Nat
    <3>1. Len(pieces) \in Nat /\ Len(pieces) >= 1
      BY <1>2
    <3>2. tokens = SubSeq(pieces, 1, Len(pieces) - 1)
      BY <1>2 DEF Split, Front
    <3> HIDE DEF tokens
    <3>3. PICK n : n = Len(pieces) - 1
      OBVIOUS
    <3>4. n \in 0..Len(pieces)
      BY <3>1, <3>3
    <3>5. /\ tokens \in Seq(Pieces) /\ Len(tokens) = n
          /\ \A i \in 1..n : tokens[i] = pieces[i]
      BY <3>2, <3>3, <3>4, Beginning
    <3>6. DOMAIN tokens = 1..Len(tokens)
      BY <3>5
    <3> QED
      BY <3>1, <3>3, <3>5, <3>6
  <2>2. IsIp(pieces) <=> Len(pieces) = 5 /\ \A i \in 1..4 : pieces[i] = "octet"
    BY <1>2, <2>1, SMT DEF IsIp
  <2>3. CASE Len(tokens) = 4
    <3>1. {i \in DOMAIN tokens : tokens[i] # "octet"} = {} <=>
            \A i \in 1..4 : tokens[i] = "octet"
      BY <2>1, <2>3, AllTokens
    <3> QED
      BY <1>1, <2>1, <2>2, <2>3, <3>1, SMT
  <2>4. CASE Len(tokens) # 4
    BY <1>1, <2>1, <2>2, <2>4, SMT
  <2> QED
    BY <2>3, <2>4
<1>3. CASE ~(pieces # <<>> /\ pieces[Len(pieces)] = "empty")
  <2>1. tokens = pieces /\ DOMAIN pieces = 1..Len(pieces) /\ Len(pieces) \in Nat
    BY <1>3, SMT DEF Split
  <2>2. IsIp(pieces) <=> Len(pieces) = 4 /\ \A i \in 1..4 : pieces[i] = "octet"
    BY <1>3, <2>1, SMT DEF IsIp
  <2>3. CASE Len(pieces) = 4
    <3>1. {i \in DOMAIN tokens : tokens[i] # "octet"} = {} <=>
            \A i \in 1..4 : tokens[i] = "octet"
      BY <2>1, <2>3, AllTokens
    <3> QED
      BY <1>1, <2>1, <2>2, <2>3, <3>1
  <2> QED
    BY <1>1, <2>1, <2>2, <2>3
<1> QED
  BY <1>2, <1>3

LEMMA PlaceIs ==
  \A p : p \in Places <=>
           \E i \in Handled("ModbusTcpClient") : \E c \in LookedAt(i) :
             p = <<i, c>> /\ IsIp(devices[i].connections[c])
BY DEF Places

LEMMA AddressesRest ==
  ASSUME AddressesAreAll, Places' = Places,
         UNCHANGED <<devices, addr, old_addr>>
  PROVE  AddressesAreAll'
<1>1. \A p : UpTo(p)' = UpTo(p) /\ At(p)' = At(p)
  BY DEF UpTo, At
<1> QED
  BY <1>1 DEF AddressesAreAll

LEMMA DeviceKeepsPlaces ==
  ASSUME DriverInv, AddrInv, NEW type, NextDevice(type)
  PROVE  Places' = Places
<1>1. /\ devices \in Seq(Devices) /\ device \in 0..Len(devices)
      /\ driver_pc = "devices" /\ device' = device + 1 /\ connection' = 0
      /\ devices' = devices
  BY DEF DriverInv, AvDriverConfigTypeOK, NextDevice
<1>2. /\ \A i \in Handled("ModbusTcpClient") : i \in Int /\ i <= device
      /\ \A i : i \in Handled("ModbusTcpClient")' <=>
                  i \in Handled("ModbusTcpClient")
                    \/ (i = device + 1 /\ devices[i].type = "ModbusTcpClient")
  BY <1>1, SMT DEF Handled
<1>3. ASSUME NEW i \in Handled("ModbusTcpClient")
      PROVE  LookedAt(i)' = LookedAt(i)
  <2>1. i # device'
    BY <1>1, <1>2
  <2>2. i = device => connection = Len(devices[i].connections)
    BY <1>1 DEF AddrInv, Connections
  <2> QED
    BY <1>1, <2>1, <2>2 DEF LookedAt
<1>4. \A i : i = device + 1 => LookedAt(i)' = {}
  BY <1>1 DEF LookedAt
<1>5. \A p : p \in Places' <=> p \in Places
  <2>1. \A p : p \in Places' <=>
               \E i \in Handled("ModbusTcpClient")' : \E c \in LookedAt(i)' :
                 p = <<i, c>> /\ IsIp(devices[i].connections[c])
    BY <1>1 DEF Places
  <2> QED
    BY <1>2, <1>3, <1>4, <2>1, PlaceIs
<1> QED
  BY <1>5

LEMMA ConnectionPlaces ==
  ASSUME DriverInv, Connection, NEW new, new = <<device, connection + 1>>
  PROVE  /\ Places' = IF IsIp(At(new)) THEN Places \cup {new} ELSE Places
         /\ \A p \in Places : Precedes(p, new) /\ ~Precedes(new, p) /\ p # new
         /\ At(new) = Connections[connection + 1]
<1>1. /\ devices \in Seq(Devices) /\ device \in 0..Len(devices)
      /\ driver_pc = "connections" /\ device' = device
      /\ connection' = connection + 1 /\ devices' = devices
      /\ device > 0 /\ connection \in 0..Len(Connections)
      /\ devices[device].type = "ModbusTcpClient"
      /\ At(new) = Connections[connection + 1]
  BY DEF DriverInv, AvDriverConfigTypeOK, Connection, Connections, At
<1>2. /\ device \in Handled("ModbusTcpClient")
      /\ Handled("ModbusTcpClient")' = Handled("ModbusTcpClient")
      /\ \A i \in Handled("ModbusTcpClient") : i \in Int /\ i <= device
  BY <1>1, SMT DEF Handled
<1>3. connection \in Nat
  <2>1. devices[device] \in Devices
    BY <1>1, SMT
  <2>2. Connections \in Seq(Seq(Pieces))
    BY <2>1, DeviceHas DEF Connections
  <2> QED
    BY <1>1, <2>2, SMT
<1>4. \A i : i # device => LookedAt(i)' = LookedAt(i)
  BY <1>1 DEF LookedAt
<1>5. /\ \A c : c \in LookedAt(device) <=> c \in 1..connection
      /\ \A i, c : i = device => (c \in LookedAt(i)' <=> c \in 1..(connection + 1))
  BY <1>1 DEF LookedAt
<1>6. \A p : p \in Places' <=>
             \E i \in Handled("ModbusTcpClient") : \E c \in LookedAt(i)' :
               p = <<i, c>> /\ IsIp(devices[i].connections[c])
  <2>1. /\ devices' = devices
        /\ Handled("ModbusTcpClient")' = Handled("ModbusTcpClient")
    BY <1>1, <1>2
  <2> QED
    BY <2>1 DEF Places
<1>7. \A i \in Handled("ModbusTcpClient") : \A c :
        c \in LookedAt(i)' <=>
          c \in LookedAt(i) \/ (i = device /\ c = connection + 1)
  <2>1. \A c : c \in 1..(connection + 1) <=> c \in 1..connection \/ c = connection + 1
    BY <1>3, SMT
  <2> QED
    BY <1>4, <1>5, <2>1
<1>8. \A p : p \in Places' <=> p \in Places \/ (p = new /\ IsIp(At(new)))
  BY <1>1, <1>2, <1>6, <1>7, PlaceIs DEF Connections
<1>9. ASSUME NEW p \in Places
      PROVE  Precedes(p, new) /\ ~Precedes(new, p) /\ p # new
  <2>1. PICK i \in Handled("ModbusTcpClient") : \E c \in LookedAt(i) : p = <<i, c>>
    BY PlaceIs
  <2>2. PICK c \in LookedAt(i) : p = <<i, c>>
    BY <2>1
  <2>3. i \in Int /\ i <= device /\ p[1] = i /\ p[2] = c
    BY <1>2, <2>2
  <2>4. i = device => c \in Int /\ c <= connection
    BY <1>5, <2>2, SMT
  <2>5. new[1] = device /\ new[2] = connection + 1
    OBVIOUS
  <2>6. Precedes(p, new) /\ ~Precedes(new, p)
    BY <1>1, <1>3, <2>3, <2>4, <2>5, SMT DEF Precedes
  <2> QED
    BY <2>6
<1> QED
  BY <1>1, <1>8, <1>9

(***************************************************************************)
(* An address more: it is the last of the places and of the addresses.     *)
(***************************************************************************)
LEMMA AddressAdded ==
  ASSUME DriverInv, AddrInv, Connection,
         NEW new, new = <<device, connection + 1>>, IsIp(At(new))
  PROVE  IsFiniteSet(Places)' /\ AddressesAreAll'
<1> DEFINE Elems == Seq(Pieces) \cup {SomeAddress}
<1>1. /\ Places' = Places \cup {new} /\ new \notin Places
      /\ \A p \in Places : Precedes(p, new) /\ ~Precedes(new, p) /\ p # new
      /\ At(new) = Connections[connection + 1]
  BY ConnectionPlaces
<1>2. /\ IsFiniteSet(Places) /\ IsFiniteSet(Places')
      /\ Cardinality(Places') = Cardinality(Places) + 1
      /\ Cardinality(Places) \in Nat
  BY <1>1, FS_AddElement, FS_CardinalityType DEF AddrInv
<1>3. /\ devices' = devices /\ old_addr' = old_addr
      /\ addr \in Seq(Elems) /\ old_addr \in Seq(Elems)
      /\ devices[device] \in Devices /\ connection < Len(Connections)
      /\ connection \in 0..Len(Connections)
  <2>1. device \in 1..Len(devices) /\ devices \in Seq(Devices)
    BY DEF DriverInv, AvDriverConfigTypeOK, Connection
  <2>2. devices[device] \in Devices
    BY <2>1
  <2>3. addr \in Seq(Elems) /\ old_addr \in Seq(Elems)
    BY DEF DriverInv, AddrInv, AvDriverConfigTypeOK
  <2>4. /\ devices' = devices /\ old_addr' = old_addr
        /\ connection < Len(Connections) /\ driver_pc = "connections"
    BY DEF Connection
  <2>5. connection \in 0..Len(Connections)
    BY <2>4 DEF DriverInv, AvDriverConfigTypeOK, Connections
  <2> QED
    BY <2>2, <2>3, <2>4, <2>5
<1>4. At(new) \in Seq(Pieces)
  <2>1. Connections \in Seq(Seq(Pieces))
    BY <1>3, DeviceHas DEF Connections
  <2>2. connection + 1 \in 1..Len(Connections)
    BY <1>3, <2>1
  <2>3. Connections[connection + 1] \in Seq(Pieces)
    BY <2>1, <2>2
  <2> QED
    BY <1>1, <2>3
<1>5. addr' = Append(addr, At(new))
  BY <1>1, <1>4, IpAddresses DEF Connection
<1>6. /\ Len(addr') = Len(addr) + 1 /\ addr'[Len(addr) + 1] = At(new)
      /\ \A k \in 1..Len(addr) : addr'[k] = addr[k]
      /\ Len(addr) = Len(old_addr) + Cardinality(Places)
      /\ Len(addr) \in Nat /\ Len(old_addr) \in Nat
      /\ DOMAIN old_addr = 1..Len(old_addr)
  <2>1. addr \in Seq(Elems) /\ old_addr \in Seq(Elems) /\ At(new) \in Elems
    BY <1>3, <1>4
  <2> HIDE DEF Elems
  <2>2. /\ Len(addr') = Len(addr) + 1 /\ addr'[Len(addr) + 1] = At(new)
        /\ \A k \in 1..Len(addr) : addr'[k] = addr[k]
    BY <1>5, <2>1
  <2>3. /\ Len(addr) \in Nat /\ Len(old_addr) \in Nat
        /\ DOMAIN old_addr = 1..Len(old_addr)
    BY <2>1
  <2>4. Len(addr) = Len(old_addr) + Cardinality(Places)
    BY DEF AddrInv, AddressesAreAll
  <2> QED
    BY <2>2, <2>3, <2>4
<1>7. \A p : At(p)' = At(p)
  BY <1>3 DEF At
<1>8. ASSUME NEW p \in Places
      PROVE  addr'[Len(old_addr) + Cardinality(UpTo(p)')] = At(p)
  <2>1. UpTo(p)' = UpTo(p)
    BY <1>1 DEF UpTo
  <2>2. Cardinality(UpTo(p)) \in Nat /\ Cardinality(UpTo(p)) <= Cardinality(Places)
        /\ Cardinality(UpTo(p)) # 0
    <3>1. UpTo(p) \in SUBSET Places /\ p \in UpTo(p)
      BY DEF UpTo
    <3>2. IsFiniteSet(UpTo(p)) /\ Cardinality(UpTo(p)) <= Cardinality(Places)
      BY <1>2, <3>1, FS_Subset
    <3> QED
      BY <3>1, <3>2, FS_CardinalityType, FS_EmptySet
  <2>3. Len(old_addr) + Cardinality(UpTo(p)) \in 1..Len(addr)
    BY <1>2, <1>6, <2>2
  <2>4. addr[Len(old_addr) + Cardinality(UpTo(p))] = At(p)
    BY DEF AddrInv, AddressesAreAll
  <2> QED
    BY <1>6, <2>1, <2>3, <2>4
<1>9. addr'[Len(old_addr) + Cardinality(UpTo(new)')] = At(new)
  <2>1. UpTo(new)' = Places'
    BY <1>1 DEF UpTo
  <2> QED
    BY <1>2, <1>6, <2>1
<1>10. \A k \in DOMAIN old_addr : addr'[k] = old_addr[k]
  <2>1. \A k \in DOMAIN old_addr : k \in 1..Len(addr) /\ addr[k] = old_addr[k]
    BY <1>2, <1>6 DEF AddrInv, AddressesAreAll
  <2> QED
    BY <1>6, <2>1
<1>11. Len(addr') = Len(old_addr) + Cardinality(Places')
  BY <1>2, <1>6
<1> QED
  BY <1>1, <1>2, <1>3, <1>7, <1>8, <1>9, <1>10, <1>11 DEF AddressesAreAll

LEMMA AddrStarts ==
  ASSUME AvDriverConfigInit
  PROVE  AddrInv
<1>1. device = 0 /\ addr = old_addr /\ addr \in Seq(Seq(Pieces) \cup {SomeAddress})
  BY DriverStarts DEF AvDriverConfigInit, DriverInv, AvDriverConfigTypeOK
<1>2. Handled("ModbusTcpClient") = {}
  BY <1>1 DEF Handled
<1>3. Places = {}
  BY <1>2, PlaceIs
<1>4. Len(addr) = Len(old_addr) + Cardinality(Places)
  BY <1>1, <1>3, FS_EmptySet
<1> QED
  BY <1>1, <1>2, <1>3, <1>4, FS_EmptySet DEF AddrInv, AddressesAreAll

LEMMA AddrStepHolds ==
  ASSUME DriverInv, AddrInv, AvDriverConfigNext
  PROVE  AddrInv'
<1>1. ASSUME UNCHANGED <<devices, device, connection, addr, old_addr>>,
             driver_pc' = "devices" /\ device \in Handled("ModbusTcpClient") =>
               connection = Len(Connections)
      PROVE  AddrInv'
  <2>1. /\ Handled("ModbusTcpClient")' = Handled("ModbusTcpClient")
        /\ Connections' = Connections
    BY <1>1 DEF Handled, Connections
  <2>2. \A i : LookedAt(i)' = LookedAt(i)
    BY <1>1 DEF LookedAt
  <2>3. Places' = Places
    BY <1>1, <2>1, <2>2 DEF Places
  <2>4. AddressesAreAll'
    BY <1>1, <2>3, AddressesRest DEF AddrInv
  <2> QED
    BY <1>1, <2>1, <2>3, <2>4 DEF AddrInv
<1>2. CASE NoFile \/ DevicesDone \/ Configs
  BY <1>1, <1>2 DEF NoFile, DevicesDone, Configs
<1>3. CASE ConnectionsDone
  BY <1>1, <1>3 DEF ConnectionsDone
<1>4. ASSUME NEW type, NextDevice(type), addr' = addr,
             driver_pc' = "devices" => type # "ModbusTcpClient"
      PROVE  AddrInv'
  <2>1. Places' = Places
    BY <1>4, DeviceKeepsPlaces
  <2>2. UNCHANGED <<devices, old_addr>>
    BY <1>4 DEF NextDevice
  <2>3. AddressesAreAll'
    BY <1>4, <2>1, <2>2, AddressesRest DEF AddrInv
  <2>4. type # "ModbusTcpClient" => device' \notin Handled("ModbusTcpClient")'
    BY <1>4 DEF NextDevice, Device, Handled
  <2> QED
    BY <1>4, <2>1, <2>2, <2>3, <2>4 DEF AddrInv
<1>5. CASE ModbusDevice
  BY <1>4, <1>5 DEF ModbusDevice
<1>6. CASE OpcUaDevice
  BY <1>4, <1>6 DEF OpcUaDevice
<1>7. CASE OtherDevice
  BY <1>4, <1>7 DEF OtherDevice
<1>8. CASE Connection
  <2>1. PICK new : new = <<device, connection + 1>>
    OBVIOUS
  <2>2. driver_pc' # "devices" /\ UNCHANGED <<devices, old_addr>>
    BY <1>8 DEF Connection
  <2>3. IsFiniteSet(Places)' /\ AddressesAreAll'
    <3>1. CASE IsIp(At(new))
      BY <1>8, <2>1, <3>1, AddressAdded
    <3>2. CASE ~IsIp(At(new))
      <4>1. Places' = Places /\ At(new) = Connections[connection + 1]
        BY <1>8, <2>1, <3>2, ConnectionPlaces
      <4>2. At(new) \in Seq(Pieces)
        <5>1. /\ devices \in Seq(Devices) /\ device \in 1..Len(devices)
              /\ connection < Len(Connections) /\ connection \in 0..Len(Connections)
          BY <1>8 DEF DriverInv, AvDriverConfigTypeOK, Connection, Connections
        <5>2. Connections \in Seq(Seq(Pieces))
          BY <5>1, DeviceHas DEF Connections
        <5> QED
          BY <4>1, <5>1, <5>2
      <4>3. addr' = addr
        BY <1>8, <3>2, <4>1, <4>2, IpAddresses DEF Connection
      <4> QED
        BY <2>2, <4>1, <4>3, AddressesRest DEF AddrInv
    <3> QED
      BY <3>1, <3>2
  <2> QED
    BY <2>2, <2>3 DEF AddrInv
<1> QED
  BY <1>2, <1>3, <1>5, <1>6, <1>7, <1>8 DEF AvDriverConfigNext

-------------------------------------------------------------------------------
(***************************************************************************)
(* mdstat: after every line a configured array has the state the lines up  *)
(* to here say, and it is the current one as long as its section lasts.    *)
(***************************************************************************)
IsMax(m, S) == m \in S /\ \A y \in S : y <= m

SectionOpen(h) == \A j \in (h + 1)..Len(read) : ~EndsSection(read[j])

SaidBy(h, n) ==
  \/ Details(h) = {} /\ current_states[n] = HeaderState(read[h])
  \/ \E m : IsMax(m, Details(h)) /\ current_states[n] = DetailState(read[m])

Stated(n) ==
  \/ Headers(n) = {} /\ n \notin DOMAIN current_states /\ n # current_raid
  \/ \E h : /\ IsMax(h, Headers(n))
            /\ n \in DOMAIN current_states
            /\ n = current_raid <=> SectionOpen(h)
            /\ SaidBy(h, n)

MdInv ==
  /\ MdstatTypeOK
  /\ pc = "reading" => \A n \in Configured : Stated(n)
  /\ StatesAreWhatIsSaid

LEMMA MaxOfIsMax ==
  ASSUME NEW S, NEW m, IsMax(m, S)
  PROVE  IsMax(MaxOf(S), S)
BY SMT DEF MaxOf, IsMax

LEMMA MaxOfIs ==
  ASSUME NEW S \in SUBSET Int, NEW m, IsMax(m, S)
  PROVE  MaxOf(S) = m
<1>1. IsMax(MaxOf(S), S)
  BY MaxOfIsMax
<1>2. /\ m \in Int /\ MaxOf(S) \in Int
      /\ m <= MaxOf(S) /\ MaxOf(S) <= m
  BY <1>1 DEF IsMax
<1> QED
  BY <1>2, SMT

LEMMA LinesAreAfter ==
  ASSUME MdstatTypeOK
  PROVE  /\ \A n : Headers(n) \in SUBSET (1..Len(read))
         /\ \A h : Details(h) \in SUBSET (1..Len(read))
         /\ Len(read) \in Nat /\ DOMAIN read = 1..Len(read)
BY SMT DEF MdstatTypeOK, Headers, Details

LEMMA SaidIsSaid ==
  ASSUME MdstatTypeOK, NEW n, Stated(n), n \in DOMAIN current_states
  PROVE  current_states[n] = Says(n)
<1>1. PICK h : IsMax(h, Headers(n)) /\ SaidBy(h, n)
  BY DEF Stated
<1>2. Headers(n) \in SUBSET Int /\ Details(h) \in SUBSET Int
  BY LinesAreAfter, SMT
<1>3. Headers(n) # {} /\ MaxOf(Headers(n)) = h
  BY <1>1, <1>2, MaxOfIs DEF IsMax
<1>4. CASE Details(h) = {} /\ current_states[n] = HeaderState(read[h])
  BY <1>3, <1>4 DEF Says
<1>5. ASSUME NEW m, IsMax(m, Details(h)), current_states[n] = DetailState(read[m])
      PROVE  current_states[n] = Says(n)
  <2>1. Details(h) # {} /\ MaxOf(Details(h)) = m
    BY <1>2, <1>5, MaxOfIs DEF IsMax
  <2> QED
    BY <1>3, <1>5, <2>1 DEF Says
<1> QED
  BY <1>1, <1>4, <1>5 DEF SaidBy

LEMMA NotSaid ==
  ASSUME NEW n, Stated(n), n \notin DOMAIN current_states
  PROVE  Says(n) = RaidState("inactive", FALSE)
BY DEF Stated, Says

LEMMA MdStarts ==
  ASSUME MdstatInit
  PROVE  MdInv
<1>1. pc = "reading" /\ read = << >> /\ current_raid = NoRaid
      /\ DOMAIN current_states = {} /\ current_states = EmptyMap
  BY DEF MdstatInit, EmptyMap
<1>2. MdstatTypeOK
  <2>1. read \in Seq(ArrayLines \cup DetailLines \cup OtherLines)
    BY <1>1, SMT
  <2>2. current_states \in PartialMaps(Configured, [status : Statuses, state : BOOLEAN])
    BY <1>1, EmptyMapType
  <2> QED
    BY <1>1, <2>1, <2>2 DEF MdstatTypeOK
<1>3. ASSUME NEW n \in Configured
      PROVE  Stated(n)
  <2>1. Headers(n) = {}
    BY <1>1, SMT DEF Headers
  <2>2. n # NoRaid
    BY MdstatAssumption
  <2> QED
    BY <1>1, <2>1, <2>2 DEF Stated
<1> QED
  BY <1>1, <1>2, <1>3 DEF MdInv, StatesAreWhatIsSaid


(***************************************************************************)
(* What one more line does to the headers, the sections and the details.   *)
(***************************************************************************)
LEMMA LineGrows ==
  ASSUME MdstatTypeOK, NEW line, Line(line)
  PROVE  LET last == Len(read) + 1
         IN  /\ Len(read') = last /\ read'[last] = line
             /\ \A i \in 1..Len(read) : read'[i] = read[i]
             /\ DOMAIN read' = 1..last /\ DOMAIN read = 1..Len(read)
             /\ Len(read) \in Nat
BY SMT DEF MdstatTypeOK, Line

LEMMA HeadersGrow ==
  ASSUME MdstatTypeOK, NEW line, Line(line), NEW n
  PROVE  Headers(n)' = Headers(n) \cup
           IF line.kind = "array" /\ line.name = n THEN {Len(read) + 1} ELSE {}
BY LineGrows, SMT DEF Headers

LEMMA SectionGoesOn ==
  ASSUME MdstatTypeOK, NEW line, Line(line), NEW h \in 1..Len(read)
  PROVE  SectionOpen(h)' <=> SectionOpen(h) /\ ~EndsSection(line)
<1> DEFINE last == Len(read) + 1
<1>1. \A j : j \in (h + 1)..last <=> j \in (h + 1)..Len(read) \/ j = last
  BY LineGrows, SMT
<1>2. \A j \in (h + 1)..Len(read) : read'[j] = read[j]
  BY LineGrows, SMT
<1>3. Len(read') = last /\ read'[last] = line
  BY LineGrows
<1> HIDE DEF last
<1> QED
  BY <1>1, <1>2, <1>3, Zenon DEF SectionOpen

LEMMA SectionBegins ==
  ASSUME MdstatTypeOK, NEW line, Line(line), NEW last, last = Len(read) + 1
  PROVE  /\ SectionOpen(last)'
         /\ Details(last)' = {}
<1>1. Len(read') = last /\ DOMAIN read' = 1..last /\ last \in Nat
  BY LineGrows
<1> QED
  BY <1>1, SMT DEF SectionOpen, Details

IsDetail(line) == line.kind \in {"disks", "recovery"}

LEMMA DetailsGrow ==
  ASSUME MdstatTypeOK, NEW line, Line(line), NEW h \in 1..Len(read)
  PROVE  Details(h)' = Details(h) \cup
           IF IsDetail(line) /\ SectionOpen(h) THEN {Len(read) + 1} ELSE {}
<1> DEFINE last == Len(read) + 1
<1>0. /\ last \in Nat /\ h < last /\ read'[last] = line /\ Len(read) \in Nat
      /\ \A i : i \in DOMAIN read' <=> i \in DOMAIN read \/ i = last
      /\ DOMAIN read = 1..Len(read)
  BY LineGrows, SMT
<1>1. \A i \in DOMAIN read : read'[i] = read[i] /\ i # last
  BY LineGrows, SMT
<1>2. \A i \in DOMAIN read : i \in Details(h)' <=> i \in Details(h)
  <2>1. ASSUME NEW i \in DOMAIN read
        PROVE  i \in Details(h)' <=> i \in Details(h)
    <3>1. i \in DOMAIN read' /\ read'[i] = read[i]
      BY <1>0, <1>1
    <3>2. \A j \in (h + 1)..i : read'[j] = read[j]
      BY <1>0, <1>1, SMT
    <3> QED
      BY <3>1, <3>2, Zenon DEF Details
  <2> QED
    BY <2>1
<1>3. last \in Details(h)' <=> IsDetail(line) /\ SectionOpen(h)
  <2>1. last \in Details(h)' <=>
          IsDetail(line) /\ \A j \in (h + 1)..last : ~EndsSection(read'[j])
    BY <1>0, SMT DEF Details, IsDetail
  <2>2. \A j : j \in (h + 1)..last <=> j \in (h + 1)..Len(read) \/ j = last
    BY <1>0, SMT
  <2>3. \A j \in (h + 1)..Len(read) : read'[j] = read[j]
    BY <1>0, <1>1, SMT
  <2>4. IsDetail(line) => ~EndsSection(line)
    BY DEF IsDetail, EndsSection
  <2> HIDE DEF last
  <2> QED
    BY <1>0, <2>1, <2>2, <2>3, <2>4, Zenon DEF SectionOpen
<1>4. Details(h) \subseteq DOMAIN read /\ Details(h)' \subseteq DOMAIN read \cup {last}
  BY <1>0 DEF Details
<1>5. last \notin Details(h)
  BY <1>1, <1>4
<1> HIDE DEF last
<1>6. Details(h)' = Details(h) \cup
        IF IsDetail(line) /\ SectionOpen(h) THEN {last} ELSE {}
  BY <1>2, <1>3, <1>4, <1>5
<1> QED
  BY <1>6 DEF last


(***************************************************************************)
(* A line that is no header of n leaves what was said of it, but for the   *)
(* detail of a section that is open; "current" and "states" are what the   *)
(* line makes of the two variables.                                        *)
(***************************************************************************)
LEMMA StatedAfterNoHeader ==
  ASSUME MdstatTypeOK, NEW line, Line(line), NEW n \in Configured, Stated(n),
         ~(line.kind = "array" /\ line.name = n),
         n \in DOMAIN current_states' <=> n \in DOMAIN current_states,
         n = current_raid' <=> n = current_raid /\ ~EndsSection(line),
         n = current_raid /\ IsDetail(line) => current_states'[n] = DetailState(line),
         n \in DOMAIN current_states /\ (n # current_raid \/ ~IsDetail(line)) =>
           current_states'[n] = current_states[n]
  PROVE  Stated(n)'
<1>1. Headers(n)' = Headers(n)
  BY HeadersGrow
<1>2. CASE Headers(n) = {}
  <2>1. n \notin DOMAIN current_states /\ n # current_raid
    BY <1>2 DEF Stated, IsMax
  <2> QED
    BY <1>1, <1>2, <2>1 DEF Stated
<1>3. CASE Headers(n) # {}
  <2>1. PICK h : /\ IsMax(h, Headers(n)) /\ n \in DOMAIN current_states
                 /\ n = current_raid <=> SectionOpen(h)
                 /\ SaidBy(h, n)
    BY <1>3 DEF Stated
  <2>2. h \in 1..Len(read) /\ Details(h) \in SUBSET (1..Len(read))
        /\ Len(read) \in Nat
    BY <2>1, LinesAreAfter DEF IsMax
  <2>3. SectionOpen(h)' <=> SectionOpen(h) /\ ~EndsSection(line)
    BY <2>2, SectionGoesOn
  <2>4. Details(h)' = Details(h) \cup
          IF IsDetail(line) /\ SectionOpen(h) THEN {Len(read) + 1} ELSE {}
    BY <2>2, DetailsGrow
  <2>5. /\ read'[Len(read) + 1] = line
        /\ \A i \in 1..Len(read) : read'[i] = read[i]
    BY LineGrows
  <2>6. SaidBy(h, n)'
    <3>1. CASE IsDetail(line) /\ SectionOpen(h)
      <4>1. \A y \in Details(h) : y <= Len(read) + 1
        BY <2>2, SMT
      <4>2. IsMax(Len(read) + 1, Details(h)')
        BY <2>2, <2>4, <3>1, <4>1, SMT DEF IsMax
      <4>3. current_states'[n] = DetailState(line)
        BY <2>1, <3>1
      <4> QED
        BY <2>5, <4>2, <4>3 DEF SaidBy
    <3>2. CASE ~(IsDetail(line) /\ SectionOpen(h))
      <4>1. Details(h)' = Details(h) /\ current_states'[n] = current_states[n]
        BY <2>1, <2>4, <3>2
      <4>2. CASE Details(h) = {} /\ current_states[n] = HeaderState(read[h])
        BY <2>2, <2>5, <4>1, <4>2 DEF SaidBy
      <4>3. ASSUME NEW m, IsMax(m, Details(h)),
                   current_states[n] = DetailState(read[m])
            PROVE  SaidBy(h, n)'
        <5>1. read'[m] = read[m]
          BY <2>2, <2>5, <4>3 DEF IsMax
        <5> QED
          BY <4>1, <4>3, <5>1 DEF SaidBy
      <4> QED
        BY <2>1, <4>2, <4>3 DEF SaidBy
    <3> QED
      BY <3>1, <3>2
  <2>7. IsMax(h, Headers(n))'
    BY <1>1, <2>1 DEF IsMax
  <2> QED
    BY <2>1, <2>3, <2>6, <2>7 DEF Stated
<1> QED
  BY <1>2, <1>3

LEMMA StatedAfterHeader ==
  ASSUME MdstatTypeOK, NEW line, Line(line), line.kind = "array",
         NEW n, line.name = n,
         current_raid' = n, n \in DOMAIN current_states',
         current_states'[n] = HeaderState(line)
  PROVE  Stated(n)'
<1>0. PICK last : last = Len(read) + 1
  OBVIOUS
<1>1. Headers(n)' = Headers(n) \cup {last}
  BY <1>0, HeadersGrow
<1>2. \A y \in Headers(n) : y <= last
  BY <1>0, LinesAreAfter, SMT
<1>3. last \in Int /\ read'[last] = line
  BY <1>0, LineGrows, SMT
<1>4. SectionOpen(last)' /\ Details(last)' = {}
  BY <1>0, SectionBegins
<1>5. IsMax(last, Headers(n)')
  BY <1>1, <1>2, <1>3, SMT DEF IsMax
<1> QED
  BY <1>3, <1>4, <1>5 DEF Stated, SaidBy


MdStates == [status : Statuses, state : BOOLEAN]

LEMMA MdStepHolds ==
  ASSUME MdInv, MdstatNext
  PROVE  MdInv'
<1>0. /\ MdstatTypeOK /\ pc = "reading" /\ \A n \in Configured : Stated(n)
      /\ current_states \in PartialMaps(Configured, MdStates)
      /\ DOMAIN current_states \subseteq Configured
  <2>1. MdstatTypeOK /\ pc = "reading"
    BY DEF MdInv, MdstatNext, ArrayLine, DetailLine, OtherLine, EndOfFile, Line
  <2>2. current_states \in PartialMaps(Configured, MdStates)
    BY <2>1 DEF MdstatTypeOK, MdStates
  <2> QED
    BY <2>1, <2>2, PartialMapsElim DEF MdInv
<1>1. ASSUME NEW line \in ArrayLines \cup DetailLines \cup OtherLines, Line(line),
             current_raid' \in Configured \cup {NoRaid},
             current_states' \in PartialMaps(Configured, MdStates),
             \A n \in Configured : Stated(n)'
      PROVE  MdInv'
  <2>1. read' \in Seq(ArrayLines \cup DetailLines \cup OtherLines) /\ pc' = "reading"
    BY <1>0, <1>1, SMT DEF MdstatTypeOK, Line
  <2> QED
    BY <1>1, <2>1 DEF MdInv, MdstatTypeOK, MdStates, StatesAreWhatIsSaid
<1>2. CASE ArrayLine
  <2>1. PICK line \in ArrayLines :
          /\ Line(line)
          /\ IF line.name \in Configured
               THEN /\ current_raid' = line.name
                    /\ current_states' =
                         Merge(current_states,
                               [n \in {line.name} |-> HeaderState(line)])
               ELSE /\ current_raid' = NoRaid
                    /\ UNCHANGED current_states
    BY <1>2 DEF ArrayLine
  <2>2. /\ line.kind = "array" /\ line.word \in {"active", "inactive"}
        /\ EndsSection(line) /\ ~IsDetail(line)
    BY SMT DEF ArrayLines, EndsSection, IsDetail
  <2>3. CASE line.name \in Configured
    <3> DEFINE header == [n \in {line.name} |-> HeaderState(line)]
    <3>1. current_raid' = line.name /\ current_states' = Merge(current_states, header)
      BY <2>1, <2>3
    <3>2. HeaderState(line) \in MdStates
      BY SMT DEF HeaderState, RaidState, Statuses, MdStates
    <3>3. header \in [{line.name} -> MdStates] /\ DOMAIN header = {line.name}
      BY <3>2
    <3>4. header \in PartialMaps(Configured, MdStates)
      BY <2>3, <3>3, PartialMapsIntro
    <3>5. current_states' \in PartialMaps(Configured, MdStates)
      BY <1>0, <3>1, <3>4, MergeType
    <3>6. /\ DOMAIN current_states' = DOMAIN current_states \cup {line.name}
          /\ current_states'[line.name] = HeaderState(line)
          /\ \A n \in DOMAIN current_states :
               n # line.name => current_states'[n] = current_states[n]
      BY <3>1 DEF Merge
    <3> HIDE DEF header
    <3>7. ASSUME NEW n \in Configured
          PROVE  Stated(n)'
      <4>1. CASE n = line.name
        BY <1>0, <2>1, <2>2, <3>1, <3>6, <4>1, StatedAfterHeader
      <4>2. CASE n # line.name
        BY <1>0, <2>1, <2>2, <3>1, <3>6, <4>2, StatedAfterNoHeader
      <4> QED
        BY <4>1, <4>2
    <3> QED
      BY <1>1, <2>1, <2>3, <3>1, <3>5, <3>7
  <2>4. CASE line.name \notin Configured
    <3>1. current_raid' = NoRaid /\ current_states' = current_states
      BY <2>1, <2>4
    <3>2. ASSUME NEW n \in Configured
          PROVE  Stated(n)'
      <4>1. n # line.name /\ n # NoRaid /\ Stated(n)
        BY <1>0, <2>4, MdstatAssumption
      <4> QED
        BY <1>0, <2>1, <2>2, <3>1, <4>1, StatedAfterNoHeader
    <3> QED
      BY <1>0, <1>1, <2>1, <3>1, <3>2
  <2> QED
    BY <2>3, <2>4
<1>3. CASE DetailLine
  <2>1. PICK line \in DetailLines :
          /\ Line(line)
          /\ current_states' =
               IF current_raid = NoRaid THEN current_states
               ELSE [current_states EXCEPT ![current_raid] = DetailState(line)]
          /\ current_raid' = current_raid
    BY <1>3 DEF DetailLine
  <2>2. IsDetail(line) /\ line.kind # "array" /\ ~EndsSection(line)
    BY SMT DEF DetailLines, EndsSection, IsDetail
  <2>3. DetailState(line) \in MdStates
    BY SMT DEF DetailState, RaidState, Statuses, MdStates
  <2>4. current_states' \in PartialMaps(Configured, MdStates)
        /\ DOMAIN current_states' = DOMAIN current_states
    <3>1. current_states \in [DOMAIN current_states -> MdStates]
      BY <1>0 DEF PartialMaps
    <3>2. current_states' \in [DOMAIN current_states -> MdStates]
      <4>1. ASSUME NEW D, NEW T, NEW f \in [D -> T], NEW x, NEW v \in T
            PROVE  [f EXCEPT ![x] = v] \in [D -> T]
        OBVIOUS
      <4> QED
        BY <2>1, <2>3, <3>1, <4>1
    <3> QED
      BY <1>0, <3>2, PartialMapsIntro
  <2>5. ASSUME NEW n \in Configured
        PROVE  Stated(n)'
    <3>1. Stated(n) /\ n # NoRaid
      BY <1>0, MdstatAssumption
    <3>2. n = current_raid => n \in DOMAIN current_states
      BY <3>1 DEF Stated
    <3>3. n = current_raid => current_states'[n] = DetailState(line)
      BY <2>1, <3>1, <3>2
    <3>4. n # current_raid /\ n \in DOMAIN current_states =>
            current_states'[n] = current_states[n]
      BY <2>1
    <3> QED
      BY <1>0, <2>1, <2>2, <2>4, <3>1, <3>3, <3>4, StatedAfterNoHeader
  <2>6. current_raid' \in Configured \cup {NoRaid}
    BY <1>0, <2>1 DEF MdstatTypeOK
  <2> QED
    BY <1>1, <2>1, <2>4, <2>5, <2>6
<1>4. CASE OtherLine
  <2>1. PICK line \in OtherLines :
          /\ Line(line)
          /\ current_raid' = IF line = Blank THEN NoRaid ELSE current_raid
          /\ current_states' = current_states
    BY <1>4 DEF OtherLine
  <2>2. ~IsDetail(line) /\ line.kind # "array" /\ (EndsSection(line) <=> line = Blank)
    BY SMT DEF OtherLines, Blank, EndsSection, IsDetail
  <2>3. ASSUME NEW n \in Configured
        PROVE  Stated(n)'
    <3>1. Stated(n) /\ n # NoRaid
      BY <1>0, MdstatAssumption
    <3> QED
      BY <1>0, <2>1, <2>2, <3>1, StatedAfterNoHeader
  <2>4. current_raid' \in Configured \cup {NoRaid}
    BY <1>0, <2>1 DEF MdstatTypeOK
  <2> QED
    BY <1>0, <1>1, <2>1, <2>3, <2>4, Zenon
<1>5. CASE EndOfFile
  <2> DEFINE inactive == [n \in Configured |-> RaidState("inactive", FALSE)]
  <2>1. /\ current_states' = Merge(inactive, current_states)
        /\ pc' = "done" /\ read' = read /\ current_raid' = current_raid
    BY <1>5 DEF EndOfFile
  <2>2. inactive \in PartialMaps(Configured, MdStates)
    <3>1. RaidState("inactive", FALSE) \in MdStates
      BY SMT DEF RaidState, Statuses, MdStates
    <3> QED
      BY <3>1, PartialMapsIntro
  <2>3. current_states' \in PartialMaps(Configured, MdStates)
    BY <1>0, <2>1, <2>2, MergeType
  <2>4. /\ DOMAIN current_states' = Configured
        /\ \A n \in Configured :
             current_states'[n] = IF n \in DOMAIN current_states THEN current_states[n]
                                  ELSE RaidState("inactive", FALSE)
    BY <1>0, <2>1 DEF Merge
  <2>5. MdstatTypeOK'
    BY <1>0, <2>1, <2>3 DEF MdstatTypeOK, MdStates
  <2>6. ASSUME NEW n \in Configured
        PROVE  current_states'[n] = Says(n)'
    <3>1. Says(n)' = Says(n)
      BY <2>1 DEF Says, Headers, Details
    <3> QED
      BY <1>0, <2>4, <3>1, SaidIsSaid, NotSaid
  <2> QED
    BY <2>1, <2>4, <2>5, <2>6 DEF MdInv, StatesAreWhatIsSaid
<1> QED
  BY <1>2, <1>3, <1>4, <1>5 DEF MdstatNext


-------------------------------------------------------------------------------
(***************************************************************************)
(* The calls together: the part that is called keeps its invariant, the    *)
(* others rest.                                                            *)
(***************************************************************************)
CallsInv == MdInv /\ RwInv /\ LicInv /\ DriverInv /\ AddrInv

LEMMA CallsInvShows ==
  CallsInv => /\ CallsTypeOK
              /\ NothingLeft /\ AnswerFits
              /\ ResultsWereHeld /\ StatesAreWhatIsSaid
              /\ SettingsAreTheLast /\ AddressesAreAll
BY LicLeavesNothing
   DEF CallsInv, CallsTypeOK, MdInv, RwInv, LicInv, DriverInv, AddrInv

LEMMA CallsInvStarts == CallsInit => CallsInv
BY MdStarts, RwStarts, LicStarts, DriverStarts, AddrStarts DEF CallsInit, CallsInv

LEMMA MdRests == MdInv /\ UNCHANGED mdstatVars => MdInv'
<1> SUFFICES ASSUME MdInv, UNCHANGED mdstatVars
             PROVE  MdInv'
  OBVIOUS
<1>1. UNCHANGED <<pc, read, current_raid, current_states>>
  BY DEF mdstatVars
<1>2. MdstatTypeOK'
  BY <1>1 DEF MdInv, MdstatTypeOK
<1>3. \A n : Stated(n)' <=> Stated(n)
  BY <1>1 DEF Stated, SaidBy, SectionOpen, Headers, Details
<1>4. \A n : Says(n)' = Says(n)
  BY <1>1 DEF Says, Headers, Details
<1> QED
  BY <1>1, <1>2, <1>3, <1>4 DEF MdInv, StatesAreWhatIsSaid

LEMMA ClientRests == RwInv /\ UNCHANGED readWriteVars => RwInv'
<1> SUFFICES ASSUME RwInv, UNCHANGED readWriteVars
             PROVE  RwInv'
  OBVIOUS
<1>1. UNCHANGED <<serverUp, session, nodes, missed, node_type, client_pc, allowed,
                  results, held>>
  BY DEF readWriteVars, opcVars, rwVars
<1>2. OpcReadWriteTypeOK'
  BY <1>1 DEF RwInv, OpcReadWriteTypeOK, OpcTypeOK
<1> QED
  BY <1>1, <1>2, RwRests

LEMMA LicRests == LicInv /\ UNCHANGED licVars => LicInv'
BY DEF LicInv, licVars, AVLicensingTypeOK, AnswerFits

LEMMA DriverRests == DriverInv /\ UNCHANGED driverVars => DriverInv'
<1> SUFFICES ASSUME DriverInv, UNCHANGED driverVars
             PROVE  DriverInv'
  OBVIOUS
<1>1. UNCHANGED <<devices, driver_pc, device, connection, modbus, addr, old_addr>>
  BY DEF driverVars
<1>2. AvDriverConfigTypeOK'
  BY <1>1 DEF DriverInv, AvDriverConfigTypeOK
<1>3. SettingsAreTheLast'
  BY <1>1, SettingsRest DEF DriverInv
<1> QED
  BY <1>1, <1>2, <1>3 DEF DriverInv

LEMMA AddrRests == AddrInv /\ UNCHANGED driverVars => AddrInv'
<1> SUFFICES ASSUME AddrInv, UNCHANGED driverVars
             PROVE  AddrInv'
  OBVIOUS
<1>1. UNCHANGED <<devices, driver_pc, device, connection, addr, old_addr>>
  BY DEF driverVars
<1>2. /\ Handled("ModbusTcpClient")' = Handled("ModbusTcpClient")
      /\ Connections' = Connections /\ \A i : LookedAt(i)' = LookedAt(i)
  BY <1>1 DEF Handled, Connections, LookedAt
<1>3. Places' = Places
  BY <1>1, <1>2 DEF Places
<1>4. AddressesAreAll'
  BY <1>1, <1>3, AddressesRest DEF AddrInv
<1> QED
  BY <1>1, <1>2, <1>3, <1>4 DEF AddrInv

LEMMA CallsStepHolds == CallsInv /\ [CallsNext]_callsVars => CallsInv'
<1> SUFFICES ASSUME CallsInv, [CallsNext]_callsVars
             PROVE  CallsInv'
  OBVIOUS
<1>0. MdInv /\ RwInv /\ LicInv /\ DriverInv /\ AddrInv
  BY DEF CallsInv
<1>1. CASE MdstatCall
  <2>1. MdInv'
    BY <1>0, <1>1, MdStepHolds DEF MdstatCall
  <2> QED
    BY <1>0, <1>1, <2>1, ClientRests, LicRests, DriverRests, AddrRests DEF MdstatCall, CallsInv
<1>2. CASE ClientCall
  <2>1. RwInv'
    BY <1>0, <1>2, RwStepHolds DEF ClientCall
  <2> QED
    BY <1>0, <1>2, <2>1, MdRests, LicRests, DriverRests, AddrRests DEF ClientCall, CallsInv
<1>3. CASE LicensingCall
  <2>1. LicInv'
    BY <1>0, <1>3, LicStepHolds DEF LicensingCall
  <2> QED
    BY <1>0, <1>3, <2>1, MdRests, ClientRests, DriverRests, AddrRests
       DEF LicensingCall, CallsInv
<1>4. CASE DriverCall
  <2>1. DriverInv' /\ AddrInv'
    BY <1>0, <1>4, DriverStepHolds, AddrStepHolds DEF DriverCall
  <2> QED
    BY <1>0, <1>4, <2>1, MdRests, ClientRests, LicRests DEF DriverCall, CallsInv
<1>5. CASE UNCHANGED callsVars
  BY <1>0, <1>5, MdRests, ClientRests, LicRests, DriverRests, AddrRests
     DEF callsVars, CallsInv
<1> QED
  BY <1>1, <1>2, <1>3, <1>4, <1>5 DEF CallsNext

LEMMA CallsInvAlways == CallsSpec => []CallsInv
BY CallsInvStarts, CallsStepHolds, PTL DEF CallsSpec

(***************************************************************************)
(* The four parts keep to their types, in every order of their steps.      *)
(***************************************************************************)
THEOREM CallsTypeCorrect == CallsSpec => []CallsTypeOK
BY CallsInvAlways, CallsInvShows, PTL

(***************************************************************************)
(* Each configured array gets the state /proc/mdstat says, for files of    *)
(* any length and any number of arrays.                                    *)
(***************************************************************************)
THEOREM MdstatCorrect == CallsSpec => []StatesAreWhatIsSaid
BY CallsInvAlways, CallsInvShows, PTL

(***************************************************************************)
(* What Read of OpcUaClient gives its caller was held by the node, in the  *)
(* width of its type.                                                      *)
(***************************************************************************)
THEOREM ReadCorrect == CallsSpec => []ResultsWereHeld
BY CallsInvAlways, CallsInvShows, PTL

(***************************************************************************)
(* No method of AVLicensing leaves a login or, but for ShowProducts, a     *)
(* buffer, wherever it returns and whatever the dongle does.               *)
(***************************************************************************)
THEOREM LicenceReleased == CallsSpec => []NothingLeft
BY CallsInvAlways, CallsInvShows, PTL

(***************************************************************************)
(* What Checker answers fits a dongle that does not change meanwhile.      *)
(***************************************************************************)
THEOREM LicenceAnswers == CallsSpec => []AnswerFits
BY CallsInvAlways, CallsInvShows, PTL

(***************************************************************************)
(* The settings of ReadConfig are at any time those of the last Modbus     *)
(* device handled, made to fit, for every AvDriver.xml.                    *)
(***************************************************************************)
THEOREM SettingsCorrect == CallsSpec => []SettingsAreTheLast
BY CallsInvAlways, CallsInvShows, PTL

(***************************************************************************)
(* The addresses ReadConfig leaves are those of all connections it looked  *)
(* at, in their order, behind the ones it found, for every AvDriver.xml.   *)
(***************************************************************************)
THEOREM AddressesCorrect == CallsSpec => []AddressesAreAll
BY CallsInvAlways, CallsInvShows, PTL
===============================================================================
