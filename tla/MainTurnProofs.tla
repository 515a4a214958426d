---------------------------- MODULE MainTurnProofs -----------------------------
(***************************************************************************)
(* The CPU, disk, RAM and RAID channels, first each of them with the       *)
(* server for any CPUs, disks, fields and arrays, then the four of them in *)
(* the turn of the main loop, with one client between them.                *)
(***************************************************************************)
EXTENDS MainTurn, OpcUaClientProofs

-------------------------------------------------------------------------------
(***************************************************************************)
(* The CPU channel: type correctness, and that between two cycles the      *)
(* server shows usages within the threshold of the sampled ones.           *)
(***************************************************************************)

USE DEF Configured

LEMMA CpuConfigsNodes ==
  ASSUME NEW usages, DOMAIN usages \subseteq Configured
  PROVE  /\ \A x \in CpuConfigs(usages) : x.node_id \in NodeIds
         /\ OneConfigPerNode(CpuConfigs(usages))
         /\ NodesOf(CpuConfigs(usages)) = {CpuNode[c] : c \in DOMAIN usages}
<1>1. \A c \in DOMAIN usages :
        CpuConfig(c, usages[c]).node_id = CpuNode[c] /\ CpuNode[c] \in NodeIds
  BY CpuAssumption DEF CpuConfig, WriteConfig
<1>2. OneConfigPerNode(CpuConfigs(usages))
  <2> SUFFICES ASSUME NEW x \in CpuConfigs(usages), NEW y \in CpuConfigs(usages),
                      x.node_id = y.node_id
               PROVE  x = y
    BY DEF OneConfigPerNode
  <2>1. PICK c \in DOMAIN usages : x = CpuConfig(c, usages[c])
    BY DEF CpuConfigs
  <2>2. PICK d \in DOMAIN usages : y = CpuConfig(d, usages[d])
    BY DEF CpuConfigs
  <2>3. c = d
    BY <1>1, <2>1, <2>2, CpuAssumption
  <2> QED
    BY <2>1, <2>2, <2>3
<1>3. NodesOf(CpuConfigs(usages)) = {CpuNode[c] : c \in DOMAIN usages}
  BY <1>1 DEF NodesOf, CpuConfigs
<1> QED
  BY <1>1, <1>2, <1>3 DEF CpuConfigs

-------------------------------------------------------------------------------
LEMMA CpuInitType == CpuInit => CpuTypeOK
<1> SUFFICES ASSUME CpuInit PROVE CpuTypeOK
  OBVIOUS
<1>1. EmptyMap \in PartialMaps(Cpus, Usages)
  BY EmptyMapType
<1>2. EmptyMap \in PartialMaps(Configured, Usages)
  BY EmptyMapType
<1>3. online \subseteq Cpus
  BY DEF CpuInit
<1>4. OpcTypeOK
  BY DEF CpuInit, OpcInit, OpcTypeOK
<1> QED
  BY <1>1, <1>2, <1>3, <1>4 DEF CpuInit, CpuTypeOK

LEMMA CpuNextType == CpuTypeOK /\ [CpuNext]_vars => CpuTypeOK'
<1> SUFFICES ASSUME CpuTypeOK, [CpuNext]_vars PROVE CpuTypeOK'
  OBVIOUS
<1> USE DEF CpuTypeOK
<1>1. CASE CollectUnloaded
  BY <1>1, EmptyMapType DEF CollectUnloaded, OpcTypeOK, opcVars
<1>2. CASE ReadFirst
  BY <1>2, EmptyMapType DEF ReadFirst, OpcTypeOK, opcVars
<1>3. CASE ReadSecond
  <2>1. PICK usage \in [t1 \cap online -> Usages],
             any \in [{i \in Lines : OnLine(i) = {}} -> Usages] :
          /\ sample' = usage
          /\ current_usages' =
               [i \in Lines |->
                  IF OnLine(i) = {} THEN any[i]
                  ELSE usage[CHOOSE c \in OnLine(i) : TRUE]]
    BY <1>3 DEF ReadSecond
  <2>2. sample' \in PartialMaps(Cpus, Usages)
    BY <2>1, PartialMapsIntro
  <2>3. \A i \in Lines :
          OnLine(i) # {} => (CHOOSE c \in OnLine(i) : TRUE) \in t1 \cap online
    BY DEF OnLine
  <2>4. current_usages' \in [Lines -> Usages]
    BY <2>1, <2>3
  <2>5. current_usages' \in PartialMaps(Configured, Usages)
    BY <2>4, PartialMapsIntro DEF Lines
  <2> QED
    BY <1>3, <2>2, <2>5 DEF ReadSecond, OpcTypeOK, opcVars
<1>4. CASE KeepSilent
  BY <1>4 DEF KeepSilent, OpcTypeOK, opcVars
<1>5. CASE Send
  <2>1. OpcTypeOK'
    BY <1>5, CpuConfigsNodes, PartialMapsElim, WriteType DEF Send
  <2> QED
    BY <1>5, <2>1 DEF Send
<1>6. CASE HotplugStep
  BY <1>6 DEF HotplugStep, OpcTypeOK, opcVars
<1>7. CASE Environment
  BY <1>7, ServerStepType DEF Environment, cpuVars
<1>8. CASE UNCHANGED vars
  BY <1>8 DEF vars, cpuVars, opcVars, OpcTypeOK
<1> QED
  BY <1>1, <1>2, <1>3, <1>4, <1>5, <1>6, <1>7, <1>8 DEF CpuNext, Cycle

(***************************************************************************)
(* Type correctness of the channel with its client and server.             *)
(***************************************************************************)
THEOREM CpuTypeCorrect == CpuSpec => []CpuTypeOK
BY CpuInitType, CpuNextType, PTL DEF CpuSpec

-------------------------------------------------------------------------------
(***************************************************************************)
(* The inductive invariant: what the cache says is what the nodes not      *)
(* missed hold, and a finished cycle leaves the cache within the threshold *)
(* of the sample.                                                          *)
(***************************************************************************)
CacheIsShown ==
  \A c \in DOMAIN last_sent_cpu_usages :
    CpuNode[c] \notin missed =>
      nodes[CpuNode[c]] = Wire(CpuConfig(c, last_sent_cpu_usages[c]))

CacheIsCurrent ==
  pc = "collect" =>
    \A c \in DOMAIN current_usages :
      /\ c \in DOMAIN last_sent_cpu_usages
      /\ \/ Near(last_sent_cpu_usages[c], current_usages[c])
         \/ Overflows(last_sent_cpu_usages[c], current_usages[c])

CpuInv == CpuTypeOK /\ CacheIsShown /\ CacheIsCurrent

LEMMA CpuInitInv == CpuInit => CpuInv
BY CpuInitType DEF CpuInit, CpuInv, CacheIsShown, CacheIsCurrent, EmptyMap

LEMMA SendShows ==
  ASSUME CpuTypeOK, Send
  PROVE  CacheIsShown'
<1> SUFFICES ASSUME NEW c \in DOMAIN current_usages, CpuNode[c] \notin missed'
             PROVE  nodes'[CpuNode[c]] = Wire(CpuConfig(c, current_usages[c]))
  BY DEF CacheIsShown, Send, CpuConfig, Wire, WriteConfig
<1> DEFINE cfg == CpuConfig(c, current_usages[c])
<1>1. DOMAIN current_usages \subseteq Configured
  BY PartialMapsElim DEF CpuTypeOK
<1>2. cfg \in CpuConfigs(current_usages) /\ cfg.node_id = CpuNode[c]
  BY DEF CpuConfigs, CpuConfig, WriteConfig
<1> QED
  BY <1>1, <1>2, CpuConfigsNodes, WriteHands, CpuAssumption DEF Send

LEMMA SendIsCurrent ==
  ASSUME CpuTypeOK, Send
  PROVE  CacheIsCurrent'
<1> SUFFICES ASSUME NEW c \in DOMAIN current_usages
             PROVE  Near(current_usages[c], current_usages[c])
  BY DEF CacheIsCurrent, Send, Near, IsNear
<1>1. current_usages[c] \in Usages
  BY PartialMapsElim DEF CpuTypeOK
<1>2. current_usages[c] \in Int
  BY <1>1, CpuAssumption
<1> QED
  BY <1>2 DEF Near, IsNear, threshold

LEMMA KeepSilentIsCurrent ==
  ASSUME CpuTypeOK, KeepSilent
  PROVE  CacheIsCurrent'
<1>1. CASE ~SurelyChanged
  <2>1. ASSUME NEW c \in DOMAIN current_usages
        PROVE  ~Moved(c)
    BY <1>1 DEF SurelyChanged
  <2> QED
    BY <2>1 DEF CacheIsCurrent, KeepSilent, Moved, Near, IsNear, Overflows, FarAbove
<1>2. CASE CpuConfigs(current_usages) = {}
  BY <1>2 DEF CacheIsCurrent, KeepSilent, CpuConfigs
<1> QED
  BY <1>1, <1>2 DEF KeepSilent

LEMMA CpuNextInv == CpuInv /\ [CpuNext]_vars => CpuInv'
<1> SUFFICES ASSUME CpuInv, [CpuNext]_vars PROVE CpuInv'
  OBVIOUS
<1> USE DEF CpuInv
<1>1. CpuTypeOK'
  BY CpuNextType
<1>2. CASE CollectUnloaded
  BY <1>1, <1>2 DEF CollectUnloaded, CacheIsShown, CacheIsCurrent, opcVars
<1>3. CASE ReadFirst
  BY <1>1, <1>3 DEF ReadFirst, CacheIsShown, CacheIsCurrent, opcVars
<1>4. CASE ReadSecond
  BY <1>1, <1>4 DEF ReadSecond, CacheIsShown, CacheIsCurrent, opcVars
<1>5. CASE KeepSilent
  BY <1>1, <1>5, KeepSilentIsCurrent DEF KeepSilent, CacheIsShown, opcVars
<1>6. CASE Send
  BY <1>1, <1>6, SendShows, SendIsCurrent
<1>7. CASE HotplugStep
  BY <1>1, <1>7 DEF HotplugStep, CacheIsShown, CacheIsCurrent, opcVars
<1>8. CASE Environment
  <2>1. CacheIsCurrent'
    BY <1>8 DEF Environment, cpuVars, CacheIsCurrent
  <2>2. \A c \in DOMAIN last_sent_cpu_usages : CpuNode[c] \in NodeIds
    BY PartialMapsElim, CpuAssumption DEF CpuTypeOK
  <2>3. CacheIsShown'
    BY <1>8, <2>2, ServerStepKeeps DEF Environment, cpuVars, CacheIsShown
  <2> QED
    BY <1>1, <2>1, <2>3
<1>9. CASE UNCHANGED vars
  BY <1>1, <1>9 DEF vars, cpuVars, opcVars, CacheIsShown, CacheIsCurrent
<1> QED
  BY <1>2, <1>3, <1>4, <1>5, <1>6, <1>7, <1>8, <1>9 DEF CpuNext, Cycle

LEMMA CpuInvShows == CpuInv => ShownIsCurrent
<1> SUFFICES ASSUME CpuInv, pc = "collect", NEW c \in DOMAIN current_usages,
                    CpuNode[c] \notin missed
             PROVE  StandsFor(c, current_usages[c])
  BY DEF ShownIsCurrent
<1>1. c \in DOMAIN last_sent_cpu_usages
  BY DEF CpuInv, CacheIsCurrent
<1>2. last_sent_cpu_usages[c] \in Usages
  BY <1>1, PartialMapsElim DEF CpuInv, CpuTypeOK
<1>3. nodes[CpuNode[c]] = Wire(CpuConfig(c, last_sent_cpu_usages[c]))
  BY <1>1 DEF CpuInv, CacheIsShown
<1>4. \/ Near(last_sent_cpu_usages[c], current_usages[c])
      \/ Overflows(last_sent_cpu_usages[c], current_usages[c])
  BY DEF CpuInv, CacheIsCurrent
<1> QED
  BY <1>2, <1>3, <1>4 DEF StandsFor

(***************************************************************************)
(* Between two cycles the server shows, in the form the type has, a usage  *)
(* within the threshold of the sampled one, or one from which it cannot be *)
(* subtracted, in every node whose last value it did not miss; for any     *)
(* ints the counters may give.                                             *)
(***************************************************************************)
THEOREM CpuShown == CpuSpec => []ShownIsCurrent
BY CpuInitInv, CpuNextInv, CpuInvShows, PTL DEF CpuSpec

HIDE DEF Configured

-------------------------------------------------------------------------------
(***************************************************************************)
(* The disk channel: type correctness, and that an amount and the units    *)
(* beside it are never torn apart.                                         *)
(***************************************************************************)

(***************************************************************************)
(* The nodes one DiskConfig is handed over to are those of its disk, and   *)
(* get one config each.                                                    *)
(***************************************************************************)
LEMMA ConfigsOfNodes ==
  ASSUME NEW d \in Disks, NEW entry \in DiskEntries(d), NEW bytes
  PROVE  /\ \A c \in ConfigsOf(entry, bytes) :
              /\ c.node_id \in NodeIds
              /\ c.node_id \in AmountNodes[d] \cup UnitsNodes[d]
         /\ OneConfigPerNode(ConfigsOf(entry, bytes))
<1>1. /\ AmountConfig(entry, bytes).node_id = entry.node
      /\ UnitsConfig(entry).node_id = entry.units_node
  BY DEF AmountConfig, UnitsConfig, WriteConfig
<1>2. /\ entry.node \in AmountNodes[d] \cup {NoNode}
      /\ entry.units_node \in UnitsNodes[d] \cup {NoNode}
  BY DEF DiskEntries
<1>3. /\ AmountNodes[d] \subseteq NodeIds /\ UnitsNodes[d] \subseteq NodeIds
      /\ AmountNodes[d] \cap UnitsNodes[d] = {}
  BY DiskAssumption
<1> QED
  BY <1>1, <1>2, <1>3 DEF ConfigsOf, OneConfigPerNode

(***************************************************************************)
(* The batch holds the configs of the disks that changed, and no other.    *)
(***************************************************************************)
LEMMA DiskConfigsNodes ==
  ASSUME EntriesFit(disk_configs), changed_disks \subseteq DOMAIN disk_configs
  PROVE  /\ \A c \in DiskConfigs : c.node_id \in NodeIds
         /\ \A c \in DiskConfigs :
              \E d \in changed_disks :
                /\ d \in Disks
                /\ c \in ConfigsOf(disk_configs[d], current_data[d])
                /\ c.node_id \in AmountNodes[d] \cup UnitsNodes[d]
         /\ OneConfigPerNode(DiskConfigs)
<1>1. \A d \in changed_disks : d \in Disks /\ disk_configs[d] \in DiskEntries(d)
  BY DEF EntriesFit
<1>2. ASSUME NEW c \in DiskConfigs
      PROVE  \E d \in changed_disks :
                /\ d \in Disks
                /\ c \in ConfigsOf(disk_configs[d], current_data[d])
                /\ c.node_id \in NodeIds
                /\ c.node_id \in AmountNodes[d] \cup UnitsNodes[d]
  <2>1. PICK d \in changed_disks : c \in ConfigsOf(disk_configs[d], current_data[d])
    BY DEF DiskConfigs
  <2> QED
    BY <1>1, <2>1, ConfigsOfNodes
<1>3. OneConfigPerNode(DiskConfigs)
  <2> SUFFICES ASSUME NEW x \in DiskConfigs, NEW y \in DiskConfigs,
                      x.node_id = y.node_id
               PROVE  x = y
    BY DEF OneConfigPerNode
  <2>1. PICK d \in changed_disks :
          /\ d \in Disks
          /\ x \in ConfigsOf(disk_configs[d], current_data[d])
          /\ x.node_id \in AmountNodes[d] \cup UnitsNodes[d]
    BY <1>2
  <2>2. PICK e \in changed_disks :
          /\ e \in Disks
          /\ y \in ConfigsOf(disk_configs[e], current_data[e])
          /\ y.node_id \in AmountNodes[e] \cup UnitsNodes[e]
    BY <1>2
  <2>3. d = e
    BY <2>1, <2>2, DiskAssumption
  <2>4. OneConfigPerNode(ConfigsOf(disk_configs[d], current_data[d]))
    BY <1>1, <2>1, ConfigsOfNodes
  <2> QED
    BY <2>1, <2>2, <2>3, <2>4 DEF OneConfigPerNode
<1> QED
  BY <1>2, <1>3

LEMMA SparedDisk ==
  ASSUME EntriesFit(disk_configs), changed_disks \subseteq DOMAIN disk_configs,
         NEW d \in Disks \ changed_disks, NEW n \in AmountNodes[d] \cup UnitsNodes[d]
  PROVE  n \notin NodesOf(DiskConfigs)
<1> SUFFICES ASSUME NEW c \in DiskConfigs, c.node_id = n PROVE FALSE
  BY DEF NodesOf
<1>1. PICK e \in changed_disks :
        e \in Disks /\ c.node_id \in AmountNodes[e] \cup UnitsNodes[e]
  BY DiskConfigsNodes
<1> QED
  BY <1>1, DiskAssumption

(***************************************************************************)
(* DiskConfigs by disk.                                                    *)
(***************************************************************************)
LEMMA MergeFits ==
  ASSUME NEW f, NEW g, EntriesFit(f), EntriesFit(g)
  PROVE  EntriesFit(Merge(f, g))
BY DEF EntriesFit, Merge

LEMMA OnFits ==
  ASSUME NEW f, EntriesFit(f), NEW S
  PROVE  EntriesFit(On(f, S))
BY DEF EntriesFit, On

LEMMA EmptyFits == EntriesFit(EmptyMap)
BY DEF EntriesFit, EmptyMap

-------------------------------------------------------------------------------
(***************************************************************************)
(* The inductive invariant.  The cache is ahead of the server while the    *)
(* disks that changed wait to be handed over; the nodes of every other     *)
(* disk show the cached amount as the DiskConfig it was handed over with   *)
(* has it.  An edit of that DiskConfig alone sends nothing, which is why   *)
(* it is not the one of disk_configs.                                      *)
(***************************************************************************)
DiskTypes ==
  /\ OpcTypeOK
  /\ disk_pc \in {"collect", "detect", "send"}
  /\ EntriesFit(disk_configs)
  /\ current_data \in PartialMaps(DOMAIN disk_configs, Bytes)
  /\ changed_disks \subseteq DOMAIN current_data
  /\ last_sent_disk_usage \in PartialMaps(DOMAIN disk_configs, Bytes)
  /\ EntriesFit(handed_disks)

HandedIsCached ==
  DOMAIN handed_disks \cup changed_disks = DOMAIN last_sent_disk_usage

DiskCacheIsShown ==
  \A d \in DOMAIN last_sent_disk_usage \ changed_disks :
    \A c \in ConfigsOf(handed_disks[d], last_sent_disk_usage[d]) :
      c.node_id \notin missed => nodes[c.node_id] = Wire(c)

DiskCacheIsCurrent ==
  disk_pc \in {"collect", "send"} =>
    \A d \in DOMAIN current_data :
      /\ d \in DOMAIN last_sent_disk_usage
      /\ last_sent_disk_usage[d] = current_data[d]

DisksWaitToBeSent == changed_disks # {} => disk_pc = "send"

DiskInv ==
  /\ DiskTypes
  /\ HandedIsCached
  /\ DiskCacheIsShown
  /\ DiskCacheIsCurrent
  /\ DisksWaitToBeSent

LEMMA DiskInvType == DiskInv => OpcTypeOK /\ DiskTypeOK
BY DEF DiskInv, DiskTypes, DiskTypeOK, HandedIsCached, DisksWaitToBeSent

LEMMA DiskInitInv == OpcInit /\ DiskInit => DiskInv
<1> SUFFICES ASSUME OpcInit, DiskInit PROVE DiskInv
  OBVIOUS
<1>1. DiskTypes
  BY EmptyFits, EmptyMapType DEF OpcInit, DiskInit, DiskTypes, OpcTypeOK
<1> QED
  BY <1>1
     DEF DiskInit, DiskInv, HandedIsCached, DiskCacheIsShown, DiskCacheIsCurrent,
         DisksWaitToBeSent, EmptyMap

(***************************************************************************)
(* What the types say of the disks that changed.                           *)
(***************************************************************************)
LEMMA ChangedDisks ==
  ASSUME DiskTypes
  PROVE  changed_disks \subseteq DOMAIN disk_configs
BY PartialMapsElim DEF DiskTypes

LEMMA CollectDiskType ==
  ASSUME DiskTypes, collect_disk_usage, changed_disks = {}
  PROVE  DiskTypes'
<1>1. PICK file \in DiskEditions \cup {EmptyMap} : disk_configs' = Loaded(file)
  BY DEF collect_disk_usage
<1>2. EntriesFit(file)
  BY EmptyFits, DiskAssumption
<1>3. EntriesFit(disk_configs')
  BY <1>1, <1>2, MergeFits DEF DiskTypes, Loaded
<1>4. DOMAIN disk_configs \subseteq DOMAIN disk_configs'
  BY <1>1 DEF Loaded, Merge
<1>5. last_sent_disk_usage \in PartialMaps(DOMAIN disk_configs', Bytes)
  BY <1>4, PartialMapsWiden DEF DiskTypes
<1> QED
  BY <1>3, <1>5
     DEF collect_disk_usage, DiskTypes, EntriesFit, OpcTypeOK, opcVars

LEMMA FindChangedType ==
  ASSUME DiskTypes, find_changed_disks
  PROVE  DiskTypes'
<1>1. On(current_data, changed_disks') \in PartialMaps(DOMAIN disk_configs, Bytes)
  BY OnType DEF DiskTypes
<1>2. last_sent_disk_usage' \in PartialMaps(DOMAIN disk_configs, Bytes)
  BY <1>1, MergeType DEF DiskTypes, find_changed_disks
<1> QED
  BY <1>2 DEF find_changed_disks, DiskTypes, EntriesFit, OpcTypeOK, opcVars

LEMMA SendDisksType ==
  ASSUME DiskTypes, send_full_disk_metrics \/ DisksKept
  PROVE  DiskTypes'
<1>1. OpcTypeOK'
  <2>1. CASE send_full_disk_metrics
    <3>1. \A c \in DiskConfigs : c.node_id \in NodeIds
      BY ChangedDisks, DiskConfigsNodes DEF DiskTypes
    <3> QED
      BY <2>1, <3>1, WriteType DEF send_full_disk_metrics, DiskTypes
  <2>2. CASE DisksKept
    BY <2>2 DEF DisksKept, DiskTypes, OpcTypeOK, opcVars
  <2> QED
    BY <2>1, <2>2
<1>2. EntriesFit(handed_disks')
  <2>1. EntriesFit(On(disk_configs, changed_disks))
    BY OnFits DEF DiskTypes
  <2>2. EntriesFit(Handed)
    BY <2>1, MergeFits DEF DiskTypes, Handed
  <2> QED
    BY <2>2 DEF send_full_disk_metrics, DisksKept
<1> QED
  BY <1>1, <1>2 DEF send_full_disk_metrics, DisksKept, DiskTypes, EntriesFit

LEMMA CollectDiskInv ==
  ASSUME DiskInv, collect_disk_usage
  PROVE  DiskInv'
<1>1. changed_disks = {}
  BY DEF DiskInv, DisksWaitToBeSent, collect_disk_usage
<1>2. DiskTypes'
  BY <1>1, CollectDiskType DEF DiskInv
<1> QED
  BY <1>1, <1>2
     DEF DiskInv, collect_disk_usage, HandedIsCached, DiskCacheIsShown,
         DiskCacheIsCurrent, DisksWaitToBeSent, opcVars

LEMMA FindChangedInv ==
  ASSUME DiskInv, find_changed_disks
  PROVE  DiskInv'
<1>1. DiskTypes'
  BY FindChangedType DEF DiskInv
<1>2. changed_disks = {} /\ changed_disks' \subseteq DOMAIN current_data
  BY DEF DiskInv, DisksWaitToBeSent, find_changed_disks
<1>3. /\ DOMAIN last_sent_disk_usage' = DOMAIN last_sent_disk_usage \cup changed_disks'
      /\ \A d \in changed_disks' : last_sent_disk_usage'[d] = current_data[d]
      /\ \A d \in DOMAIN last_sent_disk_usage \ changed_disks' :
           last_sent_disk_usage'[d] = last_sent_disk_usage[d]
  BY <1>2 DEF find_changed_disks, Merge, On
<1>4. HandedIsCached'
  BY <1>2, <1>3 DEF DiskInv, HandedIsCached, find_changed_disks
<1>5. DiskCacheIsShown'
  <2> SUFFICES ASSUME NEW d \in DOMAIN last_sent_disk_usage' \ changed_disks',
                      NEW c \in ConfigsOf(handed_disks[d], last_sent_disk_usage[d]),
                      c.node_id \notin missed
               PROVE  nodes[c.node_id] = Wire(c)
    BY <1>3 DEF DiskCacheIsShown, find_changed_disks, opcVars
  <2> QED
    BY <1>2, <1>3 DEF DiskInv, DiskCacheIsShown
<1>6. DiskCacheIsCurrent'
  <2> SUFFICES ASSUME NEW d \in DOMAIN current_data
               PROVE  /\ d \in DOMAIN last_sent_disk_usage'
                      /\ last_sent_disk_usage'[d] = current_data[d]
    BY DEF DiskCacheIsCurrent, find_changed_disks
  <2>1. CASE d \in changed_disks'
    BY <1>3, <2>1
  <2>2. CASE d \notin changed_disks'
    BY <1>3, <2>2 DEF find_changed_disks, has_disk_changed
  <2> QED
    BY <2>1, <2>2
<1>7. DisksWaitToBeSent'
  BY DEF DisksWaitToBeSent, find_changed_disks
<1> QED
  BY <1>1, <1>4, <1>5, <1>6, <1>7 DEF DiskInv

(***************************************************************************)
(* What the last step of a cycle leaves: in the nodes of a changed disk    *)
(* its amount as its DiskConfig has it, in those of another what was       *)
(* there.                                                                  *)
(***************************************************************************)
LEMMA SentDiskFits ==
  ASSUME DiskTypes, send_full_disk_metrics \/ DisksKept, NEW d \in changed_disks,
         NEW c \in ConfigsOf(disk_configs[d], current_data[d]),
         c.node_id \notin missed'
  PROVE  nodes'[c.node_id] = Wire(c)
<1>1. c \in DiskConfigs
  BY DEF DiskConfigs
<1>2. send_full_disk_metrics
  BY <1>1 DEF DisksKept
<1>3. c.node_id \in NodeIds /\ OneConfigPerNode(DiskConfigs)
  BY <1>1, ChangedDisks, DiskConfigsNodes DEF DiskTypes
<1> QED
  BY <1>1, <1>2, <1>3, WriteHands DEF send_full_disk_metrics

LEMMA KeptDiskFits ==
  ASSUME DiskTypes, send_full_disk_metrics \/ DisksKept,
         NEW d \in Disks \ changed_disks, NEW n \in AmountNodes[d] \cup UnitsNodes[d]
  PROVE  nodes'[n] = nodes[n] /\ (n \in missed' <=> n \in missed)
<1>1. CASE send_full_disk_metrics
  <2>1. n \in NodeIds
    BY DiskAssumption
  <2>2. n \notin NodesOf(DiskConfigs)
    BY ChangedDisks, SparedDisk DEF DiskTypes
  <2>3. DOMAIN nodes = NodeIds /\ Write(DiskConfigs)
    BY <1>1 DEF send_full_disk_metrics, DiskTypes, OpcTypeOK
  <2> QED
    BY <2>1, <2>2, <2>3, WriteKeeps
<1>2. CASE DisksKept
  BY <1>2 DEF DisksKept, opcVars
<1> QED
  BY <1>1, <1>2

LEMMA SendDisksInv ==
  ASSUME DiskInv, send_full_disk_metrics \/ DisksKept
  PROVE  DiskInv'
<1>1. DiskTypes /\ DiskTypes'
  BY SendDisksType DEF DiskInv
<1>2. changed_disks \subseteq DOMAIN disk_configs
  BY <1>1, ChangedDisks
<1>3. /\ handed_disks' = Handed /\ changed_disks' = {}
      /\ UNCHANGED <<disk_configs, current_data, last_sent_disk_usage>>
      /\ disk_pc = "send" /\ disk_pc' = "collect"
  BY DEF send_full_disk_metrics, DisksKept
<1>4. /\ DOMAIN Handed = DOMAIN handed_disks \cup changed_disks
      /\ \A d \in changed_disks : Handed[d] = disk_configs[d]
      /\ \A d \in DOMAIN handed_disks \ changed_disks : Handed[d] = handed_disks[d]
  BY <1>2 DEF Handed, Merge, On
<1>5. HandedIsCached'
  BY <1>3, <1>4 DEF DiskInv, HandedIsCached
<1>6. DiskCacheIsShown'
  <2> SUFFICES ASSUME NEW d \in DOMAIN last_sent_disk_usage,
                      NEW c \in ConfigsOf(Handed[d], last_sent_disk_usage[d]),
                      c.node_id \notin missed'
               PROVE  nodes'[c.node_id] = Wire(c)
    BY <1>3 DEF DiskCacheIsShown
  <2>1. CASE d \in changed_disks
    <3>1. last_sent_disk_usage[d] = current_data[d]
      BY <1>1, <1>3, <2>1 DEF DiskInv, DiskTypes, DiskCacheIsCurrent
    <3> QED
      BY <1>1, <1>4, <2>1, <3>1, SentDiskFits
  <2>2. CASE d \notin changed_disks
    <3>1. d \in DOMAIN handed_disks
      BY <2>2 DEF DiskInv, HandedIsCached
    <3>2. d \in Disks /\ handed_disks[d] \in DiskEntries(d)
      BY <1>1, <3>1 DEF DiskTypes, EntriesFit
    <3>3. c \in ConfigsOf(handed_disks[d], last_sent_disk_usage[d])
      BY <1>4, <2>2, <3>1
    <3>4. c.node_id \in AmountNodes[d] \cup UnitsNodes[d]
      BY <3>2, <3>3, ConfigsOfNodes
    <3>5. /\ nodes'[c.node_id] = nodes[c.node_id]
          /\ c.node_id \notin missed
      BY <1>1, <2>2, <3>2, <3>4, KeptDiskFits
    <3> QED
      BY <2>2, <3>3, <3>5 DEF DiskInv, DiskCacheIsShown
  <2> QED
    BY <2>1, <2>2
<1>7. DiskCacheIsCurrent' /\ DisksWaitToBeSent'
  BY <1>3 DEF DiskInv, DiskCacheIsCurrent, DisksWaitToBeSent
<1> QED
  BY <1>1, <1>5, <1>6, <1>7 DEF DiskInv

(***************************************************************************)
(* What keeps the nodes of the disks keeps the invariant.                  *)
(***************************************************************************)
LEMMA HandedNodes ==
  ASSUME DiskInv, NEW d \in DOMAIN last_sent_disk_usage \ changed_disks,
         NEW c \in ConfigsOf(handed_disks[d], last_sent_disk_usage[d])
  PROVE  /\ d \in Disks
         /\ c.node_id \in NodeIds
         /\ c.node_id \in AmountNodes[d] \cup UnitsNodes[d]
<1>1. d \in DOMAIN handed_disks
  BY DEF DiskInv, HandedIsCached
<1>2. d \in Disks /\ handed_disks[d] \in DiskEntries(d)
  BY <1>1 DEF DiskInv, DiskTypes, EntriesFit
<1> QED
  BY <1>2, ConfigsOfNodes

LEMMA ServerKeepsDisks ==
  ASSUME DiskInv, ServerStep, UNCHANGED diskVars
  PROVE  DiskInv'
<1>1. DiskTypes'
  BY ServerStepType DEF DiskInv, DiskTypes, EntriesFit, diskVars
<1>2. DiskCacheIsShown'
  <2> SUFFICES ASSUME NEW d \in DOMAIN last_sent_disk_usage \ changed_disks,
                      NEW c \in ConfigsOf(handed_disks[d], last_sent_disk_usage[d]),
                      c.node_id \notin missed'
               PROVE  nodes'[c.node_id] = Wire(c)
    BY DEF DiskCacheIsShown, diskVars
  <2>1. c.node_id \in NodeIds
    BY HandedNodes
  <2>2. c.node_id \notin missed /\ nodes'[c.node_id] = nodes[c.node_id]
    BY <2>1, ServerStepKeeps
  <2> QED
    BY <2>2 DEF DiskInv, DiskCacheIsShown
<1>3. DiskCacheIsCurrent' /\ DisksWaitToBeSent' /\ HandedIsCached'
  BY DEF DiskInv, DiskCacheIsCurrent, DisksWaitToBeSent, HandedIsCached, diskVars
<1> QED
  BY <1>1, <1>2, <1>3 DEF DiskInv

LEMMA DiskNextInv == DiskInv /\ [DiskNext]_<<opcVars, diskVars>> => DiskInv'
<1> SUFFICES ASSUME DiskInv, [DiskNext]_<<opcVars, diskVars>> PROVE DiskInv'
  OBVIOUS
<1>1. CASE collect_disk_usage
  BY <1>1, CollectDiskInv
<1>2. CASE find_changed_disks
  BY <1>2, FindChangedInv
<1>3. CASE DisksKept \/ send_full_disk_metrics
  BY <1>3, SendDisksInv
<1>4. CASE ServerStep /\ UNCHANGED diskVars
  BY <1>4, ServerKeepsDisks
<1>5. CASE UNCHANGED <<opcVars, diskVars>>
  BY <1>5 DEF diskVars, opcVars, DiskInv, DiskTypes, EntriesFit, OpcTypeOK,
              HandedIsCached, DiskCacheIsShown, DiskCacheIsCurrent,
              DisksWaitToBeSent
<1> QED
  BY <1>1, <1>2, <1>3, <1>4, <1>5 DEF DiskNext, DiskCycle

-------------------------------------------------------------------------------
(***************************************************************************)
(* Type correctness of the channel with its client and server.             *)
(***************************************************************************)
THEOREM DiskTypeCorrect == DiskSpec => [](OpcTypeOK /\ DiskTypeOK)
BY DiskInvType, DiskInitInv, DiskNextInv, PTL DEF DiskSpec

LEMMA DiskInvShows == DiskInv => AmountFitsUnits
<1> SUFFICES ASSUME DiskInv, disk_pc = "collect", NEW d \in DOMAIN current_data,
                    NEW c \in ConfigsOf(handed_disks[d], current_data[d]),
                    c.node_id \notin missed
             PROVE  nodes[c.node_id] = Wire(c)
  BY DEF AmountFitsUnits
<1>1. changed_disks = {}
  BY DEF DiskInv, DisksWaitToBeSent
<1>2. /\ d \in DOMAIN last_sent_disk_usage
      /\ last_sent_disk_usage[d] = current_data[d]
  BY DEF DiskInv, DiskCacheIsCurrent
<1> QED
  BY <1>1, <1>2 DEF DiskInv, DiskCacheIsShown

(***************************************************************************)
(* Between two cycles the nodes config.xml named for a disk when its       *)
(* amount last changed show that amount as the type and the units of then  *)
(* have it, and these units beside it, unless the server missed one of the *)
(* two; however often, and whenever, config.xml is edited.                 *)
(***************************************************************************)
THEOREM DiskAmountFits == DiskSpec => []AmountFitsUnits
BY DiskInvShows, DiskInitInv, DiskNextInv, PTL DEF DiskSpec

-------------------------------------------------------------------------------
(***************************************************************************)
(* The RAM channel: type correctness, and that the nodes show the memory   *)
(* free reports.                                                           *)
(***************************************************************************)

LEMMA KbIsNat ==
  ASSUME NEW state \in RamStates, NEW f \in Fields
  PROVE  state[f] \in Nat /\ state[f] \in Kb
BY RamAssumption DEF RamStates, Zero, Kb

LEMMA RamConfigsNodes ==
  ASSUME RamEntriesFit(ram_config)
  PROVE  /\ \A c \in RamConfigs : c.node_id \in NodeIds
         /\ OneConfigPerNode(RamConfigs)
         /\ NodesOf(RamConfigs) \subseteq RamNodes
         /\ \A f \in WithNode :
              f \in Fields /\ ram_config[f].node \in RamNodesOf[f]
<1>1. \A f \in WithNode :
        /\ f \in Fields
        /\ ram_config[f].node \in RamNodesOf[f]
        /\ ram_config[f].node \in NodeIds
        /\ RamConfig(ram_config[f], current_ram[f]).node_id = ram_config[f].node
  BY RamAssumption DEF WithNode, RamEntriesFit, RamEntries, RamConfig, WriteConfig
<1>2. \A x \in RamConfigs :
        \E f \in WithNode : x = RamConfig(ram_config[f], current_ram[f])
  BY DEF RamConfigs
<1>3. OneConfigPerNode(RamConfigs)
  <2> SUFFICES ASSUME NEW x \in RamConfigs, NEW y \in RamConfigs,
                      x.node_id = y.node_id
               PROVE  x = y
    BY DEF OneConfigPerNode
  <2>1. PICK f \in WithNode : x = RamConfig(ram_config[f], current_ram[f])
    BY <1>2
  <2>2. PICK g \in WithNode : y = RamConfig(ram_config[g], current_ram[g])
    BY <1>2
  <2>3. f = g
    BY <1>1, <2>1, <2>2, RamAssumption
  <2> QED
    BY <2>1, <2>2, <2>3
<1>4. NodesOf(RamConfigs) \subseteq RamNodes
  BY <1>1, <1>2 DEF NodesOf, RamNodes
<1> QED
  BY <1>1, <1>2, <1>3, <1>4

-------------------------------------------------------------------------------
RamTypes == OpcTypeOK /\ RamTypeOK

LEMMA RamInitType == OpcInit /\ RamInit => RamTypes
BY DEF OpcInit, RamInit, RamTypes, OpcTypeOK, RamTypeOK, RamStates, RamEntriesFit,
       EmptyMap

LEMMA RamNextType == RamTypes /\ [RamNext]_<<opcVars, ramVars>> => RamTypes'
<1> SUFFICES ASSUME RamTypes, [RamNext]_<<opcVars, ramVars>> PROVE RamTypes'
  OBVIOUS
<1> USE DEF RamTypes, RamTypeOK
<1>1. CASE collect_ram_usage
  <2>1. PICK file \in RamEditions \cup {EmptyMap} :
          ram_config' = Merge(ram_config, file)
    BY <1>1 DEF collect_ram_usage
  <2>2. RamEntriesFit(file)
    BY RamAssumption DEF RamEntriesFit, EmptyMap
  <2>3. RamEntriesFit(ram_config')
    BY <2>1, <2>2 DEF RamEntriesFit, Merge
  <2> QED
    BY <1>1, <2>3 DEF collect_ram_usage, RamEntriesFit, OpcTypeOK, opcVars
<1>2. CASE RamKept
  BY <1>2 DEF RamKept, RamEntriesFit, OpcTypeOK, opcVars
<1>3. CASE send_ram_metrics
  <2>1. OpcTypeOK'
    BY <1>3, RamConfigsNodes, WriteType DEF send_ram_metrics
  <2>2. RamEntriesFit(handed_ram')
    BY <1>3 DEF send_ram_metrics, RamEntriesFit, On
  <2> QED
    BY <1>3, <2>1, <2>2 DEF send_ram_metrics, RamEntriesFit
<1>4. CASE ServerStep /\ UNCHANGED ramVars
  BY <1>4, ServerStepType DEF ramVars, RamEntriesFit
<1>5. CASE UNCHANGED <<opcVars, ramVars>>
  BY <1>5 DEF OpcTypeOK, opcVars, ramVars, RamEntriesFit
<1> QED
  BY <1>1, <1>2, <1>3, <1>4, <1>5 DEF RamNext, RamCycle

(***************************************************************************)
(* Type correctness of the channel with its client and server.             *)
(***************************************************************************)
THEOREM RamTypeCorrect == RamSpec => [](OpcTypeOK /\ RamTypeOK)
<1>1. RamTypes <=> OpcTypeOK /\ RamTypeOK
  BY DEF RamTypes
<1> QED
  BY <1>1, RamInitType, RamNextType, PTL DEF RamSpec

-------------------------------------------------------------------------------
(***************************************************************************)
(* The inductive invariant.  The nodes of the last batch show what the     *)
(* cache says in the types they had then; before the first batch the cache *)
(* is what it was at the start; and a cycle that could have handed         *)
(* something over leaves no amount more than a megabyte from the cache.    *)
(***************************************************************************)
RamCacheIsShown ==
  \A f \in DOMAIN handed_ram :
    /\ handed_ram[f].node \in RamNodesOf[f]
    /\ handed_ram[f].node \notin missed =>
         nodes[handed_ram[f].node] = Wire(RamConfig(handed_ram[f], last_sent_ram[f]))

RamCacheAtStart == DOMAIN handed_ram = {} => last_sent_ram = Zero

RamCacheIsCurrent ==
  ram_pc = "collect" /\ WithNode # {} =>
    \A g \in Fields :
      RamDistance(last_sent_ram[g], current_ram[g]) <= threshold_kb

RamInv == RamTypes /\ RamCacheIsShown /\ RamCacheAtStart /\ RamCacheIsCurrent

LEMMA RamInitInv == OpcInit /\ RamInit => RamInv
<1> SUFFICES ASSUME OpcInit, RamInit PROVE RamInv
  OBVIOUS
<1>1. WithNode = {}
  BY DEF RamInit, WithNode, EmptyMap
<1> QED
  BY <1>1, RamInitType
     DEF RamInit, RamInv, RamCacheIsShown, RamCacheAtStart, RamCacheIsCurrent,
         EmptyMap

LEMMA RamKeptInv ==
  ASSUME RamInv, RamKept
  PROVE  RamInv'
<1>1. RamTypes'
  BY RamNextType DEF RamInv, RamNext, RamCycle
<1>2. RamCacheIsShown' /\ RamCacheAtStart'
  BY DEF RamInv, RamCacheIsShown, RamCacheAtStart, RamKept, opcVars
<1>3. RamCacheIsCurrent'
  <2> SUFFICES ASSUME WithNode # {}, NEW g \in Fields
               PROVE  RamDistance(last_sent_ram[g], current_ram[g]) <= threshold_kb
    BY DEF RamCacheIsCurrent, RamKept, WithNode
  <2>1. RamConfigs # {}
    BY DEF RamConfigs
  <2>2. ~is_ram_changed
    BY <2>1 DEF RamKept
  <2>3. last_sent_ram[g] \in Nat /\ current_ram[g] \in Nat
    BY KbIsNat DEF RamInv, RamTypes, RamTypeOK
  <2> QED
    BY <2>2, <2>3, RamAssumption DEF is_ram_changed, RamDistance, threshold_kb
<1> QED
  BY <1>1, <1>2, <1>3 DEF RamInv

LEMMA SendRamInv ==
  ASSUME RamInv, send_ram_metrics
  PROVE  RamInv'
<1>1. RamTypes'
  BY RamNextType DEF RamInv, RamNext, RamCycle
<1>2. RamEntriesFit(ram_config)
  BY DEF RamInv, RamTypes, RamTypeOK
<1>3. /\ DOMAIN handed_ram' = WithNode
      /\ \A f \in WithNode : handed_ram'[f] = ram_config[f]
      /\ last_sent_ram' = current_ram
  BY DEF send_ram_metrics, On, WithNode
<1>4. RamCacheIsShown'
  <2> SUFFICES ASSUME NEW f \in WithNode
               PROVE  /\ ram_config[f].node \in RamNodesOf[f]
                      /\ ram_config[f].node \notin missed' =>
                           nodes'[ram_config[f].node]
                             = Wire(RamConfig(ram_config[f], current_ram[f]))
    BY <1>3 DEF RamCacheIsShown
  <2>1. ram_config[f].node \in RamNodesOf[f] /\ ram_config[f].node \in NodeIds
    BY <1>2, RamConfigsNodes, RamAssumption
  <2>2. RamConfig(ram_config[f], current_ram[f]) \in RamConfigs
    BY DEF RamConfigs
  <2>3. RamConfig(ram_config[f], current_ram[f]).node_id = ram_config[f].node
    BY DEF RamConfig, WriteConfig
  <2> QED
    BY <1>2, <2>1, <2>2, <2>3, RamConfigsNodes, WriteHands DEF send_ram_metrics
<1>5. RamCacheAtStart'
  BY <1>3 DEF RamCacheAtStart, send_ram_metrics, RamConfigs
<1>6. RamCacheIsCurrent'
  <2> SUFFICES ASSUME NEW g \in Fields
               PROVE  RamDistance(current_ram[g], current_ram[g]) <= threshold_kb
    BY DEF RamCacheIsCurrent, send_ram_metrics
  <2>1. current_ram[g] \in Nat
    BY KbIsNat DEF RamInv, RamTypes, RamTypeOK
  <2> QED
    BY <2>1, RamAssumption DEF RamDistance, threshold_kb
<1> QED
  BY <1>1, <1>4, <1>5, <1>6 DEF RamInv

LEMMA HandedRamNodes ==
  ASSUME RamInv, NEW f \in DOMAIN handed_ram
  PROVE  /\ f \in Fields
         /\ handed_ram[f].node \in NodeIds /\ handed_ram[f].node \in RamNodes
<1>1. f \in Fields
  BY DEF RamInv, RamTypes, RamTypeOK, RamEntriesFit
<1>2. handed_ram[f].node \in RamNodesOf[f]
  BY DEF RamInv, RamCacheIsShown
<1> QED
  BY <1>1, <1>2, RamAssumption DEF RamNodes

LEMMA RamNextInv == RamInv /\ [RamNext]_<<opcVars, ramVars>> => RamInv'
<1> SUFFICES ASSUME RamInv, [RamNext]_<<opcVars, ramVars>> PROVE RamInv'
  OBVIOUS
<1>1. RamTypes'
  BY RamNextType DEF RamInv
<1>2. CASE collect_ram_usage
  BY <1>1, <1>2
     DEF collect_ram_usage, RamInv, RamCacheIsShown, RamCacheAtStart,
         RamCacheIsCurrent, opcVars
<1>3. CASE RamKept
  BY <1>3, RamKeptInv
<1>4. CASE send_ram_metrics
  BY <1>4, SendRamInv
<1>5. CASE ServerStep /\ UNCHANGED ramVars
  <2>1. RamCacheIsShown'
    <3> SUFFICES ASSUME NEW f \in DOMAIN handed_ram
                 PROVE  /\ handed_ram[f].node \in RamNodesOf[f]
                        /\ handed_ram[f].node \notin missed' =>
                             nodes'[handed_ram[f].node]
                               = Wire(RamConfig(handed_ram[f], last_sent_ram[f]))
      BY <1>5 DEF RamCacheIsShown, ramVars
    <3>1. handed_ram[f].node \notin missed' =>
            /\ handed_ram[f].node \notin missed
            /\ nodes'[handed_ram[f].node] = nodes[handed_ram[f].node]
      BY <1>5, HandedRamNodes, ServerStepKeeps
    <3> QED
      BY <3>1 DEF RamInv, RamCacheIsShown
  <2> QED
    BY <1>1, <1>5, <2>1
       DEF RamInv, RamCacheAtStart, RamCacheIsCurrent, WithNode, ramVars
<1>6. CASE UNCHANGED <<opcVars, ramVars>>
  BY <1>1, <1>6
     DEF RamInv, RamCacheIsShown, RamCacheAtStart, RamCacheIsCurrent, WithNode,
         opcVars, ramVars
<1> QED
  BY <1>2, <1>3, <1>4, <1>5, <1>6 DEF RamNext, RamCycle

LEMMA RamInvShows == RamInv => RamShown
<1> SUFFICES ASSUME RamInv, ram_pc = "collect", WithNode # {}
             PROVE  /\ \A f \in DOMAIN handed_ram :
                         handed_ram[f].node \notin missed =>
                           \E kb \in Kb :
                             /\ nodes[handed_ram[f].node]
                                  = Wire(RamConfig(handed_ram[f], kb))
                             /\ RamDistance(kb, current_ram[f]) <= threshold_kb
                    /\ handed_ram = EmptyMap =>
                         \A g \in Fields : current_ram[g] <= threshold_kb
  BY DEF RamShown
<1>1. \A g \in Fields : /\ last_sent_ram[g] \in Nat /\ last_sent_ram[g] \in Kb
                        /\ current_ram[g] \in Nat
  BY KbIsNat DEF RamInv, RamTypes, RamTypeOK
<1>2. \A g \in Fields :
        RamDistance(last_sent_ram[g], current_ram[g]) <= threshold_kb
  BY DEF RamInv, RamCacheIsCurrent
<1>3. ASSUME NEW f \in DOMAIN handed_ram, handed_ram[f].node \notin missed
      PROVE  \E kb \in Kb :
               /\ nodes[handed_ram[f].node] = Wire(RamConfig(handed_ram[f], kb))
               /\ RamDistance(kb, current_ram[f]) <= threshold_kb
  <2>1. f \in Fields
    BY HandedRamNodes
  <2>2. nodes[handed_ram[f].node] = Wire(RamConfig(handed_ram[f], last_sent_ram[f]))
    BY <1>3 DEF RamInv, RamCacheIsShown
  <2> QED
    BY <1>1, <1>2, <2>1, <2>2
<1>4. ASSUME handed_ram = EmptyMap, NEW g \in Fields
      PROVE  current_ram[g] <= threshold_kb
  <2>1. last_sent_ram[g] = 0
    BY <1>4 DEF RamInv, RamCacheAtStart, EmptyMap, Zero
  <2> QED
    BY <1>1, <1>2, <2>1, RamAssumption DEF RamDistance, threshold_kb
<1> QED
  BY <1>3, <1>4

(***************************************************************************)
(* Between two cycles every node of the last batch shows, in the type it   *)
(* had then, an amount within a megabyte of the one collected, unless the  *)
(* server missed it or config.xml has no node left; and before the first   *)
(* batch no amount exceeds a megabyte.  However config.xml is edited.      *)
(***************************************************************************)
THEOREM RamMemoryShown == RamSpec => []RamShown
BY RamInitInv, RamNextInv, RamInvShows, PTL DEF RamSpec

-------------------------------------------------------------------------------
(***************************************************************************)
(* The RAID channel: type correctness, that the nodes show the states of   *)
(* mdstat, and that status and health fit each other.                      *)
(***************************************************************************)

(***************************************************************************)
(* The batch holds one config for either node of every array reported, and *)
(* no other.                                                               *)
(***************************************************************************)
LEMMA RaidConfigsNodes ==
  /\ \A c \in RaidConfigs : c.node_id \in NodeIds
  /\ OneConfigPerNode(RaidConfigs)
  /\ NodesOf(RaidConfigs) = {StatusNode[r] : r \in ReportedRaids}
                              \cup {HealthNode[r] : r \in ReportedRaids}
<1>1. ReportedRaids \subseteq Raids
  BY DEF ReportedRaids
<1>2. \A r \in ReportedRaids :
        /\ StatusConfig(r).node_id = StatusNode[r] /\ StatusNode[r] \in NodeIds
        /\ HealthConfig(r).node_id = HealthNode[r] /\ HealthNode[r] \in NodeIds
  BY <1>1, RaidAssumption DEF StatusConfig, HealthConfig, WriteConfig
<1>3. OneConfigPerNode(RaidConfigs)
  <2> SUFFICES ASSUME NEW x \in RaidConfigs, NEW y \in RaidConfigs,
                      x.node_id = y.node_id
               PROVE  x = y
    BY DEF OneConfigPerNode
  <2>1. PICK r \in ReportedRaids : x \in {StatusConfig(r), HealthConfig(r)}
    BY DEF RaidConfigs
  <2>2. PICK s \in ReportedRaids : y \in {StatusConfig(s), HealthConfig(s)}
    BY DEF RaidConfigs
  <2>3. r = s
    BY <1>1, <1>2, <2>1, <2>2, RaidAssumption
  <2>4. StatusNode[r] # HealthNode[r]
    BY <1>1, RaidAssumption
  <2> QED
    BY <1>2, <2>1, <2>2, <2>3, <2>4
<1>4. NodesOf(RaidConfigs) = {StatusNode[r] : r \in ReportedRaids}
                               \cup {HealthNode[r] : r \in ReportedRaids}
  BY <1>2 DEF NodesOf, RaidConfigs
<1> QED
  BY <1>2, <1>3, <1>4 DEF RaidConfigs

(***************************************************************************)
(* A status and a health survive the conversion of Write.                  *)
(***************************************************************************)
LEMMA RaidWire ==
  ASSUME NEW r
  PROVE  /\ Wire(StatusConfig(r)) = changed_raids[r]
         /\ Wire(HealthConfig(r)) = Health(changed_raids[r])
<1>1. Wire(StatusConfig(r)) = changed_raids[r]
  BY DEF Wire, StatusConfig, WriteConfig, MembersOf
<1>2. HealthType \in {"BOOL", "STRING", "REAL"}
  BY RaidAssumption
<1>3. HealthMember \in MembersOf(HealthType)
  BY <1>2 DEF HealthMember, MembersOf, IntegerMembers
<1>4. Wire(HealthConfig(r)) = Health(changed_raids[r])
  BY <1>2, <1>3 DEF Wire, HealthConfig, WriteConfig
<1> QED
  BY <1>1, <1>4

(***************************************************************************)
(* What send_raid_metrics does to the two nodes of an array: those of one  *)
(* reported show what was reported unless missed, others are left alone.   *)
(***************************************************************************)
LEMMA SendReports ==
  ASSUME OpcTypeOK, send_raid_metrics, NEW r \in ReportedRaids
  PROVE  /\ StatusNode[r] \notin missed' => nodes'[StatusNode[r]] = changed_raids[r]
         /\ HealthNode[r] \notin missed' =>
              nodes'[HealthNode[r]] = Health(changed_raids[r])
<1>1. StatusConfig(r) \in RaidConfigs /\ HealthConfig(r) \in RaidConfigs
  BY DEF RaidConfigs
<1>2. StatusConfig(r).node_id = StatusNode[r] /\ HealthConfig(r).node_id = HealthNode[r]
  BY DEF StatusConfig, HealthConfig, WriteConfig
<1>3. Write(RaidConfigs) /\ OneConfigPerNode(RaidConfigs)
  BY RaidConfigsNodes DEF send_raid_metrics
<1>4. StatusNode[r] \in NodeIds /\ HealthNode[r] \in NodeIds
  BY RaidAssumption DEF ReportedRaids
<1>5. StatusNode[r] \notin missed' => nodes'[StatusNode[r]] = Wire(StatusConfig(r))
  BY <1>1, <1>2, <1>3, <1>4, WriteHands
<1>6. HealthNode[r] \notin missed' => nodes'[HealthNode[r]] = Wire(HealthConfig(r))
  BY <1>1, <1>2, <1>3, <1>4, WriteHands
<1> QED
  BY <1>5, <1>6, RaidWire

LEMMA SendSpares ==
  ASSUME OpcTypeOK, send_raid_metrics, NEW r \in Raids \ ReportedRaids
  PROVE  \A n \in {StatusNode[r], HealthNode[r]} :
           nodes'[n] = nodes[n] /\ (n \in missed' <=> n \in missed)
<1>1. ReportedRaids \subseteq Raids
  BY DEF ReportedRaids
<1>2. \A n \in {StatusNode[r], HealthNode[r]} :
        n \in NodeIds /\ n \notin NodesOf(RaidConfigs)
  BY <1>1, RaidConfigsNodes, RaidAssumption
<1> QED
  BY <1>2, WriteKeeps DEF send_raid_metrics, OpcTypeOK

LEMMA ServerSparesRaids ==
  ASSUME ServerStep, NEW r \in Raids
  PROVE  \A n \in {StatusNode[r], HealthNode[r]} :
           n \notin missed' => n \notin missed /\ nodes'[n] = nodes[n]
<1>1. StatusNode[r] \in NodeIds /\ HealthNode[r] \in NodeIds
  BY RaidAssumption
<1> QED
  BY <1>1, ServerStepKeeps

-------------------------------------------------------------------------------
LEMMA RaidInitType == RaidInit => RaidTypeOK
BY EmptyMapType DEF RaidInit, RaidTypeOK, RaidStates, OpcInit, OpcTypeOK

LEMMA CollectRaidType ==
  ASSUME RaidTypeOK, collect_raid_states
  PROVE  RaidTypeOK'
<1>1. current_raids' \in RaidStates(CollectableStatuses)
  <2>1. CASE current_raids' = EmptyMap
    BY <2>1, EmptyMapType DEF RaidStates
  <2>2. CASE current_raids' \in [Raids -> Statuses]
    <3>1. current_raids' \in [Raids -> CollectableStatuses]
      BY <2>2 DEF CollectableStatuses
    <3> QED
      BY <3>1, PartialMapsIntro DEF RaidStates
  <2>3. CASE current_raids' = [n \in {System} |-> "not_available"]
    <3>1. current_raids' \in [{System} -> CollectableStatuses]
      BY <2>3 DEF CollectableStatuses
    <3> QED
      BY <3>1, PartialMapsIntro DEF RaidStates
  <2> QED
    BY <2>1, <2>2, <2>3 DEF collect_raid_states
<1> QED
  BY <1>1 DEF collect_raid_states, RaidTypeOK, OpcTypeOK, opcVars

LEMMA DetectFirstType ==
  ASSUME RaidTypeOK, detect_first_run
  PROVE  RaidTypeOK'
<1>1. current_raids \in RaidStates(CollectableStatuses \cup {"removed"})
  BY PartialMapsWiden DEF RaidTypeOK, RaidStates
<1> QED
  BY <1>1 DEF detect_first_run, RaidTypeOK, OpcTypeOK, opcVars

LEMMA RaidChangesType ==
  ASSUME RaidTypeOK
  PROVE  RaidChanges \in RaidStates(CollectableStatuses \cup {"removed"})
<1> DEFINE All == CollectableStatuses \cup {"removed"}
           differing == {n \in DOMAIN current_raids : RaidDiffers(n)}
           gone == [n \in RemovedRaids |-> "removed"]
<1>1. On(current_raids, differing) \in PartialMaps(Raids \cup {System}, All)
  BY OnType, PartialMapsWiden DEF RaidTypeOK, RaidStates
<1>2. RemovedRaids \subseteq Raids \cup {System}
  BY PartialMapsElim DEF RaidTypeOK, RaidStates, RemovedRaids
<1>3. gone \in [RemovedRaids -> All]
  OBVIOUS
<1>4. gone \in PartialMaps(Raids \cup {System}, All)
  BY <1>2, <1>3, PartialMapsIntro
<1> QED
  BY <1>1, <1>4, MergeType DEF RaidStates, RaidChanges

LEMMA DetectType ==
  ASSUME RaidTypeOK, detect_raid_changes
  PROVE  RaidTypeOK'
BY RaidChangesType DEF detect_raid_changes, RaidTypeOK, OpcTypeOK, opcVars

LEMMA CachedType ==
  ASSUME RaidTypeOK
  PROVE  CachedRaids(last_sent_raids) \in RaidStates(CollectableStatuses)
<1> DEFINE f == last_sent_raids
           merged == Merge(f, changed_raids)
           removed == {n \in DOMAIN changed_raids : changed_raids[n] = "removed"}
           D == (DOMAIN f \cup DOMAIN changed_raids) \ removed
<1>1. /\ DOMAIN f \subseteq Raids \cup {System}
      /\ \A n \in DOMAIN f : f[n] \in CollectableStatuses
  BY PartialMapsElim DEF RaidTypeOK, RaidStates
<1>2. /\ DOMAIN changed_raids \subseteq Raids \cup {System}
      /\ \A n \in DOMAIN changed_raids :
           changed_raids[n] \in CollectableStatuses \cup {"removed"}
  BY PartialMapsElim DEF RaidTypeOK, RaidStates
<1>3. DOMAIN merged = DOMAIN f \cup DOMAIN changed_raids
  BY DEF Merge
<1>4. \A n \in D : merged[n] \in CollectableStatuses
  <2> SUFFICES ASSUME NEW n \in D PROVE merged[n] \in CollectableStatuses
    OBVIOUS
  <2>1. CASE n \in DOMAIN changed_raids
    BY <1>2, <2>1 DEF Merge
  <2>2. CASE n \notin DOMAIN changed_raids
    BY <1>1, <2>2 DEF Merge
  <2> QED
    BY <2>1, <2>2
<1>5. On(merged, D) \in [D -> CollectableStatuses]
  BY <1>3, <1>4 DEF On
<1>6. D \subseteq Raids \cup {System}
  BY <1>1, <1>2
<1>7. CachedRaids(f) = On(merged, D)
  BY DEF CachedRaids
<1> QED
  BY <1>5, <1>6, <1>7, PartialMapsIntro DEF RaidStates

LEMMA SendRaidsType ==
  ASSUME RaidTypeOK, send_raid_metrics
  PROVE  RaidTypeOK'
<1>1. OpcTypeOK'
  BY RaidConfigsNodes, WriteType DEF send_raid_metrics, RaidTypeOK
<1>2. EmptyMap \in RaidStates(CollectableStatuses \cup {"removed"})
  BY EmptyMapType DEF RaidStates
<1> QED
  BY <1>1, <1>2, CachedType DEF send_raid_metrics, RaidTypeOK

LEMMA RaidNextType == RaidTypeOK /\ [RaidNext]_<<opcVars, raidVars>> => RaidTypeOK'
<1> SUFFICES ASSUME RaidTypeOK, [RaidNext]_<<opcVars, raidVars>>
             PROVE  RaidTypeOK'
  OBVIOUS
<1>1. CASE collect_raid_states
  BY <1>1, CollectRaidType
<1>2. CASE detect_first_run
  BY <1>2, DetectFirstType
<1>3. CASE detect_raid_changes
  BY <1>3, DetectType
<1>4. CASE RaidsKept
  BY <1>4, EmptyMapType DEF RaidsKept, RaidTypeOK, RaidStates, OpcTypeOK, opcVars
<1>5. CASE send_raid_metrics
  BY <1>5, SendRaidsType
<1>6. CASE ServerStep /\ UNCHANGED raidVars
  BY <1>6, ServerStepType DEF RaidTypeOK, raidVars
<1>7. CASE UNCHANGED <<opcVars, raidVars>>
  BY <1>7 DEF RaidTypeOK, OpcTypeOK, opcVars, raidVars
<1> QED
  BY <1>1, <1>2, <1>3, <1>4, <1>5, <1>6, <1>7 DEF RaidNext, RaidCycle

(***************************************************************************)
(* Type correctness of the channel with its client and server.             *)
(***************************************************************************)
THEOREM RaidTypeCorrect == RaidSpec => []RaidTypeOK
BY RaidInitType, RaidNextType, PTL DEF RaidSpec

-------------------------------------------------------------------------------
(***************************************************************************)
(* The inductive invariant.  While changes wait to be handed over, the     *)
(* arrays they are about are ahead of the server (on the first run in the  *)
(* cache as well); the others have the state the cache says, and the cache *)
(* what mdstat said.                                                       *)
(***************************************************************************)
StatusFits(r) ==
  StatusNode[r] \notin missed =>
    IF r \in DOMAIN last_sent_raids
      THEN nodes[StatusNode[r]] = last_sent_raids[r]
      ELSE nodes[StatusNode[r]] \in {NoValue, "removed"}

RaidCacheIsShown == \A r \in Raids \ DOMAIN changed_raids : StatusFits(r)

SameState(r) ==
  /\ r \in DOMAIN last_sent_raids <=> r \in DOMAIN current_raids
  /\ r \in DOMAIN current_raids => last_sent_raids[r] = current_raids[r]

ChangeIsOf(r) ==
  changed_raids[r] =
    IF r \in DOMAIN current_raids THEN current_raids[r] ELSE "removed"

RaidCacheIsCurrent ==
  raid_pc \in {"collect", "send"} =>
    \A r \in Raids :
      IF r \in DOMAIN changed_raids THEN ChangeIsOf(r) ELSE SameState(r)

RaidsWaitToBeSent == raid_pc # "send" => DOMAIN changed_raids = {}

NothingCachedYet == first_run => raid_pc # "send" /\ DOMAIN last_sent_raids = {}

RaidInv ==
  /\ RaidTypeOK
  /\ RaidCacheIsShown
  /\ RaidCacheIsCurrent
  /\ RaidsWaitToBeSent
  /\ NothingCachedYet
  /\ HealthFitsStatus

LEMMA RaidInitInv == RaidInit => RaidInv
<1> SUFFICES ASSUME RaidInit PROVE RaidInv
  OBVIOUS
<1>1. \A r \in Raids : /\ nodes[StatusNode[r]] = NoValue
                       /\ nodes[HealthNode[r]] = NoValue
  BY RaidAssumption DEF RaidInit, OpcInit
<1>2. DOMAIN EmptyMap = {}
  BY DEF EmptyMap
<1> QED
  BY <1>1, <1>2, RaidInitType
     DEF RaidInit, RaidInv, RaidCacheIsShown, StatusFits, RaidCacheIsCurrent,
         SameState, RaidsWaitToBeSent, NothingCachedYet, HealthFitsStatus

(***************************************************************************)
(* The nodes alone matter to HealthFitsStatus.                             *)
(***************************************************************************)
LEMMA HealthKept ==
  ASSUME HealthFitsStatus,
         \A r \in Raids : \A n \in {StatusNode[r], HealthNode[r]} :
           n \notin missed' => n \notin missed /\ nodes'[n] = nodes[n]
  PROVE  HealthFitsStatus'
BY DEF HealthFitsStatus

LEMMA CollectRaidInv ==
  ASSUME RaidInv, collect_raid_states
  PROVE  RaidInv'
BY CollectRaidType
   DEF RaidInv, collect_raid_states, RaidCacheIsShown, StatusFits,
       RaidCacheIsCurrent, RaidsWaitToBeSent, NothingCachedYet,
       HealthFitsStatus, opcVars

LEMMA DetectFirstInv ==
  ASSUME RaidInv, detect_first_run
  PROVE  RaidInv'
<1>1. RaidTypeOK'
  BY DetectFirstType DEF RaidInv
<1>2. DOMAIN changed_raids = {} /\ DOMAIN last_sent_raids = {}
  BY DEF RaidInv, RaidsWaitToBeSent, NothingCachedYet, detect_first_run
<1>3. RaidCacheIsShown'
  BY <1>2 DEF RaidInv, RaidCacheIsShown, StatusFits, detect_first_run, opcVars
<1>4. RaidCacheIsCurrent'
  BY DEF RaidCacheIsCurrent, ChangeIsOf, SameState, detect_first_run
<1> QED
  BY <1>1, <1>3, <1>4
     DEF RaidInv, RaidsWaitToBeSent, NothingCachedYet, HealthFitsStatus,
         detect_first_run, opcVars

(***************************************************************************)
(* detect_raid_changes, name by name.                                      *)
(***************************************************************************)
LEMMA ChangesByName ==
  ASSUME NEW r
  PROVE  /\ r \in DOMAIN RaidChanges <=>
              \/ r \in DOMAIN current_raids /\ RaidDiffers(r)
              \/ r \in DOMAIN last_sent_raids /\ r \notin DOMAIN current_raids
         /\ r \in DOMAIN RaidChanges =>
              RaidChanges[r] = IF r \in DOMAIN current_raids
                               THEN current_raids[r] ELSE "removed"
BY DEF RaidChanges, RemovedRaids, Merge, On

LEMMA DetectInv ==
  ASSUME RaidInv, detect_raid_changes
  PROVE  RaidInv'
<1>1. RaidTypeOK'
  BY DetectType DEF RaidInv
<1>2. DOMAIN changed_raids = {}
  BY DEF RaidInv, RaidsWaitToBeSent, detect_raid_changes
<1>3. RaidCacheIsShown'
  BY <1>2
     DEF RaidInv, RaidCacheIsShown, StatusFits, detect_raid_changes, opcVars
<1>4. RaidCacheIsCurrent'
  <2> SUFFICES ASSUME NEW r \in Raids
               PROVE  IF r \in DOMAIN RaidChanges
                        THEN RaidChanges[r] = IF r \in DOMAIN current_raids
                                              THEN current_raids[r] ELSE "removed"
                        ELSE SameState(r)
    BY DEF RaidCacheIsCurrent, ChangeIsOf, SameState, detect_raid_changes
  <2> QED
    BY ChangesByName DEF SameState, RaidDiffers
<1> QED
  BY <1>1, <1>3, <1>4
     DEF RaidInv, RaidsWaitToBeSent, NothingCachedYet, HealthFitsStatus,
         detect_raid_changes, opcVars

(***************************************************************************)
(* What the cache takes from a batch, array by array.                      *)
(***************************************************************************)
LEMMA CachedByName ==
  ASSUME NEW r
  PROVE  LET cached == CachedRaids(last_sent_raids)
         IN  IF r \in DOMAIN changed_raids
               THEN IF changed_raids[r] = "removed"
                      THEN r \notin DOMAIN cached
                      ELSE /\ r \in DOMAIN cached
                           /\ cached[r] = changed_raids[r]
               ELSE /\ r \in DOMAIN cached <=> r \in DOMAIN last_sent_raids
                    /\ r \in DOMAIN cached => cached[r] = last_sent_raids[r]
BY DEF CachedRaids, Merge, On

LEMMA RaidsKeptInv ==
  ASSUME RaidInv, RaidsKept
  PROVE  RaidInv'
<1>1. RaidTypeOK'
  BY EmptyMapType
     DEF RaidInv, RaidsKept, RaidTypeOK, RaidStates, OpcTypeOK, opcVars
<1>2. DOMAIN changed_raids \cap Raids = {}
  BY DEF RaidsKept, RaidConfigs, ReportedRaids
<1>3. DOMAIN changed_raids' = {}
  BY DEF RaidsKept, EmptyMap
<1> QED
  BY <1>1, <1>2, <1>3
     DEF RaidInv, RaidsKept, RaidCacheIsShown, StatusFits, RaidCacheIsCurrent,
         SameState, RaidsWaitToBeSent, NothingCachedYet, HealthFitsStatus, opcVars

LEMMA SendRaidsInv ==
  ASSUME RaidInv, send_raid_metrics
  PROVE  RaidInv'
<1> USE DEF RaidInv
<1>1. RaidTypeOK' /\ OpcTypeOK
  BY SendRaidsType DEF RaidTypeOK
<1>2. last_sent_raids' = CachedRaids(last_sent_raids) /\ DOMAIN changed_raids' = {}
  BY DEF send_raid_metrics, EmptyMap
<1>3. ASSUME NEW r \in Raids
      PROVE  StatusFits(r)' /\ SameState(r)'
  <2>1. CASE r \in DOMAIN changed_raids
    <3>1. r \in ReportedRaids
      BY <2>1 DEF ReportedRaids
    <3>2. StatusNode[r] \notin missed' => nodes'[StatusNode[r]] = changed_raids[r]
      BY <1>1, <3>1, SendReports
    <3>3. ChangeIsOf(r)
      BY <2>1 DEF RaidCacheIsCurrent, send_raid_metrics
    <3>4. CASE r \in DOMAIN current_raids
      <4>1. current_raids[r] # "removed"
        BY <3>4, PartialMapsElim, RaidAssumption
           DEF RaidTypeOK, RaidStates, CollectableStatuses
      <4>2. r \in DOMAIN last_sent_raids' /\ last_sent_raids'[r] = current_raids[r]
        BY <1>2, <2>1, <3>3, <3>4, <4>1, CachedByName DEF ChangeIsOf
      <4> QED
        BY <3>2, <3>3, <3>4, <4>2
           DEF StatusFits, SameState, ChangeIsOf, send_raid_metrics
    <3>5. CASE r \notin DOMAIN current_raids
      <4>1. r \notin DOMAIN last_sent_raids'
        BY <1>2, <2>1, <3>3, <3>5, CachedByName DEF ChangeIsOf
      <4> QED
        BY <3>2, <3>3, <3>5, <4>1
           DEF StatusFits, SameState, ChangeIsOf, send_raid_metrics
    <3> QED
      BY <3>4, <3>5
  <2>2. CASE r \notin DOMAIN changed_raids
    <3>1. /\ nodes'[StatusNode[r]] = nodes[StatusNode[r]]
          /\ StatusNode[r] \in missed' <=> StatusNode[r] \in missed
      BY <1>1, <2>2, SendSpares DEF ReportedRaids
    <3>2. StatusFits(r) /\ SameState(r)
      BY <2>2 DEF RaidCacheIsShown, RaidCacheIsCurrent, send_raid_metrics
    <3>3. /\ r \in DOMAIN last_sent_raids' <=> r \in DOMAIN last_sent_raids
          /\ r \in DOMAIN last_sent_raids' => last_sent_raids'[r] = last_sent_raids[r]
      BY <1>2, <2>2, CachedByName
    <3> QED
      BY <3>1, <3>2, <3>3 DEF StatusFits, SameState, send_raid_metrics
  <2> QED
    BY <2>1, <2>2
<1>4. RaidCacheIsShown'
  BY <1>3 DEF RaidCacheIsShown
<1>5. RaidCacheIsCurrent'
  BY <1>2, <1>3 DEF RaidCacheIsCurrent
<1>6. RaidsWaitToBeSent' /\ NothingCachedYet'
  BY <1>2 DEF RaidsWaitToBeSent, NothingCachedYet, send_raid_metrics
<1>7. HealthFitsStatus'
  <2> SUFFICES ASSUME NEW r \in Raids,
                      {StatusNode[r], HealthNode[r]} \cap missed' = {}
               PROVE  \/ /\ nodes'[StatusNode[r]] = NoValue
                         /\ nodes'[HealthNode[r]] = NoValue
                      \/ /\ nodes'[StatusNode[r]] # NoValue
                         /\ nodes'[HealthNode[r]] = Health(nodes'[StatusNode[r]])
    BY DEF HealthFitsStatus
  <2>1. CASE r \in ReportedRaids
    <3>1. changed_raids[r] # NoValue
      BY <2>1, PartialMapsElim, RaidAssumption
         DEF RaidTypeOK, RaidStates, CollectableStatuses, ReportedRaids
    <3> QED
      BY <1>1, <2>1, <3>1, SendReports
  <2>2. CASE r \notin ReportedRaids
    BY <1>1, <2>2, SendSpares DEF HealthFitsStatus
  <2> QED
    BY <2>1, <2>2
<1> QED
  BY <1>1, <1>4, <1>5, <1>6, <1>7

LEMMA ServerKeepsRaids ==
  ASSUME RaidInv, ServerStep, UNCHANGED raidVars
  PROVE  RaidInv'
<1> USE DEF RaidInv
<1>1. RaidTypeOK'
  BY ServerStepType DEF RaidTypeOK, raidVars
<1>2. RaidCacheIsShown'
  BY ServerSparesRaids DEF RaidCacheIsShown, StatusFits, raidVars
<1>3. HealthFitsStatus'
  BY ServerSparesRaids, HealthKept
<1> QED
  BY <1>1, <1>2, <1>3
     DEF RaidCacheIsCurrent, ChangeIsOf, SameState, RaidsWaitToBeSent,
         NothingCachedYet, raidVars

LEMMA RaidNextInv == RaidInv /\ [RaidNext]_<<opcVars, raidVars>> => RaidInv'
<1> SUFFICES ASSUME RaidInv, [RaidNext]_<<opcVars, raidVars>> PROVE RaidInv'
  OBVIOUS
<1>1. CASE collect_raid_states
  BY <1>1, CollectRaidInv
<1>2. CASE detect_first_run
  BY <1>2, DetectFirstInv
<1>3. CASE detect_raid_changes
  BY <1>3, DetectInv
<1>4. CASE RaidsKept
  BY <1>4, RaidsKeptInv
<1>5. CASE send_raid_metrics
  BY <1>5, SendRaidsInv
<1>6. CASE ServerStep /\ UNCHANGED raidVars
  BY <1>6, ServerKeepsRaids
<1>7. CASE UNCHANGED <<opcVars, raidVars>>
  BY <1>7, RaidNextType
     DEF RaidInv, RaidCacheIsShown, StatusFits, RaidCacheIsCurrent, ChangeIsOf,
         SameState, RaidsWaitToBeSent, NothingCachedYet, HealthFitsStatus,
         opcVars, raidVars
<1> QED
  BY <1>1, <1>2, <1>3, <1>4, <1>5, <1>6, <1>7 DEF RaidNext, RaidCycle

LEMMA RaidInvShows == RaidInv => RaidShown /\ HealthFitsStatus
<1> SUFFICES ASSUME RaidInv, raid_pc = "collect", NEW r \in Raids,
                    StatusNode[r] \notin missed
             PROVE  ShownStatus(r) \in ExpectedStatus(r)
  BY DEF RaidShown, RaidInv
<1>1. StatusFits(r) /\ SameState(r)
  BY DEF RaidInv, RaidCacheIsShown, RaidCacheIsCurrent, RaidsWaitToBeSent
<1>2. r \in DOMAIN current_raids => current_raids[r] # NoValue
  BY PartialMapsElim, RaidAssumption
     DEF RaidInv, RaidTypeOK, RaidStates, CollectableStatuses
<1> QED
  BY <1>1, <1>2 DEF StatusFits, SameState, ShownStatus, ExpectedStatus

(***************************************************************************)
(* Between two cycles the status node of an array tells the state mdstat   *)
(* gave it, and that of an array without one "removed" or nothing yet,     *)
(* unless the server missed the last one: the cache that detect_first_run  *)
(* fills before anything was sent, and the erasing of removed arrays, do   *)
(* no other harm.                                                          *)
(***************************************************************************)
THEOREM RaidStatusShown == RaidSpec => []RaidShown
BY RaidInvShows, RaidInitInv, RaidNextInv, PTL DEF RaidSpec

(***************************************************************************)
(* In every state the status and the health shown for an array fit each    *)
(* other, unless the server missed one of the two.                         *)
(***************************************************************************)
THEOREM RaidHealthFits == RaidSpec => []HealthFitsStatus
BY RaidInvShows, RaidInitInv, RaidNextInv, PTL DEF RaidSpec

-------------------------------------------------------------------------------
(***************************************************************************)
(* The refinement.  Besides RaidInv it needs to know what the status nodes *)
(* can hold: a status of an array, never the one of the name "system".     *)
(***************************************************************************)
Publishable == Statuses \cup {"removed"}

StatusesOfRaids(f) == \A r \in DOMAIN f \cap Raids : f[r] \in Publishable

StatusNodesTyped ==
  /\ \A n \in StatusNodes : nodes[n] \in Publishable \cup {NoValue}
  /\ StatusesOfRaids(current_raids)
  /\ StatusesOfRaids(changed_raids)
  /\ StatusesOfRaids(last_sent_raids)

RefInv == RaidInv /\ StatusNodesTyped

LEMMA SentOfNode ==
  ASSUME NEW r \in Raids
  PROVE  /\ StatusNode[r] \in StatusNodes
         /\ SentToRaid(StatusNode[r]) = SentStatus(r)
         /\ SentToRaid(StatusNode[r])' = SentStatus(r)'
<1> DEFINE s == CHOOSE q \in Raids : StatusNode[q] = StatusNode[r]
<1>1. s \in Raids /\ StatusNode[s] = StatusNode[r]
  OBVIOUS
<1>2. s = r
  BY <1>1, RaidAssumption
<1> QED
  BY <1>2 DEF StatusNodes, SentToRaid

LEMMA RefInitInv == RaidInit => RefInv
<1>1. ASSUME RaidInit PROVE StatusNodesTyped
  <2>1. \A n \in StatusNodes : nodes[n] = NoValue
    BY <1>1, RaidAssumption DEF StatusNodes, RaidInit, OpcInit
  <2> QED
    BY <1>1, <2>1 DEF RaidInit, StatusNodesTyped, StatusesOfRaids, EmptyMap
<1> QED
  BY <1>1, RaidInitInv DEF RefInv

(***************************************************************************)
(* What a step of send_raid_metrics does to a status node.                 *)
(***************************************************************************)
LEMMA SendOutcome ==
  ASSUME OpcTypeOK, send_raid_metrics, NEW r \in ReportedRaids
  PROVE  \/ /\ StatusNode[r] \notin missed'
            /\ nodes'[StatusNode[r]] = changed_raids[r]
         \/ /\ StatusNode[r] \in missed'
            /\ nodes'[StatusNode[r]] = nodes[StatusNode[r]]
<1>1. StatusConfig(r) \in RaidConfigs /\ StatusConfig(r).node_id = StatusNode[r]
  BY DEF RaidConfigs, StatusConfig, WriteConfig
<1>2. StatusNode[r] \in NodeIds
  BY RaidAssumption DEF ReportedRaids
<1>3. Wire(StatusConfig(r)) = changed_raids[r]
  BY RaidWire
<1> QED
  BY <1>1, <1>2, <1>3, RaidConfigsNodes, WriteOutcome DEF send_raid_metrics, OpcTypeOK

LEMMA RefNextInv == RefInv /\ [RaidNext]_<<opcVars, raidVars>> => RefInv'
<1> SUFFICES ASSUME RefInv, [RaidNext]_<<opcVars, raidVars>>
             PROVE  StatusNodesTyped'
  BY RaidNextInv DEF RefInv
<1> USE DEF RefInv, StatusNodesTyped
<1>1. CASE collect_raid_states
  <2>1. StatusesOfRaids(current_raids')
    BY <1>1, RaidAssumption
       DEF collect_raid_states, StatusesOfRaids, Publishable, EmptyMap
  <2> QED
    BY <1>1, <2>1 DEF collect_raid_states, opcVars
<1>2. CASE detect_first_run
  BY <1>2 DEF detect_first_run, opcVars
<1>3. CASE detect_raid_changes
  <2>1. StatusesOfRaids(RaidChanges)
    BY ChangesByName DEF StatusesOfRaids, Publishable
  <2> QED
    BY <1>3, <2>1 DEF detect_raid_changes, opcVars
<1>4. CASE RaidsKept
  BY <1>4 DEF RaidsKept, StatusesOfRaids, EmptyMap, opcVars
<1>5. CASE send_raid_metrics
  <2>1. StatusesOfRaids(CachedRaids(last_sent_raids))
    BY CachedByName DEF StatusesOfRaids
  <2>2. ASSUME NEW r \in Raids
        PROVE  nodes'[StatusNode[r]] \in Publishable \cup {NoValue}
    <3>1. nodes[StatusNode[r]] \in Publishable \cup {NoValue}
      BY DEF StatusNodes
    <3>2. CASE r \in ReportedRaids
      BY <1>5, <3>1, <3>2, SendOutcome
         DEF RaidInv, RaidTypeOK, ReportedRaids, StatusesOfRaids
    <3>3. CASE r \notin ReportedRaids
      BY <1>5, <3>1, <3>3, SendSpares DEF RaidInv, RaidTypeOK
    <3> QED
      BY <3>2, <3>3
  <2> QED
    BY <1>5, <2>1, <2>2
       DEF send_raid_metrics, StatusNodes, StatusesOfRaids, EmptyMap
<1>6. CASE ServerStep /\ UNCHANGED raidVars
  <2>1. \A n \in StatusNodes : nodes'[n] \in {nodes[n], NoValue}
    BY <1>6, RaidAssumption
       DEF ServerStep, ServerDown, ServerBack, ServerRestarted, OthersCall,
           StatusNodes
  <2> QED
    BY <1>6, <2>1 DEF raidVars
<1>7. CASE UNCHANGED <<opcVars, raidVars>>
  BY <1>7 DEF opcVars, raidVars
<1> QED
  BY <1>1, <1>2, <1>3, <1>4, <1>5, <1>6, <1>7 DEF RaidNext, RaidCycle

(***************************************************************************)
(* Publication, array by array: the concrete form of Kept, Lost and        *)
(* Delivered for the status node of array r.                               *)
(***************************************************************************)
PubMissed(r) == StatusNode[r] \in missed \/ r \in ReportedRaids

KeptRaid(r) ==
  /\ SentStatus(r)' \in {SentStatus(r), NoValue}
  /\ nodes'[StatusNode[r]] = nodes[StatusNode[r]]
  /\ PubMissed(r)' <=> PubMissed(r)

LostRaid(r) ==
  /\ nodes'[StatusNode[r]] = nodes[StatusNode[r]]
  /\ PubMissed(r)'

DeliveredRaid(r) ==
  /\ nodes'[StatusNode[r]] # NoValue
  /\ SentStatus(r)' \in {nodes'[StatusNode[r]], NoValue}
  /\ ~PubMissed(r)'

ForgetRaid(r) ==
  /\ nodes'[StatusNode[r]] = NoValue
  /\ PubMissed(r)' <=> PubMissed(r) \/ nodes[StatusNode[r]] # NoValue
  /\ SentStatus(r)' = SentStatus(r)

LEMMA SendPublishes ==
  ASSUME RefInv, send_raid_metrics, NEW r \in Raids
  PROVE  KeptRaid(r) \/ LostRaid(r) \/ DeliveredRaid(r)
<1> USE DEF RefInv, RaidInv, RaidTypeOK
<1>1. r \notin ReportedRaids'
  BY DEF send_raid_metrics, ReportedRaids, EmptyMap
<1>2. last_sent_raids' = CachedRaids(last_sent_raids)
  BY DEF send_raid_metrics
<1>3. CASE r \in ReportedRaids
  <2>1. r \in DOMAIN changed_raids /\ changed_raids[r] # NoValue
    BY <1>3, RaidAssumption
       DEF ReportedRaids, StatusNodesTyped, StatusesOfRaids, Publishable
  <2>2. SentStatus(r)' \in {changed_raids[r], NoValue}
    BY <1>2, <2>1, CachedByName DEF SentStatus
  <2> QED
    BY <1>1, <1>3, <2>1, <2>2, SendOutcome DEF LostRaid, DeliveredRaid, PubMissed
<1>4. CASE r \notin ReportedRaids
  <2>1. r \notin DOMAIN changed_raids
    BY <1>4 DEF ReportedRaids
  <2>2. SentStatus(r)' = SentStatus(r)
    BY <1>2, <2>1, CachedByName DEF SentStatus
  <2>3. /\ nodes'[StatusNode[r]] = nodes[StatusNode[r]]
        /\ StatusNode[r] \in missed' <=> StatusNode[r] \in missed
    BY <1>4, SendSpares
  <2> QED
    BY <1>1, <1>4, <2>2, <2>3 DEF KeptRaid, PubMissed
<1> QED
  BY <1>3, <1>4

LEMMA CyclePublishes ==
  ASSUME RefInv, RaidCycle, NEW r \in Raids
  PROVE  KeptRaid(r) \/ LostRaid(r) \/ DeliveredRaid(r)
<1>1. CASE collect_raid_states
  BY <1>1
     DEF collect_raid_states, KeptRaid, PubMissed, ReportedRaids, SentStatus, opcVars
<1>2. CASE detect_first_run
  <2>1. DOMAIN changed_raids = {} /\ DOMAIN last_sent_raids = {}
    BY <1>2 DEF RefInv, RaidInv, RaidsWaitToBeSent, NothingCachedYet, detect_first_run
  <2> QED
    BY <1>2, <2>1
       DEF detect_first_run, KeptRaid, LostRaid, PubMissed, ReportedRaids,
           SentStatus, opcVars
<1>3. CASE detect_raid_changes
  <2>1. DOMAIN changed_raids = {}
    BY <1>3 DEF RefInv, RaidInv, RaidsWaitToBeSent, detect_raid_changes
  <2> QED
    BY <1>3, <2>1
       DEF detect_raid_changes, KeptRaid, LostRaid, PubMissed, ReportedRaids,
           SentStatus, opcVars
<1>4. CASE RaidsKept
  <2>1. ReportedRaids = {} /\ ReportedRaids' = {}
    BY <1>4 DEF RaidsKept, RaidConfigs, ReportedRaids, EmptyMap
  <2> QED
    BY <1>4, <2>1 DEF RaidsKept, KeptRaid, PubMissed, SentStatus, opcVars
<1>5. CASE send_raid_metrics
  BY <1>5, SendPublishes
<1> QED
  BY <1>1, <1>2, <1>3, <1>4, <1>5 DEF RaidCycle

LEMMA ServerPublishes ==
  ASSUME ServerStep, UNCHANGED raidVars
  PROVE  \/ \A r \in Raids : KeptRaid(r)
         \/ \A r \in Raids : ForgetRaid(r)
<1>1. \A r \in Raids : /\ SentStatus(r)' = SentStatus(r)
                       /\ r \in ReportedRaids' <=> r \in ReportedRaids
  BY DEF SentStatus, ReportedRaids, raidVars
<1>2. CASE ServerRestarted
  BY <1>1, <1>2, RaidAssumption DEF ServerRestarted, ForgetRaid, PubMissed
<1>3. CASE ServerDown \/ ServerBack \/ OthersCall
  BY <1>1, <1>3 DEF ServerDown, ServerBack, OthersCall, KeptRaid, PubMissed
<1> QED
  BY <1>2, <1>3 DEF ServerStep

(***************************************************************************)
(* The refinement mapping of RaidPub.                                      *)
(***************************************************************************)
PubSentMap == [n \in StatusNodes |-> SentToRaid(n)]
PubShownMap == [n \in StatusNodes |-> nodes[n]]
PubMissedSet == (missed \cup NodesOf(RaidConfigs)) \cap StatusNodes

Mapped ==
  \A r \in Raids :
    /\ PubSentMap[StatusNode[r]] = SentStatus(r)
    /\ PubShownMap[StatusNode[r]] = nodes[StatusNode[r]]
    /\ StatusNode[r] \in PubMissedSet <=> PubMissed(r)

LEMMA MappedNodes == Mapped
<1> SUFFICES ASSUME NEW r \in Raids
             PROVE  /\ PubSentMap[StatusNode[r]] = SentStatus(r)
                    /\ PubShownMap[StatusNode[r]] = nodes[StatusNode[r]]
                    /\ StatusNode[r] \in PubMissedSet <=> PubMissed(r)
  BY DEF Mapped
<1>1. StatusNode[r] \in NodesOf(RaidConfigs) <=> r \in ReportedRaids
  <2>1. ReportedRaids \subseteq Raids
    BY DEF ReportedRaids
  <2> QED
    BY <2>1, RaidConfigsNodes, RaidAssumption
<1> QED
  BY <1>1, SentOfNode DEF PubSentMap, PubShownMap, PubMissedSet, PubMissed

LEMMA RefType == RefInv => RaidPub!PubTypeOK
<1> SUFFICES ASSUME RefInv PROVE RaidPub!PubTypeOK
  OBVIOUS
<1>1. PubSentMap \in [StatusNodes -> Publishable \cup {NoValue}]
  <2> SUFFICES ASSUME NEW r \in Raids
               PROVE  SentToRaid(StatusNode[r]) \in Publishable \cup {NoValue}
    BY DEF PubSentMap, StatusNodes
  <2> QED
    BY SentOfNode DEF SentStatus, RefInv, StatusNodesTyped, StatusesOfRaids
<1>2. PubShownMap \in [StatusNodes -> Publishable \cup {NoValue}]
  BY DEF PubShownMap, RefInv, StatusNodesTyped
<1>3. PubMissedSet \subseteq StatusNodes
  BY DEF PubMissedSet
<1> QED
  BY <1>1, <1>2, <1>3
     DEF RaidPub!PubTypeOK, PubSentMap, PubShownMap, PubMissedSet, Publishable

LEMMA RefInit == RaidInit => RaidPub!PubInit
<1> SUFFICES ASSUME RaidInit PROVE RaidPub!PubInit
  OBVIOUS
<1>1. DOMAIN changed_raids = {} /\ DOMAIN last_sent_raids = {}
  BY DEF RaidInit, EmptyMap
<1>2. \A n \in StatusNodes : SentToRaid(n) = NoValue
  BY <1>1 DEF SentToRaid, SentStatus
<1>3. \A n \in StatusNodes : nodes[n] = NoValue
  BY RaidAssumption DEF RaidInit, OpcInit, StatusNodes
<1>4. PubMissedSet = {}
  BY <1>1 DEF PubMissedSet, NodesOf, RaidConfigs, ReportedRaids, RaidInit, OpcInit
<1>5. PubSentMap = [n \in StatusNodes |-> NoValue]
  BY <1>2 DEF PubSentMap
<1>6. PubShownMap = [n \in StatusNodes |-> NoValue]
  BY <1>3 DEF PubShownMap
<1> QED
  BY <1>4, <1>5, <1>6
     DEF RaidPub!PubInit, PubSentMap, PubShownMap, PubMissedSet

(***************************************************************************)
(* From the arrays to the nodes.                                           *)
(***************************************************************************)
LEMMA RaidsPublish ==
  ASSUME RefInv', \A r \in Raids : KeptRaid(r) \/ LostRaid(r) \/ DeliveredRaid(r)
  PROVE  RaidPub!PubNext
<1>1. RaidPub!PubTypeOK'
  BY RefType, PTL
<1>2. Mapped /\ Mapped'
  BY MappedNodes, PTL
<1> SUFFICES ASSUME NEW k \in StatusNodes
             PROVE  RaidPub!Kept(k) \/ RaidPub!Lost(k) \/ RaidPub!Delivered(k)
  BY <1>1 DEF RaidPub!PubNext, RaidPub!Publish
<1>3. PICK r \in Raids : k = StatusNode[r]
  BY DEF StatusNodes
<1>4. CASE KeptRaid(r)
  <2>1. /\ PubSentMap'[k] \in {PubSentMap[k], NoValue}
        /\ PubShownMap'[k] = PubShownMap[k]
        /\ k \in PubMissedSet' <=> k \in PubMissedSet
    BY <1>2, <1>3, <1>4 DEF Mapped, KeptRaid
  <2> QED
    BY <2>1 DEF RaidPub!Kept, PubSentMap, PubShownMap, PubMissedSet
<1>5. CASE LostRaid(r)
  <2>1. PubShownMap'[k] = PubShownMap[k] /\ k \in PubMissedSet'
    BY <1>2, <1>3, <1>5 DEF Mapped, LostRaid
  <2> QED
    BY <2>1 DEF RaidPub!Lost, PubShownMap, PubMissedSet
<1>6. CASE DeliveredRaid(r)
  <2>1. /\ PubShownMap'[k] # NoValue
        /\ PubSentMap'[k] \in {PubShownMap'[k], NoValue}
        /\ k \notin PubMissedSet'
    BY <1>2, <1>3, <1>6 DEF Mapped, DeliveredRaid
  <2> QED
    BY <2>1 DEF RaidPub!Delivered, PubSentMap, PubShownMap, PubMissedSet
<1> QED
  BY <1>3, <1>4, <1>5, <1>6

LEMMA RaidsForget ==
  ASSUME RefInv', \A r \in Raids : ForgetRaid(r)
  PROVE  RaidPub!PubNext
<1>1. RaidPub!PubTypeOK'
  BY RefType, PTL
<1>2. Mapped /\ Mapped'
  BY MappedNodes, PTL
<1>3. \A k \in StatusNodes : \E r \in Raids : k = StatusNode[r]
  BY DEF StatusNodes
<1>4. ASSUME NEW k \in StatusNodes
      PROVE  /\ PubShownMap'[k] = NoValue
             /\ k \in PubMissedSet' <=> k \in PubMissedSet \/ PubShownMap[k] # NoValue
             /\ PubSentMap'[k] = PubSentMap[k]
  BY <1>2, <1>3 DEF Mapped, ForgetRaid
<1>5. PubShownMap' = [k \in StatusNodes |-> NoValue]
  BY <1>4 DEF PubShownMap
<1>6. PubMissedSet' =
        PubMissedSet \cup {k \in StatusNodes : PubShownMap[k] # NoValue}
  BY <1>4 DEF PubMissedSet
<1>7. PubSentMap' = PubSentMap
  BY <1>4 DEF PubSentMap
<1>8. RaidPub!Forget
  BY <1>5, <1>6, <1>7 DEF RaidPub!Forget, PubSentMap, PubShownMap, PubMissedSet
<1> QED
  BY <1>1, <1>8 DEF RaidPub!PubNext

LEMMA RefNext ==
  RefInv /\ RefInv' /\ [RaidNext]_<<opcVars, raidVars>>
    => [RaidPub!PubNext]_(RaidPub!pubVars)
<1> SUFFICES ASSUME RefInv, RefInv', [RaidNext]_<<opcVars, raidVars>>
             PROVE  [RaidPub!PubNext]_(RaidPub!pubVars)
  OBVIOUS
<1>1. CASE RaidCycle
  BY <1>1, CyclePublishes, RaidsPublish
<1>2. CASE ServerStep /\ UNCHANGED raidVars
  BY <1>2, ServerPublishes, RaidsPublish, RaidsForget
<1>3. CASE UNCHANGED <<opcVars, raidVars>>
  BY <1>3
     DEF opcVars, raidVars, RaidPub!pubVars, SentToRaid, SentStatus, NodesOf,
         RaidConfigs, ReportedRaids, StatusConfig, HealthConfig, StatusNodes
<1> QED
  BY <1>1, <1>2, <1>3 DEF RaidNext

(***************************************************************************)
(* The channel implements Publication, seen through its status nodes: from *)
(* first_run to the end of a write it never tells a node something else    *)
(* than what its cache goes on to believe, except by losing it.            *)
(***************************************************************************)
THEOREM RaidImplementsPublication == RaidSpec => RaidPublishes
BY RefInitInv, RefNextInv, RefInit, RefNext, PTL
   DEF RaidSpec, RaidPublishes, RaidPub!PubSpec
-------------------------------------------------------------------------------
(***************************************************************************)
(* The turn.  Each channel writes none but its own nodes, and of another   *)
(* channel's step one needs to know no more than that it spares one's own  *)
(* nodes: so the invariants proved above of each channel alone hold of the *)
(* four together.                                                          *)
(***************************************************************************)
Spares(S) == \A n \in S : nodes'[n] = nodes[n] /\ (n \in missed' <=> n \in missed)

LEMMA ChannelNodes ==
  /\ CpuNodes \subseteq NodeIds
  /\ DiskNodes \subseteq NodeIds
  /\ RamNodes \subseteq NodeIds
  /\ RaidNodes \subseteq NodeIds
<1>1. CpuNodes \subseteq NodeIds
  BY CpuAssumption DEF CpuNodes
<1>2. DiskNodes \subseteq NodeIds
  BY DiskAssumption DEF DiskNodes
<1>3. RamNodes \subseteq NodeIds
  BY RamAssumption DEF RamNodes
<1>4. RaidNodes \subseteq NodeIds
  BY RaidAssumption DEF RaidNodes
<1> QED
  BY <1>1, <1>2, <1>3, <1>4

LEMMA WriteSpares ==
  ASSUME NEW configs, Write(configs), OpcTypeOK
  PROVE  Spares(NodeIds \ NodesOf(configs))
BY WriteKeeps DEF Spares, OpcTypeOK

LEMMA UnchangedSpares ==
  ASSUME UNCHANGED opcVars, NEW S
  PROVE  Spares(S)
BY DEF Spares, opcVars

LEMMA CpuSpares ==
  ASSUME CpuTypeOK, Cycle
  PROVE  Spares(NodeIds \ CpuNodes)
<1>1. CASE Send
  <2>1. NodesOf(CpuConfigs(current_usages)) \subseteq CpuNodes
    BY CpuConfigsNodes, PartialMapsElim DEF CpuTypeOK, CpuNodes, Configured
  <2>2. Spares(NodeIds \ NodesOf(CpuConfigs(current_usages)))
    BY <1>1, WriteSpares DEF Send, CpuTypeOK
  <2> QED
    BY <2>1, <2>2 DEF Spares
<1>2. CASE UNCHANGED opcVars
  BY <1>2, UnchangedSpares
<1> QED
  BY <1>1, <1>2
     DEF Cycle, CollectUnloaded, ReadFirst, ReadSecond, KeepSilent

LEMMA DiskSpares ==
  ASSUME DiskTypes, DiskCycle
  PROVE  Spares(NodeIds \ DiskNodes)
<1>1. CASE send_full_disk_metrics
  <2>1. NodesOf(DiskConfigs) \subseteq DiskNodes
    <3>1. \A c \in DiskConfigs :
            \E d \in Disks : c.node_id \in AmountNodes[d] \cup UnitsNodes[d]
      BY ChangedDisks, DiskConfigsNodes DEF DiskTypes
    <3> QED
      BY <3>1 DEF NodesOf, DiskNodes
  <2>2. Spares(NodeIds \ NodesOf(DiskConfigs))
    BY <1>1, WriteSpares DEF send_full_disk_metrics, DiskTypes
  <2> QED
    BY <2>1, <2>2 DEF Spares
<1>2. CASE UNCHANGED opcVars
  BY <1>2, UnchangedSpares
<1> QED
  BY <1>1, <1>2 DEF DiskCycle, collect_disk_usage, find_changed_disks, DisksKept

LEMMA RamSpares ==
  ASSUME RamTypes, RamCycle
  PROVE  Spares(NodeIds \ RamNodes)
<1>1. CASE send_ram_metrics
  <2>1. NodesOf(RamConfigs) \subseteq RamNodes
    BY RamConfigsNodes DEF RamTypes, RamTypeOK
  <2>2. Spares(NodeIds \ NodesOf(RamConfigs))
    BY <1>1, WriteSpares DEF send_ram_metrics, RamTypes
  <2> QED
    BY <2>1, <2>2 DEF Spares
<1>2. CASE UNCHANGED opcVars
  BY <1>2, UnchangedSpares
<1> QED
  BY <1>1, <1>2 DEF RamCycle, collect_ram_usage, RamKept

LEMMA RaidSpares ==
  ASSUME RaidTypeOK, RaidCycle
  PROVE  Spares(NodeIds \ RaidNodes)
<1>1. CASE send_raid_metrics
  <2>1. NodesOf(RaidConfigs) \subseteq RaidNodes
    BY RaidConfigsNodes DEF RaidNodes, ReportedRaids
  <2>2. Spares(NodeIds \ NodesOf(RaidConfigs))
    BY <1>1, WriteSpares DEF send_raid_metrics, RaidTypeOK
  <2> QED
    BY <2>1, <2>2 DEF Spares
<1>2. CASE UNCHANGED opcVars
  BY <1>2, UnchangedSpares
<1> QED
  BY <1>1, <1>2
     DEF RaidCycle, collect_raid_states, detect_first_run, detect_raid_changes,
         RaidsKept

-------------------------------------------------------------------------------
(***************************************************************************)
(* A channel during the step of another.                                   *)
(***************************************************************************)
LEMMA CpuWaits ==
  ASSUME CpuInv, OpcTypeOK', Spares(CpuNodes), UNCHANGED cpuVars
  PROVE  CpuInv'
<1>1. CpuTypeOK'
  BY DEF CpuInv, CpuTypeOK, cpuVars
<1>2. \A c \in DOMAIN last_sent_cpu_usages : CpuNode[c] \in CpuNodes
  BY PartialMapsElim DEF CpuInv, CpuTypeOK, CpuNodes
<1>3. CacheIsShown'
  BY <1>2 DEF CpuInv, CacheIsShown, Spares, cpuVars
<1> QED
  BY <1>1, <1>3 DEF CpuInv, CacheIsCurrent, cpuVars

LEMMA DiskWaits ==
  ASSUME DiskInv, OpcTypeOK', Spares(DiskNodes), UNCHANGED diskVars
  PROVE  DiskInv'
<1>1. DiskTypes'
  BY DEF DiskInv, DiskTypes, EntriesFit, diskVars
<1>2. DiskCacheIsShown'
  <2> SUFFICES ASSUME NEW d \in DOMAIN last_sent_disk_usage \ changed_disks,
                      NEW c \in ConfigsOf(handed_disks[d], last_sent_disk_usage[d]),
                      c.node_id \notin missed'
               PROVE  nodes'[c.node_id] = Wire(c)
    BY DEF DiskCacheIsShown, diskVars
  <2>1. c.node_id \in DiskNodes
    BY HandedNodes DEF DiskNodes
  <2> QED
    BY <2>1 DEF DiskInv, DiskCacheIsShown, Spares
<1> QED
  BY <1>1, <1>2
     DEF DiskInv, HandedIsCached, DiskCacheIsCurrent, DisksWaitToBeSent, diskVars

LEMMA RamWaits ==
  ASSUME RamInv, OpcTypeOK', Spares(RamNodes), UNCHANGED ramVars
  PROVE  RamInv'
<1>1. RamTypes'
  BY DEF RamInv, RamTypes, RamTypeOK, RamEntriesFit, ramVars
<1>2. RamCacheIsShown'
  <2> SUFFICES ASSUME NEW f \in DOMAIN handed_ram
               PROVE  /\ handed_ram[f].node \in RamNodesOf[f]
                      /\ handed_ram[f].node \notin missed' =>
                           nodes'[handed_ram[f].node]
                             = Wire(RamConfig(handed_ram[f], last_sent_ram[f]))
    BY DEF RamCacheIsShown, ramVars
  <2>1. handed_ram[f].node \in RamNodes
    BY HandedRamNodes
  <2> QED
    BY <2>1 DEF RamInv, RamCacheIsShown, Spares
<1> QED
  BY <1>1, <1>2
     DEF RamInv, RamCacheAtStart, RamCacheIsCurrent, WithNode, ramVars

LEMMA RaidWaits ==
  ASSUME RefInv, OpcTypeOK', Spares(RaidNodes), UNCHANGED raidVars
  PROVE  RefInv' /\ RaidPub!PubNext
<1>1. RaidTypeOK'
  BY DEF RefInv, RaidInv, RaidTypeOK, raidVars
<1>2. \A r \in Raids : \A n \in {StatusNode[r], HealthNode[r]} :
        nodes'[n] = nodes[n] /\ (n \in missed' <=> n \in missed)
  BY DEF Spares, RaidNodes
<1>3. RaidCacheIsShown'
  BY <1>2 DEF RefInv, RaidInv, RaidCacheIsShown, StatusFits, raidVars
<1>4. HealthFitsStatus'
  BY <1>2, HealthKept DEF RefInv, RaidInv
<1>5. RaidInv'
  BY <1>1, <1>3, <1>4
     DEF RefInv, RaidInv, RaidCacheIsCurrent, ChangeIsOf, SameState,
         RaidsWaitToBeSent, NothingCachedYet, raidVars
<1>6. StatusNodesTyped'
  BY <1>2 DEF RefInv, StatusNodesTyped, StatusNodes, StatusesOfRaids, raidVars
<1>7. \A r \in Raids : KeptRaid(r)
  BY <1>2 DEF KeptRaid, PubMissed, SentStatus, ReportedRaids, raidVars
<1> QED
  BY <1>5, <1>6, <1>7, RaidsPublish DEF RefInv

-------------------------------------------------------------------------------
(***************************************************************************)
(* The order of the channels.                                              *)
(***************************************************************************)
Names == {"cpu", "disks", "ram", "raid"}

LEMMA Positions ==
  /\ Position("cpu") = 1
  /\ Position("disks") = 2
  /\ Position("ram") = 3
  /\ Position("raid") = 4
BY DEF Position, Order

LEMMA FirstFromType ==
  ASSUME NEW S \in SUBSET Names, S # {}, NEW i \in Nat
  PROVE  FirstFrom(S, i) \in S
<1> DEFINE later == {s \in S : Position(s) >= i}
           among == IF later = {} THEN S ELSE later
<1>1. among # {} /\ among \subseteq S
  OBVIOUS
<1>2. \E s \in among : \A t \in among : Position(s) <= Position(t)
  <2>1. among \subseteq Names
    BY <1>1
  <2>2. CASE "cpu" \in among
    BY <2>1, <2>2, Positions DEF Names
  <2>3. CASE "cpu" \notin among /\ "disks" \in among
    BY <2>1, <2>3, Positions DEF Names
  <2>4. CASE "cpu" \notin among /\ "disks" \notin among /\ "ram" \in among
    BY <2>1, <2>4, Positions DEF Names
  <2>5. CASE among \subseteq {"raid"}
    BY <1>1, <2>5, Positions
  <2> QED
    BY <2>1, <2>2, <2>3, <2>4, <2>5 DEF Names
<1>3. FirstFrom(S, i) = CHOOSE s \in among : \A t \in among : Position(s) <= Position(t)
  BY DEF FirstFrom
<1>4. FirstFrom(S, i) \in among
  BY <1>2, <1>3
<1> QED
  BY <1>1, <1>4

-------------------------------------------------------------------------------
(***************************************************************************)
(* The inductive invariant of the turn: those of the channels, and that a  *)
(* channel whose turn it is not is between two cycles.                     *)
(***************************************************************************)
OneAtATime ==
  /\ sections \in SUBSET Names
  /\ turn \in sections
  /\ turn # "cpu" => pc = "collect"
  /\ turn # "disks" => disk_pc = "collect"
  /\ turn # "ram" => ram_pc = "collect"
  /\ turn # "raid" => raid_pc = "collect"

TurnInv == CpuInv /\ DiskInv /\ RamInv /\ RefInv /\ OneAtATime

LEMMA TurnInitInv == TurnInit => TurnInv
<1> SUFFICES ASSUME TurnInit PROVE TurnInv
  OBVIOUS
<1>1. CpuInit /\ DiskInit /\ RamInit /\ RaidInit /\ OpcInit
  BY DEF TurnInit, CpuInit
<1>2. CpuInv /\ DiskInv /\ RamInv /\ RefInv
  BY <1>1, CpuInitInv, DiskInitInv, RamInitInv, RefInitInv
<1>3. sections \in SUBSET Names /\ turn \in sections
  BY SectionsAssumption, FirstFromType DEF TurnInit, Names
<1> QED
  BY <1>1, <1>2, <1>3
     DEF TurnInv, OneAtATime, CpuInit, DiskInit, RamInit, RaidInit

LEMMA FollowingType ==
  ASSUME OneAtATime
  PROVE  Following(turn) \in sections
<1>1. Position(turn) + 1 \in Nat
  BY Positions DEF OneAtATime, Names
<1> QED
  BY <1>1, FirstFromType DEF OneAtATime, Following

(***************************************************************************)
(* The part of one channel: its own invariant by the proofs above, those   *)
(* of the others because it spares their nodes, which are not its own.     *)
(***************************************************************************)
LEMMA CpuTurnInv ==
  ASSUME TurnInv, CpuTurn
  PROVE  TurnInv' /\ RaidPub!PubNext
<1>1. CpuInv'
  BY CpuNextInv DEF TurnInv, CpuTurn, CpuNext
<1>2. OpcTypeOK'
  BY <1>1 DEF CpuInv, CpuTypeOK
<1>3. Spares(NodeIds \ CpuNodes)
  BY CpuSpares DEF TurnInv, CpuInv, CpuTurn
<1>4. Spares(DiskNodes) /\ Spares(RamNodes) /\ Spares(RaidNodes)
  BY <1>3, NodesAssumption, ChannelNodes DEF Spares
<1>5. DiskInv' /\ RamInv' /\ RefInv' /\ RaidPub!PubNext
  BY <1>2, <1>4, DiskWaits, RamWaits, RaidWaits DEF TurnInv, CpuTurn
<1>6. OneAtATime'
  BY FollowingType
     DEF TurnInv, OneAtATime, CpuTurn, EndOfPart, diskVars, ramVars, raidVars
<1> QED
  BY <1>1, <1>5, <1>6 DEF TurnInv

LEMMA DisksTurnInv ==
  ASSUME TurnInv, DisksTurn
  PROVE  TurnInv' /\ RaidPub!PubNext
<1>1. DiskInv'
  BY DiskNextInv DEF TurnInv, DisksTurn, DiskNext
<1>2. OpcTypeOK'
  BY <1>1 DEF DiskInv, DiskTypes
<1>3. Spares(NodeIds \ DiskNodes)
  BY DiskSpares DEF TurnInv, DiskInv, DisksTurn
<1>4. Spares(CpuNodes) /\ Spares(RamNodes) /\ Spares(RaidNodes)
  BY <1>3, NodesAssumption, ChannelNodes DEF Spares
<1>5. CpuInv' /\ RamInv' /\ RefInv' /\ RaidPub!PubNext
  BY <1>2, <1>4, CpuWaits, RamWaits, RaidWaits DEF TurnInv, DisksTurn
<1>6. OneAtATime'
  BY FollowingType
     DEF TurnInv, OneAtATime, DisksTurn, EndOfPart, cpuVars, ramVars, raidVars
<1> QED
  BY <1>1, <1>5, <1>6 DEF TurnInv

LEMMA RamTurnInv ==
  ASSUME TurnInv, RamTurn
  PROVE  TurnInv' /\ RaidPub!PubNext
<1>1. RamInv'
  BY RamNextInv DEF TurnInv, RamTurn, RamNext
<1>2. OpcTypeOK'
  BY <1>1 DEF RamInv, RamTypes
<1>3. Spares(NodeIds \ RamNodes)
  BY RamSpares DEF TurnInv, RamInv, RamTurn
<1>4. Spares(CpuNodes) /\ Spares(DiskNodes) /\ Spares(RaidNodes)
  BY <1>3, NodesAssumption, ChannelNodes DEF Spares
<1>5. CpuInv' /\ DiskInv' /\ RefInv' /\ RaidPub!PubNext
  BY <1>2, <1>4, CpuWaits, DiskWaits, RaidWaits DEF TurnInv, RamTurn
<1>6. OneAtATime'
  BY FollowingType
     DEF TurnInv, OneAtATime, RamTurn, EndOfPart, cpuVars, diskVars, raidVars
<1> QED
  BY <1>1, <1>5, <1>6 DEF TurnInv

LEMMA RaidTurnInv ==
  ASSUME TurnInv, RaidTurn
  PROVE  TurnInv' /\ RaidPub!PubNext
<1>1. RefInv' /\ RaidPub!PubNext
  <2>1. RefInv'
    BY RefNextInv DEF TurnInv, RaidTurn, RaidNext
  <2> QED
    BY <2>1, CyclePublishes, RaidsPublish DEF TurnInv, RaidTurn
<1>2. OpcTypeOK'
  BY <1>1 DEF RefInv, RaidInv, RaidTypeOK
<1>3. Spares(NodeIds \ RaidNodes)
  BY RaidSpares DEF TurnInv, RefInv, RaidInv, RaidTurn
<1>4. Spares(CpuNodes) /\ Spares(DiskNodes) /\ Spares(RamNodes)
  BY <1>3, NodesAssumption, ChannelNodes DEF Spares
<1>5. CpuInv' /\ DiskInv' /\ RamInv'
  BY <1>2, <1>4, CpuWaits, DiskWaits, RamWaits DEF TurnInv, RaidTurn
<1>6. OneAtATime'
  BY FollowingType
     DEF TurnInv, OneAtATime, RaidTurn, EndOfPart, cpuVars, diskVars, ramVars
<1> QED
  BY <1>1, <1>5, <1>6 DEF TurnInv

(***************************************************************************)
(* Beside the loop every channel sees a step of its server or nothing.     *)
(***************************************************************************)
LEMMA BesideInv ==
  ASSUME TurnInv, Beside
  PROVE  TurnInv' /\ [RaidPub!PubNext]_(RaidPub!pubVars)
<1>1. CASE Environment
  <2>1. CpuInv'
    BY <1>1, CpuNextInv DEF TurnInv, CpuNext
  <2>2. DiskInv' /\ RamInv' /\ RefInv'
    BY <1>1, DiskNextInv, RamNextInv, RefNextInv
       DEF TurnInv, Beside, Environment, DiskNext, RamNext, RaidNext
  <2>3. [RaidPub!PubNext]_(RaidPub!pubVars)
    BY <1>1, <2>2, RefNext DEF TurnInv, Beside, Environment, RaidNext
  <2>4. OneAtATime'
    BY <1>1 DEF TurnInv, OneAtATime, Beside, Environment, cpuVars, diskVars,
                ramVars, raidVars
  <2> QED
    BY <2>1, <2>2, <2>3, <2>4 DEF TurnInv
<1>2. CASE HotplugStep
  <2>1. CpuInv'
    BY <1>2, CpuNextInv DEF TurnInv, CpuNext
  <2>2. UNCHANGED opcVars
    BY <1>2 DEF HotplugStep
  <2>3. DiskInv' /\ RamInv' /\ RefInv'
    BY <2>2, DiskNextInv, RamNextInv, RefNextInv DEF TurnInv, Beside
  <2>4. [RaidPub!PubNext]_(RaidPub!pubVars)
    BY <2>2, <2>3, RefNext DEF TurnInv, Beside
  <2>5. OneAtATime'
    BY <1>2 DEF TurnInv, OneAtATime, Beside, HotplugStep, diskVars, ramVars,
                raidVars
  <2> QED
    BY <2>1, <2>3, <2>4, <2>5 DEF TurnInv
<1> QED
  BY <1>1, <1>2 DEF Beside

LEMMA TurnNextInv ==
  TurnInv /\ [TurnNext]_turnVars
    => TurnInv' /\ [RaidPub!PubNext]_(RaidPub!pubVars)
<1> SUFFICES ASSUME TurnInv, [TurnNext]_turnVars
             PROVE  TurnInv' /\ [RaidPub!PubNext]_(RaidPub!pubVars)
  OBVIOUS
<1>1. CASE CpuTurn
  BY <1>1, CpuTurnInv
<1>2. CASE DisksTurn
  BY <1>2, DisksTurnInv
<1>3. CASE RamTurn
  BY <1>3, RamTurnInv
<1>4. CASE RaidTurn
  BY <1>4, RaidTurnInv
<1>5. CASE Beside
  BY <1>5, BesideInv
<1>6. CASE UNCHANGED turnVars
  <2>1. /\ UNCHANGED vars
        /\ UNCHANGED <<opcVars, diskVars>>
        /\ UNCHANGED <<opcVars, ramVars>>
        /\ UNCHANGED <<opcVars, raidVars>>
    BY <1>6 DEF turnVars, vars
  <2>2. CpuInv' /\ DiskInv' /\ RamInv' /\ RefInv'
    BY <2>1, CpuNextInv, DiskNextInv, RamNextInv, RefNextInv DEF TurnInv
  <2>3. [RaidPub!PubNext]_(RaidPub!pubVars)
    BY <2>1, <2>2, RefNext DEF TurnInv
  <2>4. OneAtATime'
    BY <1>6 DEF turnVars, TurnInv, OneAtATime, cpuVars, diskVars, ramVars, raidVars
  <2> QED
    BY <2>2, <2>3, <2>4 DEF TurnInv
<1> QED
  BY <1>1, <1>2, <1>3, <1>4, <1>5, <1>6 DEF TurnNext, Turn

-------------------------------------------------------------------------------
(***************************************************************************)
(* Type correctness of the turn, and that one channel is at work at a      *)
(* time.                                                                   *)
(***************************************************************************)
THEOREM TurnTypeCorrect == TurnSpec => []TurnTypeOK
<1>1. TurnInv => TurnTypeOK
  BY DiskInvType
     DEF TurnInv, CpuInv, RamInv, RamTypes, RefInv, RaidInv, OneAtATime, TurnTypeOK
<1> QED
  BY <1>1, TurnInitInv, TurnNextInv, PTL DEF TurnSpec

(***************************************************************************)
(* In the turn of the main loop every channel goes on showing what it      *)
(* shows alone, whatever the others' writes meet: usages, amounts beside   *)
(* their units, memory, the states of the arrays and their health.         *)
(***************************************************************************)
THEOREM TurnShows ==
  TurnSpec => [](/\ ShownIsCurrent
                 /\ AmountFitsUnits
                 /\ RamShown
                 /\ RaidShown
                 /\ HealthFitsStatus)
<1>1. TurnInv => ShownIsCurrent
  BY CpuInvShows DEF TurnInv
<1>2. TurnInv => AmountFitsUnits
  BY DiskInvShows DEF TurnInv
<1>3. TurnInv => RamShown
  BY RamInvShows DEF TurnInv
<1>4. TurnInv => RaidShown /\ HealthFitsStatus
  BY RaidInvShows DEF TurnInv, RefInv
<1> QED
  BY <1>1, <1>2, <1>3, <1>4, TurnInitInv, TurnNextInv, PTL DEF TurnSpec

(***************************************************************************)
(* The RAID channel implements Publication in the turn as well: the steps  *)
(* of the other channels are steps that keep all its nodes.                *)
(***************************************************************************)
THEOREM TurnImplementsPublication == TurnSpec => RaidPublishes
<1>1. TurnInit => RaidPub!PubInit
  BY RefInit DEF TurnInit
<1> QED
  BY <1>1, TurnInitInv, TurnNextInv, PTL DEF TurnSpec, RaidPublishes, RaidPub!PubSpec
===============================================================================
