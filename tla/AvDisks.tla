-------------------------------- MODULE AvDisks --------------------------------
(***************************************************************************)
(* The disk part of class AvDiagnostics.  In contrast to the disk channel  *)
(* of the monitor a disk that is not mounted any more keeps the data it    *)
(* had, and the types of the nodes for the names of the units are never    *)
(* loaded.  One amount stands for total, used and available.               *)
(***************************************************************************)
EXTENDS AvDocument, IntNumbers

CONSTANTS
  AvDiskNames,    \* the mount points config.xml may name
  AvAmountNodes,  \* AvAmountNodes[d], AvUnitsNodes[d]: the nodes config.xml
  AvUnitsNodes,   \* may name for disk d
  AvUnits,        \* the units, each by the bytes it holds
  AvBytes         \* the amounts statvfs may give

(***************************************************************************)
(* DiskConfig.  An attribute that is not there leaves its member empty.    *)
(***************************************************************************)
AvDiskEntries(d) ==
  [node : AvAmountNodes[d] \cup {NoNode}, type : types_ \cup {""},
   units_node : AvUnitsNodes[d] \cup {NoNode}, units : AvUnits]

AvEntriesFit(configs) ==
  /\ DOMAIN configs \subseteq AvDiskNames
  /\ \A d \in DOMAIN configs : configs[d] \in AvDiskEntries(d)

ASSUME AvDisksAssumption ==
  /\ \A d \in AvDiskNames :
       AvAmountNodes[d] \subseteq NodeIds /\ AvUnitsNodes[d] \subseteq NodeIds
  /\ \A d, e \in AvDiskNames : AvAmountNodes[d] \cap AvUnitsNodes[e] = {}
  /\ \A d, e \in AvDiskNames :
       d # e => /\ AvAmountNodes[d] \cap AvAmountNodes[e] = {}
                /\ AvUnitsNodes[d] \cap AvUnitsNodes[e] = {}
  /\ AvUnits \subseteq Nat \ {0} /\ AvBytes \subseteq Nat

ASSUME AvDiskEditions == \A file \in Editions("disks") : AvEntriesFit(file)

VARIABLES
  disk_configs_,          \* the DiskConfig of every disk ever loaded
  current_disk_usage_,    \* the bytes of every disk that ever answered
  last_sent_disk_usage_,
  handed_entries          \* history: the DiskConfigs of the last handover

avDiskVars == <<disk_configs_, current_disk_usage_, last_sent_disk_usage_,
                handed_entries>>

(***************************************************************************)
(* convertUnits with precision 0.  The class declares and nowhere defines  *)
(* it; taken to be what convert_units of src/main.cpp is.                  *)
(***************************************************************************)
convertUnits(bytes, units) == (2 * bytes + units) \div (2 * units)

(***************************************************************************)
(* findChangedDisks                                                        *)
(***************************************************************************)
hasDiskChangedByHalf(d) ==      \* mutant: within one percent nothing has changed
  d \in DOMAIN last_sent_disk_usage_ =>
    last_sent_disk_usage_[d] \div 2 # current_disk_usage_[d] \div 2

hasDiskChanged(d) ==
  d \in DOMAIN last_sent_disk_usage_ =>
    last_sent_disk_usage_[d] # current_disk_usage_[d]

ChangedDisks == {d \in DOMAIN current_disk_usage_ : hasDiskChanged(d)}

(***************************************************************************)
(* sendDiskMetric: STRING stores s, INT stores i, any other type f.        *)
(***************************************************************************)
AvAmountMember(type) ==
  IF type = "STRING" THEN "s" ELSE IF type = "INT" THEN "i" ELSE "f"

AvAmountConfig(entry, bytes) ==
  LET amount == convertUnits(bytes, entry.units)
  IN  WriteConfig(entry.node, entry.type, AvAmountMember(entry.type),
                  IF entry.type = "INT" THEN ToInt(amount) ELSE amount)

AvUnitsConfig(entry) == WriteConfig(entry.units_node, "", "s", entry.units)

(***************************************************************************)
(* No units without an amount, and nothing for an empty node.              *)
(***************************************************************************)
AvConfigsOf(entry, bytes) ==
  {c \in {AvAmountConfig(entry, bytes), AvUnitsConfig(entry)} :
     entry.node # NoNode /\ c.node_id # NoNode}

AvDiskConfigs ==
  UNION {AvConfigsOf(disk_configs_[d], current_disk_usage_[d]) : d \in ChangedDisks}

-------------------------------------------------------------------------------
AvDisksTypeOK ==
  /\ AvEntriesFit(disk_configs_)
  /\ current_disk_usage_ \in PartialMaps(DOMAIN disk_configs_, AvBytes)
  /\ last_sent_disk_usage_ \in PartialMaps(DOMAIN current_disk_usage_, AvBytes)
  /\ AvEntriesFit(handed_entries)
  /\ DOMAIN handed_entries = DOMAIN last_sent_disk_usage_

AvDisksInit ==
  /\ disk_configs_ = EmptyMap
  /\ current_disk_usage_ = EmptyMap
  /\ last_sent_disk_usage_ = EmptyMap
  /\ handed_entries = EmptyMap

(***************************************************************************)
(* collectDiskUsage, which calls loadDiskConfigs: nothing is ever taken    *)
(* out of the configurations or of the data.                               *)
(***************************************************************************)
collectDiskUsage ==
  /\ Goes("idle", "collected")
  /\ doc_ \notin {NoRoot, NoSection}
  /\ disk_configs_' = Merge(disk_configs_, doc_)
  /\ \E answered \in PartialMaps(DOMAIN disk_configs_', AvBytes) :
       current_disk_usage_' = Merge(current_disk_usage_, answered)
  /\ UNCHANGED <<opcVars, batch, last_sent_disk_usage_, handed_entries>>

collectDiskUsageCrash ==
  /\ av_pc = "idle"
  /\ doc_ \in {NoRoot, NoSection}
  /\ Crash
  /\ UNCHANGED avDiskVars

(***************************************************************************)
(* findChangedDisks puts what changed into the cache, then                 *)
(* sendFullDiskMetrics writes the nodes of it, if there are any, without a *)
(* look at the connection.                                                 *)
(***************************************************************************)
findChangedDisks ==
  /\ Goes("collected", "idle")
  /\ last_sent_disk_usage_' =
       Merge(last_sent_disk_usage_, On(current_disk_usage_, ChangedDisks))
  /\ handed_entries' = Merge(handed_entries, On(disk_configs_, ChangedDisks))
  /\ UNCHANGED <<batch, disk_configs_, current_disk_usage_>>

AvDisksKept ==
  /\ findChangedDisks
  /\ AvDiskConfigs = {}
  /\ UNCHANGED opcVars

sendFullDiskMetrics ==
  /\ findChangedDisks
  /\ AvDiskConfigs # {}
  /\ Write(AvDiskConfigs)

AvDisksStep ==
  \/ collectDiskUsage \/ collectDiskUsageCrash \/ AvDisksKept
  \/ sendFullDiskMetrics

-------------------------------------------------------------------------------
(***************************************************************************)
(* Between two cycles the node config.xml named for a disk when its amount *)
(* last changed shows what the type and the units of then make of the      *)
(* amount the disk answered last, mounted or not, unless the server missed *)
(* it; and no node that should name the units was ever written, because it *)
(* goes out without a type.  Concerns the cache findChangedDisks fills     *)
(* before the batch, and documents loaded between the two.                 *)
(***************************************************************************)
AvAmountShown ==
  av_pc = "idle" =>
    \A d \in DOMAIN current_disk_usage_ :
      LET entry == handed_entries[d]
      IN  /\ entry.node \notin missed \cup {NoNode} =>
               nodes[entry.node] =
                 Wire(AvAmountConfig(entry, current_disk_usage_[d]))
          /\ \A n \in AvUnitsNodes[d] : nodes[n] = NoValue
===============================================================================
