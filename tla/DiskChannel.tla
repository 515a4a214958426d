------------------------------ MODULE DiskChannel ------------------------------
(***************************************************************************)
(* The disk channel of the monitor (src/main.cpp, section ДИСКИ).  A cycle *)
(* rereads config.xml, asks statvfs about every disk it has ever named,    *)
(* caches the data of those that changed, and only then hands the nodes of *)
(* those disks to the OPC UA client: the amounts, converted to the units   *)
(* of the configuration, and beside each amount a node with the name of    *)
(* these units.  The nodes, their types and the units are those config.xml *)
(* has now, or had when it last named the disk.                            *)
(*                                                                         *)
(* Total, used and available space are treated alike, so one amount stands *)
(* for the three; the percent and the mount point follow from it.          *)
(***************************************************************************)
EXTENDS OpcUaClient, IntNumbers, Maps

CONSTANTS
  Disks,        \* the mount points config.xml may name
  AmountNodes,  \* AmountNodes[d], UnitsNodes[d]: the nodes config.xml may
  UnitsNodes,   \* name for disk d
  Units,        \* the units, each by the bytes it holds
  DiskEditions, \* what the section may hold: a DiskConfig for some disks
  Bytes         \* the amounts statvfs may give

(***************************************************************************)
(* DiskConfig.  An attribute that is not there leaves its member empty.    *)
(***************************************************************************)
DiskEntries(d) ==
  [node : AmountNodes[d] \cup {NoNode}, type : types_ \cup {""},
   units_node : UnitsNodes[d] \cup {NoNode}, units : Units]

EntriesFit(configs) ==
  /\ DOMAIN configs \subseteq Disks
  /\ \A d \in DOMAIN configs : configs[d] \in DiskEntries(d)

ASSUME DiskAssumption ==
  /\ \A d \in Disks :
       AmountNodes[d] \subseteq NodeIds /\ UnitsNodes[d] \subseteq NodeIds
  /\ \A d, e \in Disks : AmountNodes[d] \cap UnitsNodes[e] = {}
  /\ \A d, e \in Disks :
       d # e => /\ AmountNodes[d] \cap AmountNodes[e] = {}
                /\ UnitsNodes[d] \cap UnitsNodes[e] = {}
  /\ Units \subseteq Nat \ {0}
  /\ \A file \in DiskEditions : EntriesFit(file)
  /\ Bytes \subseteq Nat

VARIABLES
  disk_pc,               \* where the cycle is
  disk_configs,          \* the DiskConfig of every disk ever named
  current_data,          \* the bytes of every disk statvfs answered for
  changed_disks,         \* the disks whose data changed
  last_sent_disk_usage,
  handed_disks           \* history: the DiskConfigs of the last handover

diskVars == <<disk_pc, disk_configs, current_data, changed_disks,
              last_sent_disk_usage, handed_disks>>

(***************************************************************************)
(* convert_units with precision 0: round() of bytes / units.               *)
(***************************************************************************)
convert_units(bytes, units) == (2 * bytes + units) \div (2 * units)

-------------------------------------------------------------------------------
DiskTypeOK ==
  /\ disk_pc \in {"collect", "detect", "send"}
  /\ EntriesFit(disk_configs)
  /\ current_data \in PartialMaps(DOMAIN disk_configs, Bytes)
  /\ changed_disks \subseteq DOMAIN current_data
  /\ last_sent_disk_usage \in PartialMaps(DOMAIN disk_configs, Bytes)
  /\ EntriesFit(handed_disks)
  /\ disk_pc = "collect" => DOMAIN handed_disks = DOMAIN last_sent_disk_usage

DiskInit ==
  /\ disk_pc = "collect"
  /\ disk_configs = EmptyMap
  /\ current_data = EmptyMap
  /\ changed_disks = {}
  /\ last_sent_disk_usage = EmptyMap
  /\ handed_disks = EmptyMap

(***************************************************************************)
(* load_disk_configs: what config.xml names now (nothing when it cannot be *)
(* read) goes over what it named before; nothing is ever taken out.        *)
(***************************************************************************)
LoadedClean(file) == file    \* mutant: disk_configs is emptied first

Loaded(file) == Merge(disk_configs, file)

collect_disk_usage ==
  /\ disk_pc = "collect"
  /\ \E file \in DiskEditions \cup {EmptyMap} : disk_configs' = Loaded(file)
  /\ current_data' \in PartialMaps(DOMAIN disk_configs', Bytes)
  /\ disk_pc' = "detect"
  /\ UNCHANGED <<opcVars, changed_disks, last_sent_disk_usage, handed_disks>>

(***************************************************************************)
(* find_changed_disks: the cache takes the data at once.                   *)
(***************************************************************************)
has_disk_changed_by_half(d) ==      \* mutant: within one percent nothing has changed
  d \in DOMAIN last_sent_disk_usage =>
    last_sent_disk_usage[d] \div 2 # current_data[d] \div 2

has_disk_changed(d) ==
  d \in DOMAIN last_sent_disk_usage => last_sent_disk_usage[d] # current_data[d]

find_changed_disks ==
  /\ disk_pc = "detect"
  /\ changed_disks' = {d \in DOMAIN current_data : has_disk_changed(d)}
  /\ last_sent_disk_usage' =
       Merge(last_sent_disk_usage, On(current_data, changed_disks'))
  /\ disk_pc' = "send"
  /\ UNCHANGED <<opcVars, disk_configs, current_data, handed_disks>>

(***************************************************************************)
(* send_disk_metric: STRING stores s, INT stores i, any other type f.      *)
(***************************************************************************)
AmountMember(type) ==
  IF type = "STRING" THEN "s" ELSE IF type = "INT" THEN "i" ELSE "f"

AmountConfig(entry, bytes) ==
  LET amount == convert_units(bytes, entry.units)
  IN  WriteConfig(entry.node, entry.type, AmountMember(entry.type),
                  IF entry.type = "INT" THEN ToInt(amount) ELSE amount)

UnitsConfig(entry) == WriteConfig(entry.units_node, "STRING", "s", entry.units)

(***************************************************************************)
(* send_full_disk_metrics: no units without an amount, and nothing for an  *)
(* empty node.  There is no look at the connection.                        *)
(***************************************************************************)
ConfigsOf(entry, bytes) ==
  {c \in {AmountConfig(entry, bytes), UnitsConfig(entry)} :
     entry.node # NoNode /\ c.node_id # NoNode}

DiskConfigs ==
  UNION {ConfigsOf(disk_configs[d], current_data[d]) : d \in changed_disks}

Handed == Merge(handed_disks, On(disk_configs, changed_disks))

DisksKept ==
  /\ disk_pc = "send"
  /\ DiskConfigs = {}
  /\ changed_disks' = {}
  /\ disk_pc' = "collect"
  /\ handed_disks' = Handed
  /\ UNCHANGED <<opcVars, disk_configs, current_data, last_sent_disk_usage>>

send_full_disk_metrics ==
  /\ disk_pc = "send"
  /\ DiskConfigs # {}
  /\ Write(DiskConfigs)
  /\ changed_disks' = {}
  /\ disk_pc' = "collect"
  /\ handed_disks' = Handed
  /\ UNCHANGED <<disk_configs, current_data, last_sent_disk_usage>>

DiskCycle ==
  \/ collect_disk_usage \/ find_changed_disks \/ DisksKept
  \/ send_full_disk_metrics

(***************************************************************************)
(* The channel alone, the others being part of ServerStep.                 *)
(***************************************************************************)
DiskNext == DiskCycle \/ (ServerStep /\ UNCHANGED diskVars)

DiskSpec == OpcInit /\ DiskInit /\ [][DiskNext]_<<opcVars, diskVars>>

-------------------------------------------------------------------------------
(***************************************************************************)
(* Between two cycles the two nodes config.xml named for a disk when its   *)
(* amount last changed fit each other, and the amount the disk has: one    *)
(* shows the units config.xml gave then, the other what its type makes of  *)
(* the amount in these units, unless the server missed it.  Units, types   *)
(* and nodes edited since must not tear the two apart.                     *)
(***************************************************************************)
AmountFitsUnits ==
  disk_pc = "collect" =>
    \A d \in DOMAIN current_data :
      LET entry == handed_disks[d]
      IN  \A c \in ConfigsOf(entry, current_data[d]) :
            c.node_id \notin missed => nodes[c.node_id] = Wire(c)
===============================================================================
