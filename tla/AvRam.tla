--------------------------------- MODULE AvRam ---------------------------------
(***************************************************************************)
(* The RAM part of class AvDiagnostics.  It reads the line free prints and *)
(* parses nothing out of it, so that the amounts of the RamState it        *)
(* returns are what its memory held; and so are those of last_sent_ram_    *)
(* before the first batch.                                                 *)
(***************************************************************************)
EXTENDS AvDocument, IntNumbers

CONSTANTS
  AvFields,    \* total, used and free
  AvRamNodes,  \* AvRamNodes[f]: the nodes config.xml may name for field f
  AvMB,        \* kilobytes in a megabyte
  AvWord,      \* an amount is one of 0..AvWord - 1: 2^64 of them
  AvReadings   \* what the amounts of a RamState may be

(***************************************************************************)
(* The node and the type of a field; a section gives those of the fields   *)
(* it has an element for.                                                  *)
(***************************************************************************)
AvRamEntries(f) == [node : AvRamNodes[f] \cup {NoNode}, type : types_ \cup {""}]

AvRamEntriesFit(config) ==
  /\ DOMAIN config \subseteq AvFields
  /\ \A f \in DOMAIN config : config[f] \in AvRamEntries(f)

ASSUME AvRamAssumption ==
  /\ \A f \in AvFields : AvRamNodes[f] \subseteq NodeIds
  /\ \A f, g \in AvFields : f # g => AvRamNodes[f] \cap AvRamNodes[g] = {}
  /\ AvMB \in Nat \ {0} /\ AvWord \in Nat
  /\ AvReadings \subseteq [AvFields -> 0..(AvWord - 1)] /\ AvReadings # {}

ASSUME AvRamEditions == \A file \in Editions("ram") : AvRamEntriesFit(file)

VARIABLES
  ram_config_,     \* the node and the type of every field ever loaded
  data,            \* the RamState the caller holds between the methods
  last_sent_ram_,
  handed_fields,   \* history: the ram_config_ of the last handover
  blind            \* history: the last cycle had no node to hand over to

avRamVars == <<ram_config_, data, last_sent_ram_, handed_fields, blind>>

(***************************************************************************)
(* std::abs(static_cast<long>(a - b)): the difference wraps as an unsigned *)
(* number and is read as a signed one.                                     *)
(***************************************************************************)
AvDistance(a, b) ==
  LET d == IF a >= b THEN a - b ELSE b - a
  IN  IF 2 * d <= AvWord THEN d ELSE AvWord - d

(***************************************************************************)
(* isRamChanged                                                            *)
(***************************************************************************)
isRamChangedThroughout ==    \* mutant: && for ||
  \A f \in AvFields : AvDistance(data[f], last_sent_ram_[f]) > AvMB

isRamChanged ==
  \E f \in AvFields : AvDistance(data[f], last_sent_ram_[f]) > AvMB

(***************************************************************************)
(* convertUnits(kb, "KB"), without the fraction that a precision keeps of  *)
(* a REAL.  The class declares and nowhere defines it; taken to be what    *)
(* convert_units of src/main.cpp is.                                       *)
(***************************************************************************)
AvMegabytes(kb) == kb \div AvMB

AvRamConfig(entry, kb) ==
  WriteConfig(entry.node, entry.type, IF entry.type = "INT" THEN "i" ELSE "f",
              IF entry.type = "INT" THEN ToInt(AvMegabytes(kb)) ELSE AvMegabytes(kb))

FieldsWithNode == {f \in DOMAIN ram_config_ : ram_config_[f].node # NoNode}

AvRamConfigs == {AvRamConfig(ram_config_[f], data[f]) : f \in FieldsWithNode}

-------------------------------------------------------------------------------
AvRamTypeOK ==
  /\ AvRamEntriesFit(ram_config_)
  /\ data \in AvReadings
  /\ last_sent_ram_ \in AvReadings
  /\ AvRamEntriesFit(handed_fields)
  /\ blind \in BOOLEAN

AvRamInit ==
  /\ ram_config_ = EmptyMap
  /\ data \in AvReadings
  /\ last_sent_ram_ \in AvReadings
  /\ handed_fields = EmptyMap
  /\ blind = FALSE

loadRamConfig ==
  /\ av_pc = "idle"
  /\ doc_ \notin {NoRoot, NoSection}
  /\ ram_config_' = Merge(ram_config_, doc_)
  /\ UNCHANGED <<opcVars, callVars, data, last_sent_ram_, handed_fields, blind>>

loadRamConfigCrash ==
  /\ av_pc = "idle"
  /\ doc_ \in {NoRoot, NoSection}
  /\ Crash
  /\ UNCHANGED avRamVars

collectRamUsage ==
  /\ Goes("idle", "collected")
  /\ data' \in AvReadings
  /\ UNCHANGED <<opcVars, batch, ram_config_, last_sent_ram_, handed_fields, blind>>

AvRamKept ==
  /\ Goes("collected", "idle")
  /\ ~isRamChanged \/ AvRamConfigs = {}
  /\ blind' = (AvRamConfigs = {})
  /\ UNCHANGED <<opcVars, batch, ram_config_, data, last_sent_ram_, handed_fields>>

sendRamMetrics ==
  /\ Goes("collected", "idle")
  /\ isRamChanged
  /\ AvRamConfigs # {}
  /\ Write(AvRamConfigs)
  /\ last_sent_ram_' = data
  /\ handed_fields' = On(ram_config_, FieldsWithNode)
  /\ blind' = FALSE
  /\ UNCHANGED <<batch, ram_config_, data>>

AvRamStep ==
  \/ loadRamConfig \/ loadRamConfigCrash \/ collectRamUsage \/ AvRamKept
  \/ sendRamMetrics

-------------------------------------------------------------------------------
(***************************************************************************)
(* Between two cycles, of which the last had a node to write to, every     *)
(* node of the last batch shows what the type it had then makes of an      *)
(* amount that is within a megabyte of the one the class believes free has *)
(* reported, in the arithmetic of the class, unless the server missed it.  *)
(* Concerns isRamChanged, the amounts that go out together, and the        *)
(* configuration that is loaded behind the cache.                          *)
(***************************************************************************)
AvRamShown ==
  av_pc = "idle" /\ ~blind =>
    \A f \in DOMAIN handed_fields :
      handed_fields[f].node \notin missed =>
        \E state \in AvReadings :
          /\ nodes[handed_fields[f].node] =
               Wire(AvRamConfig(handed_fields[f], state[f]))
          /\ AvDistance(data[f], state[f]) <= AvMB
===============================================================================
