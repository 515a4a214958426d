------------------------------- MODULE RamChannel ------------------------------
(***************************************************************************)
(* The RAM channel of the monitor (src/main.cpp, section RAM).  A cycle    *)
(* rereads config.xml and the output of free, and when total, used or free *)
(* memory moved by more than a megabyte since the last batch, hands those  *)
(* config.xml has a node for to the OPC UA client, in megabytes.           *)
(*                                                                         *)
(* The cache starts at zero and is not emptied: "never sent" and "zero     *)
(* sent" look the same to it.  It is of amounts, not of nodes: a node or a *)
(* type edited into config.xml waits for the next move of an amount.       *)
(***************************************************************************)
EXTENDS OpcUaClient, IntNumbers, Maps

CONSTANTS
  Fields,       \* total, used and free
  RamNodesOf,   \* RamNodesOf[f]: the nodes config.xml may name for field f
  RamEditions,  \* what the section may hold: a node and a type for some fields
  MB,           \* kilobytes in a megabyte
  Readings      \* what free may report: the kilobytes of each field

RamEntries(f) == [node : RamNodesOf[f] \cup {NoNode}, type : types_ \cup {""}]

RamEntriesFit(config) ==
  /\ DOMAIN config \subseteq Fields
  /\ \A f \in DOMAIN config : config[f] \in RamEntries(f)

ASSUME RamAssumption ==
  /\ \A f \in Fields : RamNodesOf[f] \subseteq NodeIds
  /\ \A f, g \in Fields : f # g => RamNodesOf[f] \cap RamNodesOf[g] = {}
  /\ \A file \in RamEditions : RamEntriesFit(file)
  /\ MB \in Nat \ {0}
  /\ Readings \subseteq [Fields -> Nat]

VARIABLES
  ram_pc,         \* where the cycle is
  ram_config,     \* the node and the type of every field ever loaded
  current_ram,
  last_sent_ram,
  handed_ram      \* history: the ram_config of the last handover

ramVars == <<ram_pc, ram_config, current_ram, last_sent_ram, handed_ram>>

RamDistance(a, b) == IF a >= b THEN a - b ELSE b - a

Zero == [f \in Fields |-> 0]

RamStates == Readings \cup {Zero}

Kb == {state[f] : state \in RamStates, f \in Fields}

threshold_kb == MB

(***************************************************************************)
(* is_ram_changed                                                          *)
(***************************************************************************)
is_ram_changed_throughout ==    \* mutant: && for ||
  \A f \in Fields : RamDistance(current_ram[f], last_sent_ram[f]) > threshold_kb

is_ram_changed ==
  \E f \in Fields : RamDistance(current_ram[f], last_sent_ram[f]) > threshold_kb

(***************************************************************************)
(* send_ram_metrics: INT stores i, any other type f; both in megabytes     *)
(* (here without the fraction that precision keeps of a REAL).             *)
(***************************************************************************)
Megabytes(kb) == kb \div MB

RamConfig(entry, kb) ==
  WriteConfig(entry.node, entry.type, IF entry.type = "INT" THEN "i" ELSE "f",
              IF entry.type = "INT" THEN ToInt(Megabytes(kb)) ELSE Megabytes(kb))

WithNode == {f \in DOMAIN ram_config : ram_config[f].node # NoNode}

RamConfigs == {RamConfig(ram_config[f], current_ram[f]) : f \in WithNode}

-------------------------------------------------------------------------------
RamTypeOK ==
  /\ ram_pc \in {"collect", "detect"}
  /\ RamEntriesFit(ram_config)
  /\ current_ram \in RamStates
  /\ last_sent_ram \in RamStates
  /\ RamEntriesFit(handed_ram)

RamInit ==
  /\ ram_pc = "collect"
  /\ ram_config = EmptyMap
  /\ current_ram = Zero
  /\ last_sent_ram = Zero
  /\ handed_ram = EmptyMap

(***************************************************************************)
(* load_ram_config, whose answer nobody looks at: a field that has an      *)
(* element gets the node and the type of now, the others keep theirs.      *)
(* Then collect_ram_usage: zeros when free cannot be started.              *)
(***************************************************************************)
collect_ram_usage ==
  /\ ram_pc = "collect"
  /\ \E file \in RamEditions \cup {EmptyMap} :
       ram_config' = Merge(ram_config, file)
  /\ current_ram' \in RamStates
  /\ ram_pc' = "detect"
  /\ UNCHANGED <<opcVars, last_sent_ram, handed_ram>>

RamKept ==
  /\ ram_pc = "detect"
  /\ ~is_ram_changed \/ RamConfigs = {}
  /\ ram_pc' = "collect"
  /\ UNCHANGED <<opcVars, ram_config, current_ram, last_sent_ram, handed_ram>>

send_ram_metrics ==
  /\ ram_pc = "detect"
  /\ is_ram_changed
  /\ RamConfigs # {}
  /\ Write(RamConfigs)
  /\ last_sent_ram' = current_ram
  /\ handed_ram' = On(ram_config, WithNode)
  /\ ram_pc' = "collect"
  /\ UNCHANGED <<ram_config, current_ram>>

RamCycle == collect_ram_usage \/ RamKept \/ send_ram_metrics

(***************************************************************************)
(* The channel alone, the others being part of ServerStep.                 *)
(***************************************************************************)
RamNext == RamCycle \/ (ServerStep /\ UNCHANGED ramVars)

RamSpec == OpcInit /\ RamInit /\ [][RamNext]_<<opcVars, ramVars>>

-------------------------------------------------------------------------------
(***************************************************************************)
(* Between two cycles, while config.xml has a node for some field, every   *)
(* node of the last batch shows what the type it had then makes of an      *)
(* amount within a megabyte of the one collected (an INT keeps the low 16  *)
(* bits: from 32 GB on it is wrong), unless the server missed it; and      *)
(* before the first batch no amount exceeds a megabyte.  Concerns          *)
(* is_ram_changed, the cache that starts at zero, and the configuration    *)
(* that is edited behind the cache.                                        *)
(***************************************************************************)
RamShown ==
  ram_pc = "collect" /\ WithNode # {} =>
    /\ \A f \in DOMAIN handed_ram :
         handed_ram[f].node \notin missed =>
           \E kb \in Kb :
             /\ nodes[handed_ram[f].node] = Wire(RamConfig(handed_ram[f], kb))
             /\ RamDistance(kb, current_ram[f]) <= threshold_kb
    /\ handed_ram = EmptyMap =>
         \A g \in Fields : current_ram[g] <= threshold_kb
===============================================================================
