-------------------------------- MODULE MainTurn -------------------------------
(***************************************************************************)
(* A turn of the main loop (src/main_old.cpp): the CPU, disk, RAM and RAID *)
(* channels one after the other, in one thread and with one OPC UA client, *)
(* so that what one Write does to the session the next channel meets.  A   *)
(* channel config.xml has no section for finds nothing to do; sections     *)
(* holds those it has one for.                                             *)
(***************************************************************************)
EXTENDS CpuChannel, DiskChannel, RamChannel, RaidChannel

CONSTANT SectionSets   \* the sets of sections config.xml may have

ASSUME SectionsAssumption ==
  \A S \in SectionSets : S # {} /\ S \subseteq {"cpu", "disks", "ram", "raid"}

(***************************************************************************)
(* The nodes config.xml may give each channel.  Two channels that wrote    *)
(* one node would overwrite each other's value in every turn, whatever     *)
(* their caches say; config.xml has to keep them apart.                    *)
(***************************************************************************)
CpuNodes  == {CpuNode[c] : c \in Configured}
DiskNodes == UNION {AmountNodes[d] \cup UnitsNodes[d] : d \in Disks}
RamNodes  == UNION {RamNodesOf[f] : f \in Fields}
RaidNodes == {StatusNode[r] : r \in Raids} \cup {HealthNode[r] : r \in Raids}

ASSUME NodesAssumption ==
  /\ CpuNodes \cap (DiskNodes \cup RamNodes \cup RaidNodes) = {}
  /\ DiskNodes \cap (RamNodes \cup RaidNodes) = {}
  /\ RamNodes \cap RaidNodes = {}

VARIABLES
  sections,
  turn       \* whose part of the turn it is

turnVars == <<opcVars, cpuVars, diskVars, ramVars, raidVars, sections, turn>>

Order == <<"cpu", "disks", "ram", "raid">>

Position(s) == CHOOSE i \in DOMAIN Order : Order[i] = s

(***************************************************************************)
(* The section of S whose turn it is from position i on, the first one of  *)
(* the next turn when there is none.                                       *)
(***************************************************************************)
FirstFrom(S, i) ==
  LET later == {s \in S : Position(s) >= i}
      among == IF later = {} THEN S ELSE later
  IN  CHOOSE s \in among : \A t \in among : Position(s) <= Position(t)

Following(s) == FirstFrom(sections, Position(s) + 1)

-------------------------------------------------------------------------------
TurnTypeOK ==
  /\ CpuTypeOK
  /\ DiskTypeOK
  /\ RamTypeOK
  /\ RaidTypeOK
  /\ turn \in sections
  /\ turn # "cpu" => pc = "collect"
  /\ turn # "disks" => disk_pc = "collect"
  /\ turn # "ram" => ram_pc = "collect"
  /\ turn # "raid" => raid_pc = "collect"

TurnInit ==
  /\ CpuInit
  /\ DiskInit
  /\ RamInit
  /\ RaidInit
  /\ sections \in SectionSets
  /\ "cpu" \notin sections => online = Cpus   \* nobody looks
  /\ turn = FirstFrom(sections, 1)

EndOfPart(at) == turn' = IF at = "collect" THEN Following(turn) ELSE turn

CpuTurn ==
  /\ turn = "cpu"
  /\ Cycle
  /\ EndOfPart(pc')
  /\ UNCHANGED <<diskVars, ramVars, raidVars, sections>>

DisksTurn ==
  /\ turn = "disks"
  /\ DiskCycle
  /\ EndOfPart(disk_pc')
  /\ UNCHANGED <<cpuVars, ramVars, raidVars, sections>>

RamTurn ==
  /\ turn = "ram"
  /\ RamCycle
  /\ EndOfPart(ram_pc')
  /\ UNCHANGED <<cpuVars, diskVars, raidVars, sections>>

RaidTurn ==
  /\ turn = "raid"
  /\ RaidCycle
  /\ EndOfPart(raid_pc')
  /\ UNCHANGED <<cpuVars, diskVars, ramVars, sections>>

Turn == CpuTurn \/ DisksTurn \/ RamTurn \/ RaidTurn

(***************************************************************************)
(* Beside the loop: the server, the other channels, the kernel.            *)
(***************************************************************************)
Beside ==
  /\ \/ Environment
     \/ "cpu" \in sections /\ HotplugStep
  /\ UNCHANGED <<diskVars, ramVars, raidVars, sections, turn>>

TurnNext == Turn \/ Beside

TurnSpec == TurnInit /\ [][TurnNext]_turnVars

(***************************************************************************)
(* The main loop never stops.                                              *)
(***************************************************************************)
TurnFairSpec == TurnSpec /\ WF_turnVars(Turn)
===============================================================================
