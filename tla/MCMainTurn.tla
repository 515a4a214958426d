------------------------------ MODULE MCMainTurn -------------------------------
(***************************************************************************)
(* The CPUs: 0 and 1, of type INT.  Of the usages 0 and -1 are within the  *)
(* threshold of 1, -1 and the least int are not, and the difference of 0   *)
(* and the least int is no int.                                            *)
(*                                                                         *)
(* The disks: one, a REAL in bytes, which an edit takes to another node,   *)
(* an INT in pairs of bytes, where the two amounts make 32768 and 32769:   *)
(* both past the 15 bits that node shows.                                  *)
(*                                                                         *)
(* The memory: two amounts, with a megabyte of two kilobytes; one that     *)
(* stays, and one of zero, of a megabyte, and of many.  The field that     *)
(* stays has its type edited from INT to REAL, or loses its node; the      *)
(* other one gets its node late.                                           *)
(*                                                                         *)
(* The arrays: two of them, with a healthy status, a failed one and one of *)
(* a rebuild; the server refuses one health node.                          *)
(***************************************************************************)
EXTENDS MainTurn

CONSTANTS cpu0, cpu1, root, rootAmount, rootOther, rootUnits, total, used, ramTotal,
          ramUsed, md0, md1, system, st0, st1, ok0, ok1

MCSectionSets == {{"cpu"}, {"disks"}, {"ram"}, {"raid"}, {"disks", "ram"}}

MCNodeIds == {cpu0, cpu1, rootAmount, rootOther, rootUnits, ramTotal, ramUsed,
              st0, st1, ok0, ok1}
MCAccepted == MCNodeIds \ {ok1}
MCCpus == {0, 1}
MCUsages == {0, -1, LeastInt}
MCCpuNode == [c \in MCCpus |-> IF c = 0 THEN cpu0 ELSE cpu1]
MCDisks == {root}
MCAmountNodes == [d \in MCDisks |-> {rootAmount, rootOther}]
MCUnitsNodes == [d \in MCDisks |-> {rootUnits}]
MCUnits == {1, 2}
RootEdition(n, type, units) ==
  [d \in MCDisks |-> [node |-> n, type |-> type, units_node |-> rootUnits,
                      units |-> units]]
MCDiskEditions == {RootEdition(rootAmount, "REAL", 1),
                   RootEdition(rootOther, "INT", 2)}
MCBytes == {65536, 65537}
MCFields == {total, used}
MCRamNodesOf == [f \in MCFields |-> IF f = total THEN {ramTotal} ELSE {ramUsed}]
RamElement(n, type) == [node |-> n, type |-> type]
MCRamEditions ==
  {[f \in {total} |-> RamElement(ramTotal, "INT")],
   [f \in {total} |-> RamElement(NoNode, "REAL")],
   [f \in MCFields |-> IF f = total THEN RamElement(ramTotal, "REAL")
                       ELSE RamElement(ramUsed, "REAL")]}
MCReadings == {[f \in MCFields |-> IF f = total THEN 65536 ELSE kb] :
                 kb \in {0, 2, 65536}}
MCRaids == {md0, md1}
MCStatusNode == [r \in MCRaids |-> IF r = md0 THEN st0 ELSE st1]
MCHealthNode == [r \in MCRaids |-> IF r = md0 THEN ok0 ELSE ok1]
MCStatuses == {"optimal", "degraded", "rebuilding"}

(***************************************************************************)
(* The disks and the memory in turn go no further than the REAL disk, the  *)
(* amounts that fit an INT, and fields that keep their nodes.              *)
(***************************************************************************)
MCPair ==
  Cardinality(sections) = 2 =>
    /\ \A d \in DOMAIN disk_configs : disk_configs[d].node = rootAmount
    /\ \A f \in DOMAIN ram_config : ram_config[f].node # NoNode
    /\ current_ram[used] < 65536
===============================================================================
