---------------------------- MODULE MCAvDiagnostics ----------------------------
(***************************************************************************)
(* Two things of a kind for every part, where two can get in each other's  *)
(* way, and courses of edits of config.xml that have one of them, the      *)
(* other, or both:                                                         *)
(*                                                                         *)
(* CPU 0, loaded as INT or as DINT, and CPU 1, a REAL, idle, with a        *)
(* counter that went back by a little, or by much; one disk, in bytes as a *)
(* REAL or in two bytes as an INT on another node, with amounts of which   *)
(* an INT keeps less; the total of the memory, an INT, a REAL or without a *)
(* node, and the used, a REAL, with a megabyte of two kilobytes, and       *)
(* amounts whose difference wraps; two groups with a process in common,    *)
(* two with an address in common, one of them OR; an array of either tool  *)
(* and one of none, with two drives for LSI.                               *)
(***************************************************************************)
EXTENDS AvDiagnostics

CONSTANTS cpu0, cpu1, root, rootAmount, rootShort, rootUnits, total, used,
          ramTotal, ramUsed, p, q, pqNode, pNode, LSI, Adaptec, md0, statusLSI, okLSI,
          statusAdaptec, okAdaptec, status0, ok0, hostA, hostB, abNode, aNode,
          progress

Cpu(c, type) == [x \in {c} |-> type]

Root(node, type, units_node, units) ==
  [d \in {root} |-> [node |-> node, type |-> type,
                     units_node |-> units_node, units |-> units]]

Ram(type, node) == [f \in {total} |-> [node |-> node, type |-> type]]

TwoRam ==
  [f \in {total, used} |-> [node |-> IF f = total THEN ramTotal ELSE ramUsed,
                            type |-> "REAL"]]

MCSections ==
  [part_ \in {"cpu", "disks", "ram", "processes", "raids", "ips"} |->
     CASE part_ = "cpu" -> {{Cpu(0, "INT"), Cpu(0, "DINT")},
                            {Cpu(0, "INT"), Cpu(1, "REAL")}}
       [] part_ = "disks" -> {{Root(rootAmount, "REAL", rootUnits, 1),
                               Root(rootShort, "INT", NoNode, 2)}}
       [] part_ = "ram" -> {{Ram("INT", ramTotal), TwoRam},
                             {Ram("REAL", NoNode), TwoRam}}
       [] part_ = "processes" -> {{{pqNode}, {pNode, pqNode}}}
       [] part_ = "raids" -> {{{LSI}, {LSI, md0}}, {{Adaptec}, {md0}}}
       [] OTHER -> {{{aNode}, {abNode, aNode}}}]

MCNodeIds == {cpu0, cpu1, rootAmount, rootShort, rootUnits, ramTotal, ramUsed, pqNode,
              pNode, statusLSI, okLSI, statusAdaptec, okAdaptec, status0,
              ok0, abNode, aNode}
MCAccepted == MCNodeIds \ {okAdaptec, pNode}
MCCpus == {0, 1}
MCUsages == {-1, 0, LeastInt}
MCCpuNode == [c \in MCCpus |-> IF c = 0 THEN cpu0 ELSE cpu1]
MCDiskNames == {root}
MCAmountNodes == [d \in MCDiskNames |-> {rootAmount, rootShort}]
MCUnitsNodes == [d \in MCDiskNames |-> {rootUnits}]
MCUnits == {1, 2}
MCBytes == {0, 65536, 65537}
MCFields == {total, used}
MCRamNodes == [f \in MCFields |-> IF f = total THEN {ramTotal} ELSE {ramUsed}]
MCReadings == {r \in [MCFields -> {0, 65536, 131071}] : r[used] # 131071}
MCProcessNames == {p, q}
MCGroups == {pqNode, pNode}
MCMembers == [g \in MCGroups |-> IF g = pNode THEN {p} ELSE {p, q}]
MCGroupType == [g \in MCGroups |-> IF g = pNode THEN "BOOL" ELSE "REAL"]
MCRaidNames == {LSI, Adaptec, md0}
MCTool == [r \in MCRaidNames |-> IF r = LSI THEN "LSI"
                                 ELSE IF r = Adaptec THEN "Adaptec" ELSE "other"]
MCStatusNode ==
  [r \in MCRaidNames |-> IF r = LSI THEN statusLSI
                         ELSE IF r = Adaptec THEN statusAdaptec ELSE status0]
MCHealthNode ==
  [r \in MCRaidNames |-> IF r = LSI THEN okLSI
                         ELSE IF r = Adaptec THEN okAdaptec ELSE ok0]
MCDrives == [r \in MCRaidNames |-> IF r = LSI THEN 2
                                   ELSE IF r = Adaptec THEN 1 ELSE 0]
MCRebuild == {progress}
MCAddresses == {hostA, hostB}
MCIpGroups == {abNode, aNode}
MCIpMembers == [g \in MCIpGroups |-> IF g = aNode THEN {hostA}
                                  ELSE {hostA, hostB}]
===============================================================================
