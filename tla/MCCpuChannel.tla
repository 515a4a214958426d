----------------------------- MODULE MCCpuChannel ------------------------------
(***************************************************************************)
(* CPUs 0 and 1 are in config.xml, and the machine has no other.           *)
(* Percents are scaled down to 0..2: 0 and 1 are within the threshold of   *)
(* 1, 0 and 2 are not.  A counter that goes back gives the least int.      *)
(***************************************************************************)
EXTENDS CpuChannel

CONSTANTS cpu0, cpu1

MCNodeIds == {cpu0, cpu1}
MCTwoCpus == {0, 1}
MCUsages == 0..2 \cup {LeastInt}
MCCpuNode == [c \in {0, 1} |-> IF c = 0 THEN cpu0 ELSE cpu1]
===============================================================================
