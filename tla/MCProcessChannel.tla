--------------------------- MODULE MCProcessChannel ----------------------------
(***************************************************************************)
(* Two AND groups that share process p, one of them of a single process,   *)
(* and a third group with another logic, which the code skips.             *)
(***************************************************************************)
EXTENDS ProcessChannel

CONSTANTS p, q, g1, g2, g3

MCProcesses == {p, q}
MCGroups == {g1, g2, g3}
MCMembers == [g \in MCGroups |-> IF g = g1 THEN {p, q} ELSE {p}]
MCAndGroups == {g1, g2}
MCGroupType == [g \in MCGroups |-> IF g = g1 THEN "BOOL" ELSE "STRING"]
MCTrue == {TRUE}
===============================================================================
