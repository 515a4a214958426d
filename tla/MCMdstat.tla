-------------------------------- MODULE MCMdstat -------------------------------
(***************************************************************************)
(* Files of at most MaxLines lines over two configured arrays and one that *)
(* is not: a header alone shows what the run looks for.                    *)
(***************************************************************************)
EXTENDS Mdstat

CONSTANTS md0, md1, md9, none

MCNames == {md0, md1, md9}
MCConfigured == {md0, md1}
Symmetry == {[n \in MCConfigured |-> IF n = md0 THEN md1 ELSE md0],
             [n \in MCConfigured |-> n]}
===============================================================================
