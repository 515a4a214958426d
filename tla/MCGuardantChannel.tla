--------------------------- MODULE MCGuardantChannel ---------------------------
(***************************************************************************)
(* Product a may be licensed, product b never is; config.xml may drop a    *)
(* and take it back, or be unreadable.  A product goes by its node.        *)
(***************************************************************************)
EXTENDS GuardantChannel

CONSTANTS a, b

MCProducts == {a, b}
MCFiles == {{}, {b}, {a, b}}
MCDongles == {{}, {a}}
MCProductNode == [p \in MCProducts |-> p]
MCProductType == [p \in MCProducts |-> IF p = a THEN "BOOL" ELSE "INT"]
===============================================================================
