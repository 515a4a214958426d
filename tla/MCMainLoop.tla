------------------------------- MODULE MCMainLoop ------------------------------
(***************************************************************************)
(* One host, which may come and go, slow down and speed up at any time; a  *)
(* config.xml that lists it twice (in two groups), one that lists it once  *)
(* and one that cannot be read.  The two checkers share nothing but the    *)
(* hosts; the theorems about them hold for any hosts and lists.            *)
(* A tick is a second for send_interval, which may be 0 or 1; the other    *)
(* intervals are scaled down to 1 and 2.                                   *)
(***************************************************************************)
EXTENDS MainLoop

CONSTANT a

MCIps == {a}
MCLists == {<<a, a>>, <<a>>, << >>}
MCIntervals == {0, 1}
===============================================================================
