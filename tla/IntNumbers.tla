------------------------------- MODULE IntNumbers ------------------------------
(***************************************************************************)
(* The 32 bits of an int, as far as the monitor meets their ends: usages   *)
(* and amounts are cast to int from a double or float that may be out of   *)
(* range, and usages are subtracted as ints.  The definitions form no      *)
(* number beyond the ends themselves.                                      *)
(***************************************************************************)
EXTENDS Integers

MaxInt == 2147483647

LeastInt == -2147483647 - 1

(***************************************************************************)
(* static_cast<int>: a value out of range becomes the least int.           *)
(***************************************************************************)
ToInt(v) == IF LeastInt <= v /\ v <= MaxInt THEN v ELSE LeastInt

(***************************************************************************)
(* abs(a - b) <= d, for a and b below MaxInt - d.                          *)
(***************************************************************************)
IsNear(d, a, b) == a <= b + d /\ b <= a + d

(***************************************************************************)
(* a - b, or its absolute value, is no int: what abs(a - b) is compared as *)
(* is up to the compiler.                                                  *)
(***************************************************************************)
FarAbove(a, b) == b < 0 /\ a > b + MaxInt

Overflows(a, b) == FarAbove(a, b) \/ FarAbove(b, a)
===============================================================================
