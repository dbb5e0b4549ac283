----------------------------- MODULE MCImmediate -----------------------------
(***************************************************************************)
(* ImmediateIssuance with two objects of each kind, which any call may     *)
(* combine, and two carts: enough for a value to be left over from another *)
(* cart in either object, in both, or in both from the same one.           *)
(***************************************************************************)
EXTENDS ImmediateIssuance, TLC

CONSTANTS c1, c2, p1, p2, A, B

\* Objects are alike until they are used.
Alike == Permutations(Checkouts) \cup Permutations(Payments) \cup Permutations(Carts)
===============================================================================
