------------------------------ MODULE MCKArray ------------------------------
(* KArray, with its assumptions, for TLC; the blocks of the pool are       *)
(* interchangeable, and so are the arrays.                                 *)
EXTENDS KArray, TLC

Symmetry == Permutations(Blocks) \cup Permutations(Arrays)

(* No action depends on the last call: TLC need not tell apart two states  *)
(* that differ in it alone.  ImplementsVector, which is about call, is     *)
(* still checked of every step, also of one to a state already known.      *)
View == <<live, members, stopped, fault>>
=============================================================================
