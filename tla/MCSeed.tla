------------------------------- MODULE MCSeed -------------------------------
(* Seed for TLC: runs of the seed script that overlap, fail, are cut off and *)
(* are followed by others.  The first role has all permissions, the second   *)
(* has none.                                                                 *)
EXTENDS Seed, TLC

MCConnects == [k \in 1 .. Rows |-> IF k = 1 THEN 1 .. Rows ELSE {}]

Symmetry == Permutations(Seeders)
=============================================================================
