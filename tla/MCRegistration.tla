--------------------------- MODULE MCRegistration ---------------------------
(* Registration for TLC: two requests for one address and two visits, which  *)
(* are interchangeable, and two runs of the seed script.  The role that they *)
(* give has no permissions.                                                  *)
EXTENDS Registration, TLC

MCConnects == [k \in 1 .. Rows |-> {}]

Symmetry ==
    Permutations(Seeders) \cup Permutations(Requests) \cup Permutations(Visits)
=============================================================================
