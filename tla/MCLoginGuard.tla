---------------------------- MODULE MCLoginGuard ----------------------------
(* LoginGuard for TLC.  Requests and OTP rows are interchangeable. *)
EXTENDS LoginGuard, TLC
InterchangeableIds == Permutations(Requests) \cup Permutations(Otps)
=============================================================================
