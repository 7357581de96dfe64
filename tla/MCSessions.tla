----------------------------- MODULE MCSessions -----------------------------
(* Sessions for TLC.  Requests are interchangeable and tokens are not, but a *)
(* run that checks liveness may use no symmetry.                             *)
EXTENDS Sessions
=============================================================================
