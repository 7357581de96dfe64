---------------------------- MODULE MCPasswords ----------------------------
(* Passwords for TLC.  Requests, tokens and passwords are interchangeable,  *)
(* as the initial password is any of them, but a run that checks liveness   *)
(* may use no symmetry.                                                     *)
EXTENDS Passwords
=============================================================================
