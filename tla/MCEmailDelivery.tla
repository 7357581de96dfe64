-------------------------- MODULE MCEmailDelivery --------------------------
(* EmailDelivery for TLC.  The slots are interchangeable, but the run also  *)
(* checks liveness, for which TLC's symmetry reduction is not sound, and so *)
(* declares none.                                                           *)
EXTENDS EmailDelivery
=============================================================================
