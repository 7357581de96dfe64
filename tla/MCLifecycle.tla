---------------------------- MODULE MCLifecycle ----------------------------
(* Lifecycle for TLC.  Processes share nothing, so that one is enough; it   *)
(* gets both signals, at any moment and in any order.                       *)
EXTENDS Lifecycle
=============================================================================
