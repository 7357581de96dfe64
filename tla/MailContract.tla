---------------------------- MODULE MailContract -----------------------------
(***************************************************************************)
(* What the e-mail worker and the webhooks agree on: SendGrid accepts a    *)
(* message, and afterwards EmailLog may get one row for it, with status    *)
(* SENT.  Between the two, and for ever if the row is never written, the   *)
(* message is out and the log does not know of it.                         *)
(***************************************************************************)
CONSTANT Messages

VARIABLES
    sent,    \* messages that SendGrid has accepted
    logged   \* those that have got their row

vars == <<sent, logged>>

Init == sent = {} /\ logged = {}

Accept(m) ==
    /\ m \notin sent
    /\ sent' = sent \cup {m}
    /\ UNCHANGED logged

Record(m) ==
    /\ m \in sent \ logged
    /\ logged' = logged \cup {m}
    /\ UNCHANGED sent

Next == \E m \in Messages : Accept(m) \/ Record(m)

Spec == Init /\ [][Next]_vars
=============================================================================
