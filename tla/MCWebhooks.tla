---------------------------- MODULE MCWebhooks -----------------------------
(* Webhooks for TLC: two messages to one mailbox whose address the second     *)
(* spells in another case; of the first, two copies of its delivery, and of   *)
(* the second two bounces with one id.  Any two of these four are POSTed.     *)
EXTENDS Webhooks, TLC

CONSTANTS m1, m2, copy1, copy2, soft, hard

MCRecipient == (m1 :> "a") @@ (m2 :> "A")
MCLower     == "a" :> "a" @@ "A" :> "a"
MCEventOf ==
    [d \in Posts |->
        CASE d = soft -> [kind |-> "temporary", msg |-> m2, id |-> "i2"]
          [] d = hard -> [kind |-> "permanent", msg |-> m2, id |-> "i2"]
          [] OTHER    -> [kind |-> "delivered", msg |-> m1, id |-> "i1"]]
=============================================================================
