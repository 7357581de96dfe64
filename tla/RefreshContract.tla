--------------------------- MODULE RefreshContract ---------------------------
(***************************************************************************)
(* What the service promises of a login, whatever its tables and requests  *)
(* look like: a login has one refresh token that works, or is exchanging   *)
(* it, or is over.  Tokens are numbered; every exchange adds the next      *)
(* number, and a login that is over stays over.                            *)
(***************************************************************************)
EXTENDS Naturals

CONSTANT Logins

VARIABLES
    phase,     \* per login: what its client can do with it
    versions   \* per login: the numbers of all tokens issued for it

vars == <<phase, versions>>

Phases == {"none", "works", "between", "over"}

Init ==
    /\ phase = [l \in Logins |-> "none"]
    /\ versions = [l \in Logins |-> {}]

Move(l, a, b) ==
    /\ phase[l] = a
    /\ phase' = [phase EXCEPT ![l] = b]

\* The client logs in and gets token 1.
Open(l) ==
    /\ Move(l, "none", "works")
    /\ versions' = [versions EXCEPT ![l] = {1}]

\* The token that works is taken in exchange for the next one.
Consume(l) ==
    /\ Move(l, "works", "between")
    /\ UNCHANGED versions

\* The next token is issued: one more than the highest number.
Renew(l) ==
    /\ Move(l, "between", "works")
    /\ \E v \in versions[l] :
          /\ \A w \in versions[l] : w <= v
          /\ versions' = [versions EXCEPT ![l] = @ \cup {v + 1}]

\* The client logs out.
Close(l) ==
    /\ Move(l, "works", "over")
    /\ UNCHANGED versions

\* The exchange is cut off.
Abandon(l) ==
    /\ Move(l, "between", "over")
    /\ UNCHANGED versions

Next ==
    \E l \in Logins :
        \/ Open(l) \/ Consume(l) \/ Renew(l) \/ Close(l) \/ Abandon(l)

Spec == Init /\ [][Next]_vars
=============================================================================
