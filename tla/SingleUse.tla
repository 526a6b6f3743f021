------------------------------ MODULE SingleUse ------------------------------
(***************************************************************************)
(* What rotate_refresh_token (app/services/auth_service.py:893) promises:  *)
(* "single-use refresh-token rotation ... exactly one gets the value, the  *)
(* other gets None and is rejected".  A token is issued once, and it is    *)
(* either exchanged, once, or it lapses.                                   *)
(***************************************************************************)
EXTENDS Naturals

CONSTANT Tokens      \* every refresh token that may ever be issued

VARIABLES
    live,            \* the tokens a client can still exchange
    exchanged        \* exchanged[t]: how many exchanges t has paid for

vars == <<live, exchanged>>

Init ==
    /\ live = {}
    /\ exchanged = [t \in Tokens |-> 0]

Issue(t) ==
    /\ t \notin live
    /\ exchanged[t] = 0
    /\ live' = live \cup {t}
    /\ UNCHANGED exchanged

Exchange(t) ==
    /\ t \in live
    /\ live' = live \ {t}
    /\ exchanged' = [exchanged EXCEPT ![t] = 1]

Lapse(t) ==
    /\ t \in live
    /\ live' = live \ {t}
    /\ UNCHANGED exchanged

Next == \E t \in Tokens : Issue(t) \/ Exchange(t) \/ Lapse(t)

Spec == Init /\ [][Next]_vars
=============================================================================
