--------------------------- MODULE Sessions_proofs ---------------------------
(***************************************************************************)
(* What TLAPS proves of Sessions, for any number of requests, token pairs  *)
(* and seconds: the types, that a revoked token stays revoked, that        *)
(* deactivation dies out, and that the refresh tokens implement SingleUse. *)
(***************************************************************************)
EXTENDS Sessions, TLAPS

USE DEF TokenIds, Kinds, RowState, Steps, Idle, At, Goto, Answer

\* The steps, with NewToken and NewPair under the names of their callers.
ClientStep(c) ==
    \/ StartPrivy(c) \/ PrivyLogin(c) \/ OtpLogin(c) \/ IssueTokens(c)
    \/ RegisterCheck(c) \/ CliCreateCheck(c) \/ InsertAccount(c)
    \/ AddFieldCheck(c) \/ InsertField(c) \/ Crash(c)
    \/ \E i \in TokenIds : RotateRefresh(c, i)

OtherStep ==
    \/ \E i \in TokenIds : Logout(i) \/ RefreshLapses(i)
    \/ IssueAnonymous \/ IssueFromCli \/ DeactivateAccount \/ DeactivateField \/ Tick

LEMMA NextCases ==
    ASSUME Next PROVE OtherStep \/ \E c \in Clients : ClientStep(c)
  BY DEF Next, Login, Provision, ClientStep, OtherStep

\* A token that has not been issued has no history; a stored one has paid for
\* nothing; a denylist entry lasts as long as the token it is for.
Histories ==
    /\ \A i \in TokenIds : i \in refresh \/ i > issued => exchanged[i] = 0
    /\ \A i \in TokenIds : i > issued => deny[i] = 0
    /\ \A i \in 1..issued : deny[i] # 0 => deny[i] >= tokens[i].exp

SessionInv == TypeOK /\ Histories

LEMMA SessionInit == Init => SessionInv
  BY BoundsAssumption DEF Init, SessionInv, TypeOK, Histories

LEMMA SessionStep ==
    ASSUME SessionInv, [Next]_vars PROVE SessionInv'
<1> USE BoundsAssumption DEF SessionInv, TypeOK, Histories, tokenVars, accountVars
<1>1. ASSUME NEW c \in Clients, StartPrivy(c) PROVE SessionInv'
  BY <1>1 DEF StartPrivy
<1>2. ASSUME NEW c \in Clients, PrivyLogin(c) PROVE SessionInv'
  <2>1. KindByEmail \in Kinds
    BY DEF KindByEmail, KindByFieldRow
  <2>2. \E kind \in Kinds, step \in Steps : req' = [req EXCEPT ![c] = [pc |-> step, kind |-> kind]]
    BY <1>2, <2>1 DEF PrivyLogin, PrivyVerdicts
  <2> QED BY <1>2, <2>2 DEF PrivyLogin
<1>3. ASSUME NEW c \in Clients, OtpLogin(c) PROVE SessionInv'
  BY <1>3 DEF OtpLogin
<1>4. ASSUME NEW c \in Clients, IssueTokens(c) PROVE SessionInv'
  BY <1>4 DEF IssueTokens, NewPair, NewToken
<1>5. ASSUME NEW c \in Clients, RegisterCheck(c) PROVE SessionInv'
  BY <1>5 DEF RegisterCheck
<1>6. ASSUME NEW c \in Clients, CliCreateCheck(c) PROVE SessionInv'
  BY <1>6 DEF CliCreateCheck
<1>7. ASSUME NEW c \in Clients, InsertAccount(c) PROVE SessionInv'
  BY <1>7 DEF InsertAccount
<1>8. ASSUME NEW c \in Clients, AddFieldCheck(c) PROVE SessionInv'
  BY <1>8 DEF AddFieldCheck
<1>9. ASSUME NEW c \in Clients, InsertField(c) PROVE SessionInv'
  BY <1>9 DEF InsertField
<1>10. ASSUME NEW c \in Clients, Crash(c) PROVE SessionInv'
  BY <1>10 DEF Crash
<1>11. ASSUME NEW c \in Clients, NEW i \in TokenIds, RotateRefresh(c, i) PROVE SessionInv'
  BY <1>11 DEF RotateRefresh
<1>12. ASSUME NEW i \in TokenIds, Logout(i) PROVE SessionInv'
  <2>1. i \in 1..issued /\ tokens[i].exp \in Nat /\ now \in Nat /\ now <= tokens[i].exp
    BY <1>12 DEF Logout, Decodes
  <2>2. now + RemainingTtl(tokens[i].exp) \in Nat /\ now + RemainingTtl(tokens[i].exp) >= tokens[i].exp
    BY <2>1 DEF RemainingTtl
  <2>3. /\ deny' = [deny EXCEPT ![i] = now + RemainingTtl(tokens[i].exp)]
        /\ UNCHANGED <<row, field, issued, tokens, refresh, exchanged, now, req>>
    BY <1>12 DEF Logout
  <2> QED BY <2>1, <2>2, <2>3
<1>13. ASSUME NEW i \in TokenIds, RefreshLapses(i) PROVE SessionInv'
  BY <1>13 DEF RefreshLapses
<1>14. CASE IssueAnonymous
  BY <1>14 DEF IssueAnonymous, NewToken
<1>15. CASE IssueFromCli
  BY <1>15 DEF IssueFromCli, NewPair, NewToken
<1>16. CASE DeactivateAccount
  BY <1>16 DEF DeactivateAccount
<1>17. CASE DeactivateField
  BY <1>17 DEF DeactivateField
<1>18. CASE Tick
  BY <1>18 DEF Tick
<1>19. CASE UNCHANGED vars
  BY <1>19 DEF vars
<1> QED
  BY <1>1, <1>2, <1>3, <1>4, <1>5, <1>6, <1>7, <1>8, <1>9, <1>10, <1>11, <1>12, <1>13, <1>14, <1>15, <1>16, <1>17, <1>18, <1>19, NextCases DEF ClientStep, OtherStep

LEMMA SessionAlways == Spec => []SessionInv
<1>1. SessionInv /\ [Next]_vars => SessionInv'
  BY SessionStep
<1> QED
  BY SessionInit, <1>1, PTL DEF Spec

\* Every reachable state has its type; in particular only issued refresh tokens are
\* stored.
THEOREM TypeCorrect == Spec => []TypeOK
<1>1. SessionInv => TypeOK
  BY DEF SessionInv
<1> QED
  BY SessionAlways, <1>1, PTL

\* A token that was logged out is refused in every second before its exp.
THEOREM RevokedForGood == Spec => []RevokedStaysRevoked
<1>1. SessionInv => RevokedStaysRevoked
  <2> SUFFICES ASSUME SessionInv, NEW i \in 1..issued, deny[i] # 0, now < tokens[i].exp
               PROVE  ~Usable(i)
    BY DEF RevokedStaysRevoked
  <2>1. i \in TokenIds /\ deny[i] \in Nat /\ tokens[i].exp \in Nat /\ now \in Nat
    BY BoundsAssumption DEF SessionInv, TypeOK
  <2>2. deny[i] >= tokens[i].exp
    BY DEF SessionInv, Histories
  <2> QED BY <2>1, <2>2 DEF Usable
<1> QED
  BY SessionAlways, <1>1, PTL

-----------------------------------------------------------------------------
(* The refresh tokens are single-use tokens. *)

USE DEF Promised!Issue, Promised!Exchange, Promised!Lapse, Promised!Next, Promised!vars

LEMMA PromisedInit == Init => Promised!Init
  BY DEF Init, Promised!Init

LEMMA PromisedStep ==
    ASSUME SessionInv, [Next]_vars PROVE [Promised!Next]_(Promised!vars)
<1> USE BoundsAssumption DEF SessionInv, TypeOK, Histories, tokenVars, accountVars
<1>1. ASSUME NEW c \in Clients, StartPrivy(c) PROVE [Promised!Next]_(Promised!vars)
  BY <1>1 DEF StartPrivy
<1>2. ASSUME NEW c \in Clients, PrivyLogin(c) PROVE [Promised!Next]_(Promised!vars)
  BY <1>2 DEF PrivyLogin, PrivyVerdicts, KindByEmail, KindByFieldRow
<1>3. ASSUME NEW c \in Clients, OtpLogin(c) PROVE [Promised!Next]_(Promised!vars)
  BY <1>3 DEF OtpLogin
<1>4. ASSUME NEW c \in Clients, IssueTokens(c) PROVE [Promised!Next]_(Promised!vars)
  <2>1. issued + 1 \in TokenIds /\ refresh' = refresh \cup {issued + 1} /\ exchanged' = exchanged
    BY <1>4 DEF IssueTokens, NewPair, NewToken
  <2>2. issued + 1 \notin refresh /\ exchanged[issued + 1] = 0
    BY <2>1
  <2>3. Promised!Issue(issued + 1)
    BY <2>1, <2>2
  <2> QED BY <2>1, <2>3
<1>5. ASSUME NEW c \in Clients, RegisterCheck(c) PROVE [Promised!Next]_(Promised!vars)
  BY <1>5 DEF RegisterCheck
<1>6. ASSUME NEW c \in Clients, CliCreateCheck(c) PROVE [Promised!Next]_(Promised!vars)
  BY <1>6 DEF CliCreateCheck
<1>7. ASSUME NEW c \in Clients, InsertAccount(c) PROVE [Promised!Next]_(Promised!vars)
  BY <1>7 DEF InsertAccount
<1>8. ASSUME NEW c \in Clients, AddFieldCheck(c) PROVE [Promised!Next]_(Promised!vars)
  BY <1>8 DEF AddFieldCheck
<1>9. ASSUME NEW c \in Clients, InsertField(c) PROVE [Promised!Next]_(Promised!vars)
  BY <1>9 DEF InsertField
<1>10. ASSUME NEW c \in Clients, Crash(c) PROVE [Promised!Next]_(Promised!vars)
  BY <1>10 DEF Crash
<1>11. ASSUME NEW c \in Clients, NEW i \in TokenIds, RotateRefresh(c, i) PROVE [Promised!Next]_(Promised!vars)
  <2>1. i \in refresh /\ exchanged[i] = 0
    BY <1>11 DEF RotateRefresh
  <2>2. refresh' = refresh \ {i} /\ exchanged' = [exchanged EXCEPT ![i] = 1]
    BY <1>11, <2>1 DEF RotateRefresh
  <2>3. Promised!Exchange(i)
    BY <2>1, <2>2
  <2> QED BY <2>3
<1>12. ASSUME NEW i \in TokenIds, Logout(i) PROVE [Promised!Next]_(Promised!vars)
  BY <1>12 DEF Logout, Decodes, RemainingTtl
<1>13. ASSUME NEW i \in TokenIds, RefreshLapses(i) PROVE [Promised!Next]_(Promised!vars)
  <2>1. Promised!Lapse(i)
    BY <1>13 DEF RefreshLapses
  <2> QED BY <2>1
<1>14. CASE IssueAnonymous
  BY <1>14 DEF IssueAnonymous, NewToken
<1>15. CASE IssueFromCli
  <2>1. issued + 1 \in TokenIds /\ refresh' = refresh \cup {issued + 1} /\ exchanged' = exchanged
    BY <1>15 DEF IssueFromCli, NewPair, NewToken
  <2>2. issued + 1 \notin refresh /\ exchanged[issued + 1] = 0
    BY <2>1
  <2>3. Promised!Issue(issued + 1)
    BY <2>1, <2>2
  <2> QED BY <2>1, <2>3
<1>16. CASE DeactivateAccount
  BY <1>16 DEF DeactivateAccount
<1>17. CASE DeactivateField
  BY <1>17 DEF DeactivateField
<1>18. CASE Tick
  BY <1>18 DEF Tick
<1>19. CASE UNCHANGED vars
  BY <1>19 DEF vars
<1> QED
  BY <1>1, <1>2, <1>3, <1>4, <1>5, <1>6, <1>7, <1>8, <1>9, <1>10, <1>11, <1>12, <1>13, <1>14, <1>15, <1>16, <1>17, <1>18, <1>19, NextCases DEF ClientStep, OtherStep

\* Sessions implements SingleUse: under concurrent exchanges, lapses and crashes
\* every refresh token pays once or not at all.
THEOREM RefreshTokensAreSingleUse == Spec => SingleUseSpec
<1>1. SessionInv /\ [Next]_vars => [Promised!Next]_(Promised!vars)
  BY PromisedStep
<1> QED
  BY SessionAlways, PromisedInit, <1>1, PTL DEF Spec, SingleUseSpec, Promised!Spec

-----------------------------------------------------------------------------
(* Deactivation. *)

DiesOut == row = "inactive" /\ NoneElevated /\ ~IssueFromCli => NoneElevated'

LEMMA DiesOutStep ==
    ASSUME SessionInv, [Next]_vars PROVE DiesOut
<1> USE BoundsAssumption DEF SessionInv, TypeOK, Histories, tokenVars, accountVars, DiesOut, NoneElevated
<1>1. ASSUME NEW c \in Clients, StartPrivy(c) PROVE DiesOut
  BY <1>1 DEF StartPrivy
<1>2. ASSUME NEW c \in Clients, PrivyLogin(c) PROVE DiesOut
  BY <1>2 DEF PrivyLogin, PrivyVerdicts, KindByEmail, KindByFieldRow
<1>3. ASSUME NEW c \in Clients, OtpLogin(c) PROVE DiesOut
  BY <1>3 DEF OtpLogin
<1>4. ASSUME NEW c \in Clients, IssueTokens(c) PROVE DiesOut
  BY <1>4 DEF IssueTokens, NewPair, NewToken
<1>5. ASSUME NEW c \in Clients, RegisterCheck(c) PROVE DiesOut
  BY <1>5 DEF RegisterCheck
<1>6. ASSUME NEW c \in Clients, CliCreateCheck(c) PROVE DiesOut
  BY <1>6 DEF CliCreateCheck
<1>7. ASSUME NEW c \in Clients, InsertAccount(c) PROVE DiesOut
  BY <1>7 DEF InsertAccount
<1>8. ASSUME NEW c \in Clients, AddFieldCheck(c) PROVE DiesOut
  BY <1>8 DEF AddFieldCheck
<1>9. ASSUME NEW c \in Clients, InsertField(c) PROVE DiesOut
  BY <1>9 DEF InsertField
<1>10. ASSUME NEW c \in Clients, Crash(c) PROVE DiesOut
  BY <1>10 DEF Crash
<1>11. ASSUME NEW c \in Clients, NEW i \in TokenIds, RotateRefresh(c, i) PROVE DiesOut
  BY <1>11 DEF RotateRefresh
<1>12. ASSUME NEW i \in TokenIds, Logout(i) PROVE DiesOut
  BY <1>12 DEF Logout, Decodes, RemainingTtl
<1>13. ASSUME NEW i \in TokenIds, RefreshLapses(i) PROVE DiesOut
  BY <1>13 DEF RefreshLapses
<1>14. CASE IssueAnonymous
  BY <1>14 DEF IssueAnonymous, NewToken
<1>15. CASE IssueFromCli
  BY <1>15 DEF IssueFromCli, NewPair, NewToken
<1>16. CASE DeactivateAccount
  BY <1>16 DEF DeactivateAccount
<1>17. CASE DeactivateField
  BY <1>17 DEF DeactivateField
<1>18. CASE Tick
  BY <1>18 DEF Tick
<1>19. CASE UNCHANGED vars
  BY <1>19 DEF vars
<1> QED
  BY <1>1, <1>2, <1>3, <1>4, <1>5, <1>6, <1>7, <1>8, <1>9, <1>10, <1>11, <1>12, <1>13, <1>14, <1>15, <1>16, <1>17, <1>18, <1>19, NextCases DEF ClientStep, OtherStep

\* No login, registration or rotation brings an elevated token back after the last
\* one of a deactivated account is gone.
THEOREM DeactivationHolds == Spec => DeactivationDiesOut
<1>1. SessionInv /\ [Next]_vars => [DiesOut]_vars
  BY DiesOutStep
<1> QED
  BY SessionAlways, <1>1, PTL DEF Spec, DeactivationDiesOut, DiesOut
=============================================================================
