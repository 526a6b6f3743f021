--------------------------- MODULE OtpLogin_proofs ---------------------------
(***************************************************************************)
(* What TLAPS proves of OtpLogin, for any number of requests, codes and    *)
(* crashes.  NextCases splits Next once for all proofs.  Codes are made    *)
(* one by one, so "made" is at most sent: CodesMade is what the type of    *)
(* delivered, voice and used, and SpentCodeGone, rest on.                  *)
(***************************************************************************)
EXTENDS OtpLogin, FiniteSetTheorems, TLAPS

USE DEF Codes, Steps, Idle, NoKey, At, Goto, Answer

\* What a step of a request may be, without the names of its groups.
ClientStep(c) ==
    \/ SendOtp(c) \/ SendTestOtp(c) \/ SmsCarried(c) \/ CleanUpOtp(c)
    \/ \E call \in {"queued", "refused", "lost"} : SmsRefused(c, call)
    \/ CheckLockout(c) \/ CompareOtp(c) \/ CountMiss(c) \/ ExpireMisses(c)
    \/ SpendOtp(c) \/ ForgetMisses(c) \/ CountCall(c) \/ ExpireCalls(c) \/ Crash(c)

KeyStep ==
    \/ \E code \in Codes : VoiceAnswered(code) \/ VoiceLapses(code)
    \/ OtpLapses \/ AttemptsLapse \/ CallsLapse

LEMMA NextCases ==
    ASSUME Next PROVE KeyStep \/ \E c \in Clients : ClientStep(c)
  BY DEF Next, Send, Verify, Limit, ClientStep, KeyStep

-----------------------------------------------------------------------------
(* Types and codes. *)

\* The steps at which a request holds a code, and codes are made in order.
Holding == {"sending", "cleanup", "del_otp"}
CodesMade ==
    /\ otp \in 0..sent /\ used \subseteq 1..sent
    /\ \A c \in Clients : req[c].pc \in Holding => req[c].code \in 1..sent

CodeInv == TypeOK /\ CodesMade /\ SpentCodeGone

USE DEF Holding

LEMMA CodeInit == Init => CodeInv
  BY BoundsAssumption DEF Init, CodeInv, TypeOK, CodesMade, SpentCodeGone

LEMMA CodeStep ==
    ASSUME CodeInv, [Next]_vars PROVE CodeInv'
<1> USE BoundsAssumption DEF CodeInv, TypeOK, CodesMade, SpentCodeGone, codeVars
<1>1. ASSUME NEW c \in Clients, SendOtp(c) PROVE CodeInv'
  BY <1>1 DEF SendOtp
<1>2. ASSUME NEW c \in Clients, SendTestOtp(c) PROVE CodeInv'
  BY <1>2 DEF SendTestOtp
<1>3. ASSUME NEW c \in Clients, SmsCarried(c) PROVE CodeInv'
  <2>1. req[c].code \in 1..sent /\ req[c].code \in Codes
    BY <1>3 DEF SmsCarried
  <2>2. delivered' \subseteq 1..MaxSends /\ voice' \subseteq 1..MaxSends /\ used' \subseteq 1..sent
    BY <1>3, <2>1 DEF SmsCarried
  <2>3. req' \in [Clients -> [pc : Steps, code : 0..MaxSends]]
    BY <1>3, <2>1 DEF SmsCarried
  <2>4. sent' = sent /\ otp' \in {otp, 0} /\ attempts' = attempts /\ calls' = calls /\ faults' = faults
    BY <1>3 DEF SmsCarried
  <2>5. \A d \in Clients : req'[d].pc \in Holding => req'[d].code = req[d].code /\ req[d].pc \in Holding
    BY <1>3 DEF SmsCarried
  <2>6. otp' \notin used'
    BY <1>3, <2>1 DEF SmsCarried
  <2> QED BY <2>1, <2>2, <2>3, <2>4, <2>5, <2>6
<1>4. ASSUME NEW c \in Clients, CleanUpOtp(c) PROVE CodeInv'
  BY <1>4 DEF CleanUpOtp
<1>5. ASSUME NEW c \in Clients, CheckLockout(c) PROVE CodeInv'
  BY <1>5 DEF CheckLockout
<1>6. ASSUME NEW c \in Clients, CompareOtp(c) PROVE CodeInv'
  BY <1>6 DEF CompareOtp
<1>7. ASSUME NEW c \in Clients, CountMiss(c) PROVE CodeInv'
  BY <1>7 DEF CountMiss
<1>8. ASSUME NEW c \in Clients, ExpireMisses(c) PROVE CodeInv'
  BY <1>8 DEF ExpireMisses
<1>9. ASSUME NEW c \in Clients, SpendOtp(c) PROVE CodeInv'
  <2>1. req[c].code \in 1..sent /\ req[c].code \in Codes
    BY <1>9 DEF SpendOtp
  <2>2. delivered' \subseteq 1..MaxSends /\ voice' \subseteq 1..MaxSends /\ used' \subseteq 1..sent
    BY <1>9, <2>1 DEF SpendOtp
  <2>3. req' \in [Clients -> [pc : Steps, code : 0..MaxSends]]
    BY <1>9, <2>1 DEF SpendOtp
  <2>4. sent' = sent /\ otp' \in {otp, 0} /\ attempts' = attempts /\ calls' = calls /\ faults' = faults
    BY <1>9 DEF SpendOtp
  <2>5. \A d \in Clients : req'[d].pc \in Holding => req'[d].code = req[d].code /\ req[d].pc \in Holding
    BY <1>9 DEF SpendOtp
  <2>6. otp' \notin used'
    BY <1>9, <2>1 DEF SpendOtp
  <2> QED BY <2>1, <2>2, <2>3, <2>4, <2>5, <2>6
<1>10. ASSUME NEW c \in Clients, ForgetMisses(c) PROVE CodeInv'
  BY <1>10 DEF ForgetMisses
<1>11. ASSUME NEW c \in Clients, CountCall(c) PROVE CodeInv'
  BY <1>11 DEF CountCall
<1>12. ASSUME NEW c \in Clients, ExpireCalls(c) PROVE CodeInv'
  BY <1>12 DEF ExpireCalls
<1>13. ASSUME NEW c \in Clients, Crash(c) PROVE CodeInv'
  BY <1>13 DEF Crash
<1>14. ASSUME NEW c \in Clients, NEW call \in {"queued", "refused", "lost"}, SmsRefused(c, call)
      PROVE CodeInv'
  <2>1. req[c].code \in 1..sent /\ req[c].code \in Codes
    BY <1>14 DEF SmsRefused
  <2>2. delivered' \subseteq 1..MaxSends /\ voice' \subseteq 1..MaxSends /\ used' \subseteq 1..sent
    BY <1>14, <2>1 DEF SmsRefused
  <2>3. req' \in [Clients -> [pc : Steps, code : 0..MaxSends]]
    BY <1>14, <2>1 DEF SmsRefused
  <2>4. sent' = sent /\ otp' \in {otp, 0} /\ attempts' = attempts /\ calls' = calls /\ faults' = faults
    BY <1>14 DEF SmsRefused
  <2>5. \A d \in Clients : req'[d].pc \in Holding => req'[d].code = req[d].code /\ req[d].pc \in Holding
    BY <1>14 DEF SmsRefused
  <2>6. otp' \notin used'
    BY <1>14, <2>1 DEF SmsRefused
  <2> QED BY <2>1, <2>2, <2>3, <2>4, <2>5, <2>6
<1>15. ASSUME NEW code \in Codes, VoiceAnswered(code) PROVE CodeInv'
  BY <1>15 DEF VoiceAnswered
<1>16. ASSUME NEW code \in Codes, VoiceLapses(code) PROVE CodeInv'
  BY <1>16 DEF VoiceLapses
<1>17. CASE OtpLapses
  BY <1>17 DEF OtpLapses
<1>18. CASE AttemptsLapse
  BY <1>18 DEF AttemptsLapse
<1>19. CASE CallsLapse
  BY <1>19 DEF CallsLapse
<1>20. CASE UNCHANGED vars
  BY <1>20 DEF vars, codeVars
<1> QED
  BY <1>1, <1>2, <1>3, <1>4, <1>5, <1>6, <1>7, <1>8, <1>9, <1>10, <1>11, <1>12, <1>13, <1>14, <1>15, <1>16, <1>17, <1>18, <1>19, <1>20, NextCases DEF ClientStep, KeyStep

\* Every reachable state has its type: no code is out of range, the limiter's count
\* stops one above the limit.
THEOREM TypeCorrect == Spec => []TypeOK
<1>1. Init => CodeInv
  BY CodeInit
<1>2. CodeInv /\ [Next]_vars => CodeInv'
  BY CodeStep
<1>3. CodeInv => TypeOK
  BY DEF CodeInv
<1> QED
  BY <1>1, <1>2, <1>3, PTL DEF Spec

LEMMA CodeAlways == Spec => []CodeInv
<1>1. CodeInv /\ [Next]_vars => CodeInv'
  BY CodeStep
<1> QED
  BY CodeInit, <1>1, PTL DEF Spec

\* A code that a verification has spent is not stored any more, however many
\* requests send, verify, fail and crash at once.
THEOREM SpentCodesStayGone == Spec => []SpentCodeGone
<1>1. CodeInv => SpentCodeGone
  BY DEF CodeInv
<1> QED
  BY CodeAlways, <1>1, PTL

-----------------------------------------------------------------------------
(* Lockout and limiter have an end.  Both hold step by step. *)

LEMMA LockoutStep ==
    ASSUME CodeInv, LockoutHasEnd, [Next]_vars PROVE LockoutHasEnd'
<1> USE BoundsAssumption DEF CodeInv, TypeOK, codeVars, LockoutHasEnd
<1>1. ASSUME NEW c \in Clients, SendOtp(c) PROVE LockoutHasEnd'
  BY <1>1 DEF SendOtp
<1>2. ASSUME NEW c \in Clients, SendTestOtp(c) PROVE LockoutHasEnd'
  BY <1>2 DEF SendTestOtp
<1>3. ASSUME NEW c \in Clients, SmsCarried(c) PROVE LockoutHasEnd'
  BY <1>3 DEF SmsCarried
<1>4. ASSUME NEW c \in Clients, CleanUpOtp(c) PROVE LockoutHasEnd'
  BY <1>4 DEF CleanUpOtp
<1>5. ASSUME NEW c \in Clients, CheckLockout(c) PROVE LockoutHasEnd'
  BY <1>5 DEF CheckLockout
<1>6. ASSUME NEW c \in Clients, CompareOtp(c) PROVE LockoutHasEnd'
  BY <1>6 DEF CompareOtp
<1>7. ASSUME NEW c \in Clients, CountMiss(c) PROVE LockoutHasEnd'
  BY <1>7 DEF CountMiss
<1>8. ASSUME NEW c \in Clients, ExpireMisses(c) PROVE LockoutHasEnd'
  BY <1>8 DEF ExpireMisses
<1>9. ASSUME NEW c \in Clients, SpendOtp(c) PROVE LockoutHasEnd'
  BY <1>9 DEF SpendOtp
<1>10. ASSUME NEW c \in Clients, ForgetMisses(c) PROVE LockoutHasEnd'
  BY <1>10 DEF ForgetMisses
<1>11. ASSUME NEW c \in Clients, CountCall(c) PROVE LockoutHasEnd'
  BY <1>11 DEF CountCall
<1>12. ASSUME NEW c \in Clients, ExpireCalls(c) PROVE LockoutHasEnd'
  BY <1>12 DEF ExpireCalls
<1>13. ASSUME NEW c \in Clients, Crash(c) PROVE LockoutHasEnd'
  BY <1>13 DEF Crash
<1>14. ASSUME NEW c \in Clients, NEW call \in {"queued", "refused", "lost"}, SmsRefused(c, call)
      PROVE LockoutHasEnd'
  BY <1>14 DEF SmsRefused
<1>15. ASSUME NEW code \in Codes, VoiceAnswered(code) PROVE LockoutHasEnd'
  BY <1>15 DEF VoiceAnswered
<1>16. ASSUME NEW code \in Codes, VoiceLapses(code) PROVE LockoutHasEnd'
  BY <1>16 DEF VoiceLapses
<1>17. CASE OtpLapses
  BY <1>17 DEF OtpLapses
<1>18. CASE AttemptsLapse
  BY <1>18 DEF AttemptsLapse
<1>19. CASE CallsLapse
  BY <1>19 DEF CallsLapse
<1>20. CASE UNCHANGED vars
  BY <1>20 DEF vars, codeVars
<1> QED
  BY <1>1, <1>2, <1>3, <1>4, <1>5, <1>6, <1>7, <1>8, <1>9, <1>10, <1>11, <1>12, <1>13, <1>14, <1>15, <1>16, <1>17, <1>18, <1>19, <1>20, NextCases DEF ClientStep, KeyStep

LEMMA LimiterStep ==
    ASSUME CodeInv, LimiterHasEnd, [Next]_vars PROVE LimiterHasEnd'
<1> USE BoundsAssumption DEF CodeInv, TypeOK, codeVars, LimiterHasEnd
<1>1. ASSUME NEW c \in Clients, SendOtp(c) PROVE LimiterHasEnd'
  BY <1>1 DEF SendOtp
<1>2. ASSUME NEW c \in Clients, SendTestOtp(c) PROVE LimiterHasEnd'
  BY <1>2 DEF SendTestOtp
<1>3. ASSUME NEW c \in Clients, SmsCarried(c) PROVE LimiterHasEnd'
  BY <1>3 DEF SmsCarried
<1>4. ASSUME NEW c \in Clients, CleanUpOtp(c) PROVE LimiterHasEnd'
  BY <1>4 DEF CleanUpOtp
<1>5. ASSUME NEW c \in Clients, CheckLockout(c) PROVE LimiterHasEnd'
  BY <1>5 DEF CheckLockout
<1>6. ASSUME NEW c \in Clients, CompareOtp(c) PROVE LimiterHasEnd'
  BY <1>6 DEF CompareOtp
<1>7. ASSUME NEW c \in Clients, CountMiss(c) PROVE LimiterHasEnd'
  BY <1>7 DEF CountMiss
<1>8. ASSUME NEW c \in Clients, ExpireMisses(c) PROVE LimiterHasEnd'
  BY <1>8 DEF ExpireMisses
<1>9. ASSUME NEW c \in Clients, SpendOtp(c) PROVE LimiterHasEnd'
  BY <1>9 DEF SpendOtp
<1>10. ASSUME NEW c \in Clients, ForgetMisses(c) PROVE LimiterHasEnd'
  BY <1>10 DEF ForgetMisses
<1>11. ASSUME NEW c \in Clients, CountCall(c) PROVE LimiterHasEnd'
  BY <1>11 DEF CountCall
<1>12. ASSUME NEW c \in Clients, ExpireCalls(c) PROVE LimiterHasEnd'
  BY <1>12 DEF ExpireCalls
<1>13. ASSUME NEW c \in Clients, Crash(c) PROVE LimiterHasEnd'
  BY <1>13 DEF Crash
<1>14. ASSUME NEW c \in Clients, NEW call \in {"queued", "refused", "lost"}, SmsRefused(c, call)
      PROVE LimiterHasEnd'
  BY <1>14 DEF SmsRefused
<1>15. ASSUME NEW code \in Codes, VoiceAnswered(code) PROVE LimiterHasEnd'
  BY <1>15 DEF VoiceAnswered
<1>16. ASSUME NEW code \in Codes, VoiceLapses(code) PROVE LimiterHasEnd'
  BY <1>16 DEF VoiceLapses
<1>17. CASE OtpLapses
  BY <1>17 DEF OtpLapses
<1>18. CASE AttemptsLapse
  BY <1>18 DEF AttemptsLapse
<1>19. CASE CallsLapse
  BY <1>19 DEF CallsLapse
<1>20. CASE UNCHANGED vars
  BY <1>20 DEF vars, codeVars
<1> QED
  BY <1>1, <1>2, <1>3, <1>4, <1>5, <1>6, <1>7, <1>8, <1>9, <1>10, <1>11, <1>12, <1>13, <1>14, <1>15, <1>16, <1>17, <1>18, <1>19, <1>20, NextCases DEF ClientStep, KeyStep

\* While no process dies between two steps, neither a lockout nor the limiter outlasts
\* its window.
THEOREM CountersEnd == Spec => []CountersHaveEnd
<1>1. Init => CountersHaveEnd
  BY DEF Init, CountersHaveEnd, LockoutHasEnd, LimiterHasEnd
<1>2. CodeInv /\ CountersHaveEnd /\ [Next]_vars => CountersHaveEnd'
  BY LockoutStep, LimiterStep DEF CountersHaveEnd
<1> QED
  BY CodeAlways, <1>1, <1>2, PTL DEF Spec

-----------------------------------------------------------------------------
(* The code in the store was given to the user, or a sender still holds it. *)

SenderHolds == \E c \in Clients : req[c].pc \in {"sending", "cleanup"} /\ req[c].code = otp
LiveInv == faults = 0 /\ otp # 0 => otp \in delivered \cup voice \/ SenderHolds

LEMMA LiveStep ==
    ASSUME CodeInv, LiveInv, [Next]_vars PROVE LiveInv'
<1> USE BoundsAssumption DEF CodeInv, TypeOK, codeVars, LiveInv, SenderHolds
<1>1. ASSUME NEW c \in Clients, SendOtp(c) PROVE LiveInv'
  BY <1>1 DEF SendOtp
<1>2. ASSUME NEW c \in Clients, SendTestOtp(c) PROVE LiveInv'
  BY <1>2 DEF SendTestOtp
<1>3. ASSUME NEW c \in Clients, SmsCarried(c) PROVE LiveInv'
  BY <1>3 DEF SmsCarried
<1>4. ASSUME NEW c \in Clients, CleanUpOtp(c) PROVE LiveInv'
  BY <1>4 DEF CleanUpOtp
<1>5. ASSUME NEW c \in Clients, CheckLockout(c) PROVE LiveInv'
  BY <1>5 DEF CheckLockout
<1>6. ASSUME NEW c \in Clients, CompareOtp(c) PROVE LiveInv'
  BY <1>6 DEF CompareOtp
<1>7. ASSUME NEW c \in Clients, CountMiss(c) PROVE LiveInv'
  BY <1>7 DEF CountMiss
<1>8. ASSUME NEW c \in Clients, ExpireMisses(c) PROVE LiveInv'
  BY <1>8 DEF ExpireMisses
<1>9. ASSUME NEW c \in Clients, SpendOtp(c) PROVE LiveInv'
  BY <1>9 DEF SpendOtp
<1>10. ASSUME NEW c \in Clients, ForgetMisses(c) PROVE LiveInv'
  BY <1>10 DEF ForgetMisses
<1>11. ASSUME NEW c \in Clients, CountCall(c) PROVE LiveInv'
  BY <1>11 DEF CountCall
<1>12. ASSUME NEW c \in Clients, ExpireCalls(c) PROVE LiveInv'
  BY <1>12 DEF ExpireCalls
<1>13. ASSUME NEW c \in Clients, Crash(c) PROVE LiveInv'
  BY <1>13 DEF Crash
<1>14. ASSUME NEW c \in Clients, NEW call \in {"queued", "refused", "lost"}, SmsRefused(c, call)
      PROVE LiveInv'
  BY <1>14 DEF SmsRefused
<1>15. ASSUME NEW code \in Codes, VoiceAnswered(code) PROVE LiveInv'
  BY <1>15 DEF VoiceAnswered
<1>16. ASSUME NEW code \in Codes, VoiceLapses(code) PROVE LiveInv'
  BY <1>16 DEF VoiceLapses
<1>17. CASE OtpLapses
  BY <1>17 DEF OtpLapses
<1>18. CASE AttemptsLapse
  BY <1>18 DEF AttemptsLapse
<1>19. CASE CallsLapse
  BY <1>19 DEF CallsLapse
<1>20. CASE UNCHANGED vars
  BY <1>20 DEF vars, codeVars
<1> QED
  BY <1>1, <1>2, <1>3, <1>4, <1>5, <1>6, <1>7, <1>8, <1>9, <1>10, <1>11, <1>12, <1>13, <1>14, <1>15, <1>16, <1>17, <1>18, <1>19, <1>20, NextCases DEF ClientStep, KeyStep

\* Once the senders are done, a code that can be verified has been given to the user
\* or waits in a call, however sends overlap and fail.
THEOREM LiveCodesReachable == Spec => []LiveCodeReachable
<1>1. Init => LiveInv
  BY DEF Init, LiveInv
<1>2. CodeInv /\ LiveInv /\ [Next]_vars => LiveInv'
  BY LiveStep
<1>3. LiveInv => LiveCodeReachable
  BY DEF LiveInv, SenderHolds, LiveCodeReachable
<1> QED
  BY CodeAlways, <1>1, <1>2, <1>3, PTL DEF Spec

-----------------------------------------------------------------------------
(* Guesses.  A request that has passed the lockout check may still count one *)
(* miss, so these requests are counted together with the misses.           *)

Guessing == {c \in Clients : req[c].pc \in {"get_otp", "incr"}}
GuessInv == attempts.n + Cardinality(Guessing) <= MaxAttempts + Cardinality(Clients) - 1

LEMMA GuessingFinite ==
    /\ IsFiniteSet(Guessing) /\ Cardinality(Guessing) \in Nat
    /\ Cardinality(Clients) \in Nat /\ Cardinality(Guessing) <= Cardinality(Clients)
    /\ Cardinality(Clients) >= 1
<1>1. Guessing \subseteq Clients /\ IsFiniteSet(Clients) /\ Clients # {}
  BY BoundsAssumption DEF Guessing
<1>2. Cardinality(Clients) # 0
  BY <1>1, FS_EmptySet
<1> QED
  BY <1>1, <1>2, FS_Subset, FS_CardinalityType

\* Nothing is counted and nobody passes the check.
LEMMA FewerGuesses ==
    ASSUME CodeInv, CodeInv', GuessInv, Guessing' \subseteq Guessing, attempts'.n <= attempts.n
    PROVE  GuessInv'
<1>1. Cardinality(Guessing') <= Cardinality(Guessing) /\ Cardinality(Guessing') \in Nat
  BY GuessingFinite, FS_Subset, FS_CardinalityType
<1>2. attempts.n \in Nat /\ attempts'.n \in Nat
  BY DEF CodeInv, TypeOK
<1> QED
  BY <1>1, <1>2, GuessingFinite, BoundsAssumption DEF GuessInv

LEMMA GuessStep ==
    ASSUME CodeInv, CodeInv', GuessInv, [Next]_vars PROVE GuessInv'
<1> USE BoundsAssumption DEF CodeInv, TypeOK, codeVars
<1>1. ASSUME NEW c \in Clients, SendOtp(c) PROVE GuessInv'
  <2>1. Guessing' \subseteq Guessing /\ attempts'.n <= attempts.n
    BY <1>1 DEF SendOtp, Guessing
  <2> QED BY <2>1, FewerGuesses
<1>2. ASSUME NEW c \in Clients, SendTestOtp(c) PROVE GuessInv'
  <2>1. Guessing' \subseteq Guessing /\ attempts'.n <= attempts.n
    BY <1>2 DEF SendTestOtp, Guessing
  <2> QED BY <2>1, FewerGuesses
<1>3. ASSUME NEW c \in Clients, SmsCarried(c) PROVE GuessInv'
  <2>1. Guessing' \subseteq Guessing /\ attempts'.n <= attempts.n
    BY <1>3 DEF SmsCarried, Guessing
  <2> QED BY <2>1, FewerGuesses
<1>4. ASSUME NEW c \in Clients, CleanUpOtp(c) PROVE GuessInv'
  <2>1. Guessing' \subseteq Guessing /\ attempts'.n <= attempts.n
    BY <1>4 DEF CleanUpOtp, Guessing
  <2> QED BY <2>1, FewerGuesses
<1>5. ASSUME NEW c \in Clients, CheckLockout(c) PROVE GuessInv'
  <2>1. attempts'.n <= MaxAttempts - 1 /\ attempts'.n \in Nat
    BY <1>5 DEF CheckLockout
  <2>2. Cardinality(Guessing') \in Nat /\ Cardinality(Guessing') <= Cardinality(Clients)
    <3>1. Guessing' \subseteq Clients
      BY DEF Guessing
    <3> QED BY <3>1, FS_Subset, FS_CardinalityType
  <2> QED BY <2>1, <2>2, GuessingFinite DEF GuessInv
<1>6. ASSUME NEW c \in Clients, CompareOtp(c) PROVE GuessInv'
  <2>1. Guessing' \subseteq Guessing /\ attempts'.n <= attempts.n
    BY <1>6 DEF CompareOtp, Guessing
  <2> QED BY <2>1, FewerGuesses
<1>7. ASSUME NEW c \in Clients, CountMiss(c) PROVE GuessInv'
  <2>1. c \in Guessing /\ Guessing' = Guessing \ {c} /\ attempts'.n = attempts.n + 1
    BY <1>7 DEF CountMiss, Guessing
  <2>2. Cardinality(Guessing') = Cardinality(Guessing) - 1
    BY <2>1, GuessingFinite, FS_RemoveElement
  <2> QED BY <2>1, <2>2, GuessingFinite DEF GuessInv
<1>8. ASSUME NEW c \in Clients, ExpireMisses(c) PROVE GuessInv'
  <2>1. Guessing' \subseteq Guessing /\ attempts'.n <= attempts.n
    BY <1>8 DEF ExpireMisses, Guessing
  <2> QED BY <2>1, FewerGuesses
<1>9. ASSUME NEW c \in Clients, SpendOtp(c) PROVE GuessInv'
  <2>1. Guessing' \subseteq Guessing /\ attempts'.n <= attempts.n
    BY <1>9 DEF SpendOtp, Guessing
  <2> QED BY <2>1, FewerGuesses
<1>10. ASSUME NEW c \in Clients, ForgetMisses(c) PROVE GuessInv'
  <2>1. Guessing' \subseteq Guessing /\ attempts'.n <= attempts.n
    BY <1>10 DEF ForgetMisses, Guessing
  <2> QED BY <2>1, FewerGuesses
<1>11. ASSUME NEW c \in Clients, CountCall(c) PROVE GuessInv'
  <2>1. Guessing' \subseteq Guessing /\ attempts'.n <= attempts.n
    BY <1>11 DEF CountCall, Guessing
  <2> QED BY <2>1, FewerGuesses
<1>12. ASSUME NEW c \in Clients, ExpireCalls(c) PROVE GuessInv'
  <2>1. Guessing' \subseteq Guessing /\ attempts'.n <= attempts.n
    BY <1>12 DEF ExpireCalls, Guessing
  <2> QED BY <2>1, FewerGuesses
<1>13. ASSUME NEW c \in Clients, Crash(c) PROVE GuessInv'
  <2>1. Guessing' \subseteq Guessing /\ attempts'.n <= attempts.n
    BY <1>13 DEF Crash, Guessing
  <2> QED BY <2>1, FewerGuesses
<1>14. ASSUME NEW c \in Clients, NEW call \in {"queued", "refused", "lost"}, SmsRefused(c, call)
      PROVE GuessInv'
  <2>1. Guessing' \subseteq Guessing /\ attempts'.n <= attempts.n
    BY <1>14 DEF SmsRefused, Guessing
  <2> QED BY <2>1, FewerGuesses
<1>15. ASSUME NEW code \in Codes, VoiceAnswered(code) PROVE GuessInv'
  <2>1. Guessing' \subseteq Guessing /\ attempts'.n <= attempts.n
    BY <1>15 DEF VoiceAnswered, Guessing
  <2> QED BY <2>1, FewerGuesses
<1>16. ASSUME NEW code \in Codes, VoiceLapses(code) PROVE GuessInv'
  <2>1. Guessing' \subseteq Guessing /\ attempts'.n <= attempts.n
    BY <1>16 DEF VoiceLapses, Guessing
  <2> QED BY <2>1, FewerGuesses
<1>17. CASE OtpLapses
  <2>1. Guessing' \subseteq Guessing /\ attempts'.n <= attempts.n
    BY <1>17 DEF OtpLapses, Guessing
  <2> QED BY <2>1, FewerGuesses
<1>18. CASE AttemptsLapse
  <2>1. Guessing' \subseteq Guessing /\ attempts'.n <= attempts.n
    BY <1>18 DEF AttemptsLapse, Guessing
  <2> QED BY <2>1, FewerGuesses
<1>19. CASE CallsLapse
  <2>1. Guessing' \subseteq Guessing /\ attempts'.n <= attempts.n
    BY <1>19 DEF CallsLapse, Guessing
  <2> QED BY <2>1, FewerGuesses
<1>20. CASE UNCHANGED vars
  <2>1. Guessing' \subseteq Guessing /\ attempts'.n <= attempts.n
    BY <1>20 DEF vars, Guessing
  <2> QED BY <2>1, FewerGuesses
<1> QED
  BY <1>1, <1>2, <1>3, <1>4, <1>5, <1>6, <1>7, <1>8, <1>9, <1>10, <1>11, <1>12, <1>13, <1>14, <1>15, <1>16, <1>17, <1>18, <1>19, <1>20, NextCases DEF ClientStep, KeyStep

\* The lockout admits at most one wrong guess more than MaxAttempts for each other
\* request that is in flight.
THEOREM GuessesStayBounded == Spec => []GuessesBounded
<1>1. Init => GuessInv
  <2> SUFFICES ASSUME Init PROVE GuessInv
    OBVIOUS
  <2>1. Guessing = {} /\ attempts.n = 0
    BY DEF Init, Guessing
  <2> QED BY <2>1, GuessingFinite, FS_EmptySet, BoundsAssumption DEF GuessInv
<1>2. CodeInv /\ CodeInv' /\ GuessInv /\ [Next]_vars => GuessInv'
  BY GuessStep
<1>3. CodeInv /\ GuessInv => GuessesBounded
  BY GuessingFinite, BoundsAssumption DEF CodeInv, TypeOK, GuessInv, GuessesBounded
<1> QED
  BY CodeAlways, <1>1, <1>2, <1>3, PTL DEF Spec
=============================================================================
