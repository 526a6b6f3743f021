------------------------------ MODULE OtpLogin ------------------------------
(***************************************************************************)
(* The phone login of one identity: send_otp and verify_otp in             *)
(* app/services/auth_service.py, the SMS gateways they go through (sms.py) *)
(* and the voice call that carries a code when SMS does not (voice.py).    *)
(* What a passed verification issues is in module Sessions.  Next to it    *)
(* the fixed-window limiter, a counter of the same pattern, that           *)
(* /auth/privy/verify and report submission go through.                    *)
(*                                                                         *)
(* Every Redis call is a step of its own, so requests that run at once     *)
(* (Clients) interleave between them, and a Crash ends a request between   *)
(* two steps.  Codes are numbered in the order they are made.  A key with  *)
(* a TTL may go at any time.                                               *)
(***************************************************************************)
EXTENDS Naturals, FiniteSets

CONSTANTS
    Clients,        \* requests that may be in flight at once
    MaxAttempts,    \* _OTP_MAX_ATTEMPTS (5 in the code)
    CallLimit,      \* calls per window (RATE_PRIVY_VERIFY_LIMIT 10, submissions 10)
    MaxSends,       \* bound on the codes sent
    MaxFaults       \* bound on crashes

ASSUME BoundsAssumption ==
    /\ IsFiniteSet(Clients) /\ Clients # {}
    /\ MaxAttempts \in Nat \ {0} /\ CallLimit \in Nat \ {0}
    /\ MaxSends \in Nat /\ MaxFaults \in Nat

VARIABLES
    otp,        \* the stored code, 0 when the key is absent
    sent,       \* codes made so far
    delivered,  \* codes the user has been given
    voice,      \* codes that a call may read out, from a live voice_otp:{session} key
    attempts,   \* the failed-attempt counter: its value, and whether it has a TTL
    calls,      \* the limiter's counter, likewise
    used,       \* history: codes a verification has spent
    faults,     \* crashes so far
    req         \* each request: the step it is at, and the code it works with

codeVars == <<otp, sent, delivered, voice>>
vars == <<otp, sent, delivered, voice, attempts, calls, used, faults, req>>

Codes == 1..MaxSends
Steps == {"idle", "sending", "cleanup", "get_otp", "incr", "expire",
          "del_otp", "del_attempts", "expire_calls"}
Idle  == [pc |-> "idle", code |-> 0]
NoKey == [n |-> 0, ttl |-> FALSE]

TypeOK ==
    /\ otp \in 0..MaxSends /\ sent \in 0..MaxSends
    /\ delivered \subseteq Codes /\ voice \subseteq Codes /\ used \subseteq Codes
    /\ attempts \in [n : Nat, ttl : BOOLEAN]
    /\ calls \in [n : 0..(CallLimit + 1), ttl : BOOLEAN]
    /\ faults \in 0..MaxFaults
    /\ req \in [Clients -> [pc : Steps, code : 0..MaxSends]]

Init ==
    /\ otp = 0 /\ sent = 0 /\ delivered = {} /\ voice = {}
    /\ attempts = NoKey /\ calls = NoKey
    /\ used = {} /\ faults = 0
    /\ req = [c \in Clients |-> Idle]

-----------------------------------------------------------------------------
At(c, step)   == req[c].pc = step
Goto(c, step) == req' = [req EXCEPT ![c] = [pc |-> step, code |-> req[c].code]]
Answer(c)     == req' = [req EXCEPT ![c] = Idle]

(***************************************************************************)
(* send_otp: the code is stored before the gateway is asked to carry it.   *)
(***************************************************************************)
SendOtp(c) ==
    /\ At(c, "idle") /\ sent < MaxSends
    /\ sent' = sent + 1
    /\ otp' = sent + 1
    /\ req' = [req EXCEPT ![c] = [pc |-> "sending", code |-> sent + 1]]
    /\ UNCHANGED <<delivered, voice, attempts, calls, used, faults>>

\* The branch for a configured test phone: the tester knows the code already.
SendTestOtp(c) ==
    /\ At(c, "idle") /\ sent < MaxSends
    /\ sent' = sent + 1
    /\ otp' = sent + 1
    /\ delivered' = delivered \cup {sent + 1}
    /\ UNCHANGED <<voice, attempts, calls, used, faults, req>>

\* AfricasTalkingSMSGateway or ConsoleSMSGateway reports success.
SmsCarried(c) ==
    /\ At(c, "sending")
    /\ delivered' = delivered \cup {req[c].code}
    /\ Answer(c)
    /\ UNCHANGED <<otp, sent, voice, attempts, calls, used, faults>>

\* The carrier refuses; FallbackSMSGateway has AtVoiceGateway store the code for
\* the callback and ask for a call.  The call is queued; or it is refused; or the
\* answer is lost, and the call may come although the gateway raised.
SmsRefused(c, call) ==
    /\ At(c, "sending")
    /\ voice' = IF call = "refused" THEN voice ELSE voice \cup {req[c].code}
    /\ IF call = "queued" THEN Answer(c) ELSE Goto(c, "cleanup")
    /\ UNCHANGED <<otp, sent, delivered, attempts, calls, used, faults>>

\* Mutant of CleanUpOtp: the exception is logged and the code stays.
CleanUpSkipped(c) ==
    /\ At(c, "cleanup")
    /\ Answer(c)
    /\ UNCHANGED <<codeVars, attempts, calls, used, faults>>

\* except SMSDeliveryError: delete the stored code, answer 503.
CleanUpOtp(c) ==
    /\ At(c, "cleanup")
    /\ otp' = 0
    /\ Answer(c)
    /\ UNCHANGED <<sent, delivered, voice, attempts, calls, used, faults>>

\* voice_otp_callback: a call is answered while its session key lives.
VoiceAnswered(code) ==
    /\ code \in voice
    /\ delivered' = delivered \cup {code}
    /\ UNCHANGED <<otp, sent, voice, attempts, calls, used, faults, req>>

(***************************************************************************)
(* verify_otp.                                                             *)
(***************************************************************************)
\* Mutant of CheckLockout: the lockout starts one failure late.
CheckLockoutLate(c) ==
    /\ At(c, "idle")
    /\ attempts.n <= MaxAttempts
    /\ Goto(c, "get_otp")
    /\ UNCHANGED <<codeVars, attempts, calls, used, faults>>

\* The lockout check; a locked-out caller is answered 429 and changes nothing.
CheckLockout(c) ==
    /\ At(c, "idle")
    /\ attempts.n < MaxAttempts
    /\ Goto(c, "get_otp")
    /\ UNCHANGED <<codeVars, attempts, calls, used, faults>>

\* GET the code and compare: there is none, it matches (the user's code, or a
\* guess), it does not.
CompareOtp(c) ==
    /\ At(c, "get_otp")
    /\ \/ otp = 0 /\ Answer(c)
       \/ /\ otp # 0
          /\ req' = [req EXCEPT ![c] = [pc |-> "del_otp", code |-> otp]]
       \/ otp # 0 /\ Goto(c, "incr")
    /\ UNCHANGED <<codeVars, attempts, calls, used, faults>>

\* Mutant of CountMiss: the TTL is set when the lockout begins.
CountMissExpireAtLockout(c) ==
    /\ At(c, "incr")
    /\ attempts' = [n |-> attempts.n + 1, ttl |-> attempts.ttl]
    /\ IF attempts.n + 1 = MaxAttempts THEN Goto(c, "expire") ELSE Answer(c)
    /\ UNCHANGED <<codeVars, calls, used, faults>>

CountMiss(c) ==
    /\ At(c, "incr")
    /\ attempts' = [n |-> attempts.n + 1, ttl |-> attempts.ttl]
    /\ IF attempts.n = 0 THEN Goto(c, "expire") ELSE Answer(c)
    /\ UNCHANGED <<codeVars, calls, used, faults>>

\* EXPIRE does nothing when the key is gone.
ExpireMisses(c) ==
    /\ At(c, "expire")
    /\ attempts' = [n |-> attempts.n, ttl |-> attempts.n > 0]
    /\ Answer(c)
    /\ UNCHANGED <<codeVars, calls, used, faults>>

\* Mutant of SpendOtp: the code is left for its TTL to remove.
SpendOtpKept(c) ==
    /\ At(c, "del_otp")
    /\ used' = used \cup {req[c].code}
    /\ Goto(c, "del_attempts")
    /\ UNCHANGED <<codeVars, attempts, calls, faults>>

SpendOtp(c) ==
    /\ At(c, "del_otp")
    /\ otp' = 0
    /\ used' = used \cup {req[c].code}
    /\ Goto(c, "del_attempts")
    /\ UNCHANGED <<sent, delivered, voice, attempts, calls, faults>>

ForgetMisses(c) ==
    /\ At(c, "del_attempts")
    /\ attempts' = NoKey
    /\ Answer(c)
    /\ UNCHANGED <<codeVars, calls, used, faults>>

(***************************************************************************)
(* The limiter.  The handler goes on unless the count is above the limit,  *)
(* and sets the window on the first call whether it goes on or not.  The   *)
(* count only matters up to CallLimit + 1.                                 *)
(***************************************************************************)
CountCall(c) ==
    /\ At(c, "idle")
    /\ calls' = [n |-> IF calls.n > CallLimit THEN calls.n ELSE calls.n + 1, ttl |-> calls.ttl]
    /\ IF calls.n = 0 THEN Goto(c, "expire_calls") ELSE UNCHANGED req
    /\ UNCHANGED <<codeVars, attempts, used, faults>>

ExpireCalls(c) ==
    /\ At(c, "expire_calls")
    /\ calls' = [n |-> calls.n, ttl |-> calls.n > 0]
    /\ Answer(c)
    /\ UNCHANGED <<codeVars, attempts, used, faults>>

CallsLapse ==
    /\ calls.ttl
    /\ calls' = NoKey
    /\ UNCHANGED <<codeVars, attempts, used, faults, req>>

(***************************************************************************)
(* The environment: TTLs, and a process that dies between two steps.       *)
(***************************************************************************)
OtpLapses ==
    /\ otp # 0
    /\ otp' = 0
    /\ UNCHANGED <<sent, delivered, voice, attempts, calls, used, faults, req>>

\* A voice key is stored after its code and for as long: the code goes first.
VoiceLapses(code) ==
    /\ code \in voice /\ otp # code
    /\ voice' = voice \ {code}
    /\ UNCHANGED <<otp, sent, delivered, attempts, calls, used, faults, req>>

AttemptsLapse ==
    /\ attempts.ttl
    /\ attempts' = NoKey
    /\ UNCHANGED <<codeVars, calls, used, faults, req>>

\* The request ends between two steps; get_sms_gateway, which may raise outside the
\* try after the code is stored, ends it in the same way.
Crash(c) ==
    /\ ~At(c, "idle") /\ faults < MaxFaults
    /\ faults' = faults + 1
    /\ Answer(c)
    /\ UNCHANGED <<codeVars, attempts, calls, used>>

Verify(c) ==
    \/ CheckLockout(c) \/ CompareOtp(c) \/ CountMiss(c) \/ ExpireMisses(c)
    \/ SpendOtp(c) \/ ForgetMisses(c)

Send(c) ==
    \/ SendOtp(c) \/ SendTestOtp(c) \/ SmsCarried(c) \/ CleanUpOtp(c)
    \/ \E call \in {"queued", "refused", "lost"} : SmsRefused(c, call)

Limit(c) == CountCall(c) \/ ExpireCalls(c)

Next ==
    \/ \E c \in Clients : Send(c) \/ Verify(c) \/ Limit(c) \/ Crash(c)
    \/ \E code \in Codes : VoiceAnswered(code) \/ VoiceLapses(code)
    \/ OtpLapses \/ AttemptsLapse \/ CallsLapse

Spec == Init /\ [][Next]_vars

-----------------------------------------------------------------------------
(* Properties. *)

\* Concurrent wrong guesses read the counter before any of them increments it,
\* so the lockout admits more than MaxAttempts in a window: but never more than
\* one extra for each other request in flight (verify_otp's GET, compare, INCR).
GuessesBounded == attempts.n <= MaxAttempts + Cardinality(Clients) - 1

\* The failure counter: unless a process died, one that lacks a TTL has a request about
\* to give it one, whatever successes, lapses and other failures come between its
\* INCR and its EXPIRE: no lockout outlasts its window (verify_otp).
LockoutHasEnd ==
    faults = 0 /\ attempts.n > 0 /\ ~attempts.ttl => \E c \in Clients : At(c, "expire")

\* The same of the limiter: no caller stays limited past the window, unless a
\* process died between INCR and EXPIRE (check_rate_limit, _check_rate_limit).
LimiterHasEnd ==
    faults = 0 /\ calls.n > 0 /\ ~calls.ttl => \E c \in Clients : At(c, "expire_calls")

\* No counter locks anybody out for ever.
CountersHaveEnd == LockoutHasEnd /\ LimiterHasEnd

\* Once the senders are done, a code that can be verified has been given to the
\* user or waits in a call, even when sends overlap and some of them fail
\* (send_otp's clean-up, FallbackSMSGateway).
LiveCodeReachable ==
    faults = 0 /\ (\A c \in Clients : req[c].pc \notin {"sending", "cleanup"})
        => otp = 0 \/ otp \in delivered \cup voice

\* OTPNotFoundError is raised for a code "never sent, or already used": a code a
\* verification has spent is not stored any more, so a request that comes later
\* cannot match it (requests that matched it before the DEL still pass).
SpentCodeGone == otp \notin used
=============================================================================
