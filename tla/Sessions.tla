------------------------------ MODULE Sessions ------------------------------
(***************************************************************************)
(* Tokens and accounts of one identity: the Privy and the phone login,     *)
(* access and refresh tokens, logout and the denylist, and the account     *)
(* tables (app/services/auth_service.py, routes auth.py, analyst_auth.py,  *)
(* the account commands of app/cli, field_reporter_service.py).            *)
(*                                                                         *)
(* Every Redis call and every database statement is a step of its own, so  *)
(* requests that run at once (Clients) interleave between them; a Crash    *)
(* ends a request between two steps.  Token pairs are numbered in the      *)
(* order they are issued.  now counts the seconds that an access token's   *)
(* exp is compared with; other keys with a TTL may go at any time.         *)
(***************************************************************************)
EXTENDS Naturals, FiniteSets

CONSTANTS
    Clients,        \* requests that may be in flight at once
    Life,           \* ACCESS_TOKEN_EXPIRE_MINUTES, in ticks of now
    MaxTokens,      \* bound on the token pairs issued
    MaxNow          \* bound on now

ASSUME BoundsAssumption ==
    /\ IsFiniteSet(Clients) /\ Clients # {}
    /\ Life \in Nat \ {0}
    /\ MaxTokens \in Nat /\ MaxNow \in Nat

VARIABLES
    row,        \* the analyst_accounts row of the identity
    field,      \* its field_reporters row
    issued,     \* token pairs issued so far
    tokens,     \* tokens[i]: the kind and the exp of the i-th access token
    refresh,    \* refresh tokens stored in Redis
    exchanged,  \* history: how often each refresh token was accepted
    deny,       \* deny[i]: when the denylist entry of access token i ends, 0 for none
    now,
    req         \* each request: the step it is at, and the kind of login it found

tokenVars   == <<issued, tokens, refresh, exchanged, deny>>
accountVars == <<row, field>>
vars == <<row, field, issued, tokens, refresh, exchanged, deny, now, req>>

TokenIds == 1..MaxTokens
Kinds    == {"none", "anonymous", "reporter", "field", "elevated"}
RowState == {"none", "active", "inactive"}
Steps    == {"idle", "privy", "issue", "insert_account", "insert_field"}
Idle     == [pc |-> "idle", kind |-> "none"]

TypeOK ==
    /\ row \in RowState /\ field \in RowState
    /\ issued \in 0..MaxTokens
    /\ tokens \in [TokenIds -> [kind : Kinds, exp : Nat]]
    /\ refresh \subseteq 1..issued
    /\ exchanged \in [TokenIds -> Nat]
    /\ deny \in [TokenIds -> Nat]
    /\ now \in 0..MaxNow
    /\ req \in [Clients -> [pc : Steps, kind : Kinds]]

Init ==
    /\ row = "none" /\ field = "none"
    /\ issued = 0
    /\ tokens = [i \in TokenIds |-> [kind |-> "none", exp |-> 0]]
    /\ refresh = {}
    /\ exchanged = [i \in TokenIds |-> 0]
    /\ deny = [i \in TokenIds |-> 0]
    /\ now = 0
    /\ req = [c \in Clients |-> Idle]

-----------------------------------------------------------------------------
At(c, step)         == req[c].pc = step
Goto(c, step, kind) == req' = [req EXCEPT ![c] = [pc |-> step, kind |-> kind]]
Answer(c)           == req' = [req EXCEPT ![c] = Idle]

(***************************************************************************)
(* Logins.                                                                 *)
(***************************************************************************)
\* verify_privy, past the limiter (module OtpLogin).
StartPrivy(c) ==
    /\ At(c, "idle")
    /\ Goto(c, "privy", "none")
    /\ UNCHANGED <<tokenVars, now, accountVars>>

\* lookup_active_by_email_hash, asked when no analyst account was found.
KindByFieldRow == IF field = "active" THEN "field" ELSE "reporter"

\* Mutant of KindByEmail: the query forgets is_active.
KindByAnyRow == IF row # "none" THEN "elevated" ELSE KindByFieldRow

\* lookup_analyst_account.
KindByEmail == IF row = "active" THEN "elevated" ELSE KindByFieldRow

\* What verify_privy_token and the identity token's claims come to.
PrivyVerdicts == {"refused", "no_email", "email"}

PrivyLogin(c) ==
    /\ At(c, "privy")
    /\ \E verdict \in PrivyVerdicts :
        \/ verdict = "refused"  /\ Answer(c)
        \/ verdict = "no_email" /\ Goto(c, "issue", "reporter")
        \/ verdict = "email"    /\ Goto(c, "issue", KindByEmail)
    /\ UNCHANGED <<tokenVars, now, accountVars>>

\* The end of verify_otp: the role of the account with this hash, or reporter.
OtpLogin(c) ==
    /\ At(c, "idle")
    /\ Goto(c, "issue", IF row = "active" THEN "elevated" ELSE "reporter")
    /\ UNCHANGED <<tokenVars, now, accountVars>>

(***************************************************************************)
(* Tokens.                                                                 *)
(***************************************************************************)
NewToken(kind) ==
    /\ issued < MaxTokens
    /\ issued' = issued + 1
    /\ tokens' = [tokens EXCEPT ![issued + 1] = [kind |-> kind, exp |-> now + Life]]
    /\ UNCHANGED <<exchanged, deny>>

\* An access token and the refresh token that goes with it.
NewPair(kind) ==
    /\ NewToken(kind)
    /\ refresh' = refresh \cup {issued + 1}

\* The end of a login or a rotation.
IssueTokens(c) ==
    /\ At(c, "issue")
    /\ NewPair(req[c].kind)
    /\ Answer(c)
    /\ UNCHANGED <<now, accountVars>>

\* An anonymous session has no refresh token.
IssueAnonymous ==
    /\ NewToken("anonymous")
    /\ UNCHANGED <<refresh, now, accountVars, req>>

\* issue_analyst_token, run by create_analyst: no account row is consulted.
IssueFromCli ==
    /\ NewPair("elevated")
    /\ UNCHANGED <<now, accountVars, req>>

\* rotate_refresh_token: one GETDEL; a token that is not there is refused.  The
\* new pair keeps the stored kind.
\* Mutant of RotateRefresh: GET instead of GETDEL.
RotateRefreshKeeps(c, i) ==
    /\ At(c, "idle")
    /\ i \in refresh
    /\ exchanged' = [exchanged EXCEPT ![i] = @ + 1]
    /\ Goto(c, "issue", tokens[i].kind)
    /\ UNCHANGED <<issued, tokens, refresh, deny, now, accountVars>>

RotateRefresh(c, i) ==
    /\ At(c, "idle")
    /\ i \in refresh
    /\ refresh' = refresh \ {i}
    /\ exchanged' = [exchanged EXCEPT ![i] = @ + 1]
    /\ Goto(c, "issue", tokens[i].kind)
    /\ UNCHANGED <<issued, tokens, deny, now, accountVars>>

\* decode_access_token accepts a token through the second its exp names.
Decodes(i) == i \in 1..issued /\ now <= tokens[i].exp

\* verify_access_token; the denylist entry has gone when its TTL has passed.
Usable(i) == Decodes(i) /\ ~(now < deny[i])

\* The TTL logout gives the denylist entry.
\* Mutant of RemainingTtl: it leaves the last second to the exp check.
RemainingTtlShort(exp) == IF exp > now THEN exp - now - 1 ELSE 0

RemainingTtl(exp) == IF exp > now THEN exp - now ELSE 1

Logout(i) ==
    /\ Decodes(i)
    /\ deny' = [deny EXCEPT ![i] = now + RemainingTtl(tokens[i].exp)]
    /\ UNCHANGED <<issued, tokens, refresh, exchanged, now, accountVars, req>>

(***************************************************************************)
(* Accounts.  register_analyst_account looks for an active row only, the   *)
(* command line for any row; email_hash is UNIQUE over all rows.           *)
(***************************************************************************)
RegisterCheck(c) ==
    /\ At(c, "idle") /\ row # "active"
    /\ Goto(c, "insert_account", "none")
    /\ UNCHANGED <<tokenVars, now, accountVars>>

CliCreateCheck(c) ==
    /\ At(c, "idle") /\ row = "none"
    /\ Goto(c, "insert_account", "none")
    /\ UNCHANGED <<tokenVars, now, accountVars>>

\* The INSERT, or the IntegrityError that rolls it back.
InsertAccount(c) ==
    /\ At(c, "insert_account")
    /\ row' = IF row = "none" THEN "active" ELSE row
    /\ Answer(c)
    /\ UNCHANGED <<tokenVars, now, field>>

\* By the API or by the command line.
DeactivateAccount ==
    /\ row = "active"
    /\ row' = "inactive"
    /\ UNCHANGED <<tokenVars, now, field, req>>

AddFieldCheck(c) ==
    /\ At(c, "idle") /\ field = "none"
    /\ Goto(c, "insert_field", "none")
    /\ UNCHANGED <<tokenVars, now, accountVars>>

InsertField(c) ==
    /\ At(c, "insert_field")
    /\ field' = IF field = "none" THEN "active" ELSE field
    /\ Answer(c)
    /\ UNCHANGED <<tokenVars, now, row>>

DeactivateField ==
    /\ field = "active"
    /\ field' = "inactive"
    /\ UNCHANGED <<tokenVars, now, row, req>>

(***************************************************************************)
(* The environment: TTLs, the clock, a process that dies between steps.    *)
(***************************************************************************)
RefreshLapses(i) ==
    /\ i \in refresh
    /\ refresh' = refresh \ {i}
    /\ UNCHANGED <<issued, tokens, exchanged, deny, now, accountVars, req>>

Tick ==
    /\ now < MaxNow
    /\ now' = now + 1
    /\ UNCHANGED <<tokenVars, accountVars, req>>

Crash(c) ==
    /\ ~At(c, "idle")
    /\ Answer(c)
    /\ UNCHANGED <<tokenVars, now, accountVars>>

Login(c) == StartPrivy(c) \/ PrivyLogin(c) \/ OtpLogin(c) \/ IssueTokens(c)

Provision(c) ==
    RegisterCheck(c) \/ CliCreateCheck(c) \/ InsertAccount(c) \/ AddFieldCheck(c) \/ InsertField(c)

Next ==
    \/ \E c \in Clients : Login(c) \/ Provision(c) \/ Crash(c)
    \/ \E c \in Clients, i \in TokenIds : RotateRefresh(c, i)
    \/ \E i \in TokenIds : Logout(i) \/ RefreshLapses(i)
    \/ IssueAnonymous \/ IssueFromCli \/ DeactivateAccount \/ DeactivateField
    \/ Tick

Spec == Init /\ [][Next]_vars

-----------------------------------------------------------------------------
(* Properties. *)

\* A token that was logged out is refused in every second before its exp, however
\* often and whenever logout is called (logout's TTL against decode's exp check).
\* In the second exp names the token still decodes and the entry may be gone.
RevokedStaysRevoked ==
    \A i \in 1..issued : deny[i] # 0 /\ now < tokens[i].exp => ~Usable(i)

\* Refresh tokens are the single-use tokens of SingleUse, concurrent exchanges,
\* lapses and crashes included (rotate_refresh_token's GETDEL).
Promised == INSTANCE SingleUse WITH Tokens <- TokenIds, live <- refresh
SingleUseSpec == Promised!Spec

\* Deactivation wins in the end: once the account is inactive and neither a stored
\* refresh token nor a request under way is elevated, no login, registration or
\* rotation makes one that is (lookup_analyst_account's is_active against the role
\* a rotation carries over).  Only the command line can, which asks no table.
NoneElevated ==
    /\ \A i \in refresh : tokens[i].kind # "elevated"
    /\ \A c \in Clients : req[c].kind # "elevated"

DeactivationDiesOut ==
    [][row = "inactive" /\ NoneElevated /\ ~IssueFromCli => NoneElevated']_vars
=============================================================================
