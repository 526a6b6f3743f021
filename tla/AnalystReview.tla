---------------------------- MODULE AnalystReview ----------------------------
(***************************************************************************)
(* Analysts and workers that change reports of one building at the same    *)
(* time. Each request or task is a database transaction of its own: it     *)
(* reads rows, decides, and writes later; nothing is read FOR UPDATE.      *)
(*                                                                         *)
(*   app/services/analyst_service.py    Transition, Merge, ConfirmMerge,   *)
(*                                      RejectMerge, Flush, Recomputed     *)
(*   app/workers/duplicate_tasks.py     Score                              *)
(*   app/workers/gis_tasks.py, app/services/gis_service.py   Link          *)
(*                                                                         *)
(* PostgreSQL runs at READ COMMITTED. A statement sees what is committed   *)
(* and the transaction's own writes, and an updated row stays locked until *)
(* the commit.                                                             *)
(***************************************************************************)
EXTENDS Integers, FiniteSetsExt

CONSTANTS
    Reports,      \* report ids
    NoReport,     \* NULL in a column that holds a report id
    Sessions,     \* database sessions
    Worlds        \* bound: the worlds TLC looks at, see World

\* A world bounds the transactions that can be open at the same time and the trust
\* scale, and says with what tiers, damages and photos reports come in. The code's
\* scale is 0..2.
World == [open : Nat, top : 0..2, tiers : SUBSET (0..2), damages : SUBSET (1..3),
          photos : SUBSET BOOLEAN]

ASSUME ReviewAssumption ==
    /\ NoReport \notin Reports /\ IsFiniteSet(Reports) /\ IsFiniteSet(Sessions)
    /\ Worlds \subseteq World
    /\ \A w \in Worlds : w.tiers \subseteq 0..w.top

VARIABLES
    world,     \* the world of this behaviour, never changed
    row,       \* the rows of table report
    severity,  \* building.current_severity
    txn,       \* what each session is going to write
    solo,      \* history: the open transaction that no other has overlapped
    first      \* history: the tier each reporter came with

vars == <<world, row, severity, txn, solo, first>>

Status == {"pending", "pending_merge_review", "verified", "rejected", "duplicate"}
Ids    == Reports \cup {NoReport}

\* damage is what the reporter saw: 1 minimal, 2 partial, 3 destroyed. photo is the
\* report whose upload photo_url names, linked that building_id is the building.
Column == [status |-> Status, dupOf |-> Ids, possible |-> Ids, tier |-> 0..world.top,
           damage |-> 1..3, photo |-> Ids, linked |-> BOOLEAN]

Row == [status : Status, dupOf : Ids, possible : Ids, tier : 0..world.top,
        damage : 1..3, photo : Ids, linked : BOOLEAN]

\* A transaction is the UPDATEs it is going to send: for each report, the columns to
\* change and their new values. pc: "loaded" flushes and commits at once,
\* "recompute" flushes first, "flushed" has the building still to write.
Nothing == [r \in Reports |-> <<>>]
Idle    == [pc |-> "idle", sets |-> Nothing, was |-> 0, worst |-> 0]

Init ==
    /\ world \in Worlds
    /\ row \in [Reports -> [status : {"pending"}, dupOf : {NoReport},
                            possible : {NoReport}, tier : world.tiers,
                            damage : world.damages, photo : Ids, linked : {FALSE}]]
    /\ \A r \in Reports : \E withPhoto \in world.photos :
            row[r].photo = IF withPhoto THEN r ELSE NoReport
    /\ severity = 0
    /\ txn = [s \in Sessions |-> Idle]
    /\ solo = {}
    /\ first = [r \in Reports |-> row[r].tier]

-----------------------------------------------------------------------------
(* Transactions.                                                           *)

Open == {s \in Sessions : txn[s].pc # "idle"}

\* A transaction begins. It is alone if no other is open, and the others no longer are.
Begin(s, t) ==
    /\ txn[s].pc = "idle" /\ Cardinality(Open) < world.open
    /\ txn' = [txn EXCEPT ![s] = t]
    /\ solo' = IF Open = {} THEN {s} ELSE {}
    /\ UNCHANGED <<world, row, severity, first>>

End(s) ==
    /\ txn' = [txn EXCEPT ![s] = Idle]
    /\ solo' = solo \ {s}
    /\ UNCHANGED <<world, first>>

\* A handler loads a report and leaves it as want: the columns that differ are what
\* the flush will send.
Changes(r, want) ==
    LET diff == {c \in DOMAIN want : want[c] # row[r][c]} IN [c \in diff |-> want[c]]

Load(s, pc, sets) == Begin(s, [pc |-> pc, sets |-> sets, was |-> 0, worst |-> 0])

Touches(s) == {r \in Reports : DOMAIN txn[s].sets[r] # {}}

\* No row that s is going to update is locked by another transaction.
CanWrite(s) ==
    \A o \in Sessions \ {s} :
        txn[o].pc = "flushed" => Touches(s) \cap Touches(o) = {}

\* The rows after the UPDATEs: columns that are not named keep what is there.
Updated(sets) ==
    [r \in Reports |->
        [c \in DOMAIN Column |->
            IF c \in DOMAIN sets[r] THEN sets[r][c] ELSE row[r][c]]]

\* Mutant of Counts: rejected reports count too.
CountsAnyLinked(rw) == rw.linked

\* Worst damage among the linked reports that are not rejected, 0 for none.
Counts(rw) == rw.linked /\ rw.status # "rejected"

Worst(rows) == Max({rows[r].damage : r \in {q \in Reports : Counts(rows[q])}} \cup {0})

-----------------------------------------------------------------------------
(* What the handlers load and decide.                                      *)

\* Mutant of Sources: any status may be set again, as before audit M-3.
SourcesRepeatable(st) == {"pending", "verified", "rejected"}

\* _VALID_STATUS_TRANSITIONS, the row of a target status.
Sources(st) ==
    CASE st = "verified"  -> {"pending", "rejected"}
      [] st = "rejected"  -> {"pending", "verified"}
      [] st = "duplicate" -> {"pending"}

TierAfter(tier, st) ==
    CASE st = "verified"  -> IF tier = world.top THEN tier ELSE tier + 1
      [] st = "rejected"  -> IF tier = 0 THEN 0 ELSE tier - 1
      [] st = "duplicate" -> tier

\* A report that is linked to a building has the building's severity recomputed.
Transition(s, r, st) ==
    LET want == [row[r] EXCEPT !.status = st, !.tier = TierAfter(@, st)] IN
    /\ row[r].status \in Sources(st)
    /\ Load(s, IF row[r].linked THEN "recompute" ELSE "loaded",
            [Nothing EXCEPT ![r] = Changes(r, want)])

\* r becomes a duplicate of primary, which gets its photo if it has none.
MergedInto(r, primary, want) ==
    LET passesOn == row[r].photo # NoReport /\ row[primary].photo = NoReport IN
    [q \in Reports |->
        IF q = r THEN Changes(r, [want EXCEPT !.status = "duplicate", !.dupOf = primary])
        ELSE IF q = primary /\ passesOn THEN [photo |-> row[r].photo] ELSE <<>>]

\* Manual merge of one report: neither status is looked at.
Merge(s, r, primary) == Load(s, "loaded", MergedInto(r, primary, row[r]))

ConfirmMerge(s, r) ==
    LET primary == row[r].possible IN
    /\ row[r].status = "pending_merge_review" /\ primary # NoReport
    /\ Load(s, "loaded",
            MergedInto(r, primary, [row[r] EXCEPT !.possible = NoReport]))

RejectMerge(s, r) ==
    LET want == [row[r] EXCEPT !.status = "pending", !.possible = NoReport] IN
    /\ row[r].status = "pending_merge_review"
    /\ Load(s, "loaded", [Nothing EXCEPT ![r] = Changes(r, want)])

\* Mutant of Candidates: the report is not excluded from its own candidates.
CandidatesWithSelf(r) == {c \in Reports : row[c].status # "duplicate"}

\* Scoring looks at a pending report, and at any others but duplicates.
Candidates(r) == {c \in Reports \ {r} : row[c].status # "duplicate"}

\* A score of 0.9 holds the report for review, one of 0.6 flags it; an independent
\* report keeps its row. The raw UPDATE does not look at the status again.
Score(s, r, primary, merge) ==
    /\ row[r].status = "pending"
    /\ primary \in Candidates(r)
    /\ Load(s, "loaded",
            [Nothing EXCEPT ![r] =
                IF merge THEN [possible |-> primary, status |-> "pending_merge_review"]
                         ELSE [possible |-> primary]])

-----------------------------------------------------------------------------
(* What they write.                                                        *)

\* flush and commit, with no read in between.
Write(s) ==
    /\ txn[s].pc = "loaded" /\ CanWrite(s)
    /\ row' = Updated(txn[s].sets)
    /\ End(s)
    /\ UNCHANGED severity

\* Mutant of Recomputed: no flush before the reports are read.
RecomputedBeforeFlush(sets) == Worst(row)

\* _recompute_building_severity reads after the flush, so it sees the new status.
Recomputed(sets) == Worst(Updated(sets))

\* A transition of a linked report flushes, then reads the building and its reports.
Flush(s) ==
    /\ txn[s].pc = "recompute" /\ CanWrite(s)
    /\ txn' = [txn EXCEPT ![s] = [pc |-> "flushed", sets |-> txn[s].sets,
                                  was |-> severity, worst |-> Recomputed(txn[s].sets)]]
    /\ UNCHANGED <<world, row, severity, solo, first>>

\* The GIS worker links the report and recomputes in SQL. It always writes the
\* building, which the -1 stands for.
Link(s, r) ==
    LET sets == [Nothing EXCEPT ![r] = [linked |-> TRUE]] IN
    /\ \A o \in Sessions \ {s} : txn[o].pc = "flushed" => r \notin Touches(o)
    /\ Begin(s, [pc |-> "flushed", sets |-> sets, was |-> -1,
                 worst |-> Recomputed(sets)])

\* The building is written if its severity changed since it was read.
Commit(s) ==
    LET t == txn[s] IN
    /\ t.pc = "flushed"
    /\ row' = Updated(t.sets)
    /\ severity' = IF t.worst # t.was THEN t.worst ELSE severity
    /\ End(s)

Next ==
    \E s \in Sessions :
        \/ \E r \in Reports :
            \/ \E st \in {"verified", "rejected", "duplicate"} : Transition(s, r, st)
            \/ \E primary \in Reports : Merge(s, r, primary)
            \/ ConfirmMerge(s, r) \/ RejectMerge(s, r) \/ Link(s, r)
            \/ \E primary \in Reports, merge \in BOOLEAN : Score(s, r, primary, merge)
        \/ Write(s) \/ Flush(s) \/ Commit(s)

Spec == Init /\ [][Next]_vars

-----------------------------------------------------------------------------
(* Properties.                                                             *)

TypeOK ==
    /\ world \in Worlds
    /\ row \in [Reports -> Row]
    /\ severity \in 0..3
    /\ \A s \in Sessions :
        /\ txn[s].pc \in {"idle", "loaded", "recompute", "flushed"}
        /\ txn[s].was \in -1..3 /\ txn[s].worst \in 0..3
        /\ \A r \in Reports, c \in DOMAIN Column :
            c \in DOMAIN txn[s].sets[r] => txn[s].sets[r][c] \in Column[c]
    /\ solo \subseteq Sessions
    /\ first \in [Reports -> 0..2]

\* A report held for review always names another report as its primary, whatever
\* races with the scoring worker and the reviews: without one confirm-merge
\* answers 422 for good (analyst_service.py:1031).
ReviewHasPrimary ==
    \A r \in Reports :
        row[r].status = "pending_merge_review" => row[r].possible \in Reports \ {r}

\* A transition or a building match that no other transaction overlapped leaves the
\* building at the worst damage of its reports that are not rejected: severity goes
\* down after a rejection and up again after it is undone (analyst_service.py:677).
SoloRecompute ==
    [][\A s \in Sessions :
          txn[s].pc = "flushed" /\ txn'[s].pc = "idle" /\ s \in solo
          => severity' = Worst(row')]_vars

\* One transaction at a time. The two properties below are false without it: of two
\* overlapping transactions the later one writes what the earlier one made stale.
Serial == world.open = 1

\* A building all of whose reports are rejected is back at none once the
\* transactions are over: a false "destroyed" does not pin it
\* (analyst_service.py:680-685).
RejectedDoNotPin ==
    /\ Serial /\ Open = {}
    /\ \A r \in Reports : row[r].linked => row[r].status = "rejected"
    => severity = 0

\* Whatever is decided about a report, and decided again, its tier stays within one
\* of what the reporter came with: repeated decisions do not walk it to either end
\* of the scale (analyst_service.py:132-134).
TierMovesAtMostOne ==
    Serial => \A r \in Reports : row[r].tier \in (first[r] - 1)..(first[r] + 1)

=============================================================================
