------------------------------ MODULE CachedReads ------------------------------
(***************************************************************************)
(* The public read endpoints in front of the report table: the summary     *)
(* counters and the heatmap (analyst_service.get_stats_summary,            *)
(* get_heatmap) and the nearby reports of the duplicate check              *)
(* (submission_service.get_nearby_reports).  Each looks in Redis, else     *)
(* queries the table and stores the answer with a time to live.  Nothing   *)
(* invalidates an entry: the GIS worker deletes other keys                 *)
(* (gis_tasks._invalidate_gis_caches).                                     *)
(*                                                                         *)
(* Requests interleave with each other and with writes to the table, a     *)
(* statement at a time.  Places lie on a line, in tenths of a metre.       *)
(***************************************************************************)
EXTENDS Integers, Sequences, FiniteSets

CONSTANTS
    Readers,    \* requests at once
    Views,      \* endpoints: a subset of "summary", "heatmap", "nearby"
    Questions,  \* what nearby is asked: points and radii
    Place,      \* where the reports are: report number -> place
    Limit,      \* rows nearby takes (50 in the code)
    Ttl,        \* ticks an entry lives (60 s, or 30 s for nearby)
    MaxChanges  \* bound on the writes to the table

ASSUME CachedReadsAssumption ==
    /\ Views \subseteq {"summary", "heatmap", "nearby"}
    /\ Questions \subseteq [point : Nat, radius : Nat] /\ Place \in Seq(Nat)
    /\ Ttl \in Nat \ {0} /\ Limit \in Nat /\ MaxChanges \in Nat

VARIABLES
    view,     \* the endpoint that is asked; never changes
    reports,  \* the table, by what the endpoints look at
    cache,    \* Redis: key -> [answer, age, torn]
    readers,  \* per request: the handler
    changes,  \* writes so far
    quiet     \* history: ticks since the last write, up to Ttl

vars == <<view, reports, cache, readers, changes, quiet>>

Ids == DOMAIN Place   \* numbered in the order of their submission
Absent == "absent"
Severities == {"minimal", "destroyed"}
Statuses == {"pending", "verified", "rejected", "pending_merge_review"}
Rows == [status : Statuses \cup {Absent}, severity : Severities]

Present == {r \in Ids : reports[r].status # Absent}

-----------------------------------------------------------------------------
(* The queries. *)

NotRejected == {r \in Present : reports[r].status # "rejected"}

\* Mutant of BySeverity: the rejected ones count as well.
BySeverityAll(s) == {r \in Present : reports[r].severity = s}

BySeverity(s) == {r \in NotRejected : reports[r].severity = s}

Distance(p, r) == IF Place[r] > p THEN Place[r] - p ELSE p - Place[r]

\* The newest Limit of the pending and verified reports in the box, then the radius.
Near(ask) ==
    LET radius == IF ask.radius > 1000 THEN 1000 ELSE ask.radius
        box == {r \in Present : reports[r].status \in {"pending", "verified"}
                                /\ Distance(ask.point, r) <= radius}
    IN  {r \in box : Cardinality({n \in box : n > r}) < Limit}

\* The statements of an endpoint, in order, and what each returns.
Statements == CASE view = "summary" -> <<"total", "severities", "pending">>
                [] view = "heatmap" -> <<"points">>
                [] view = "nearby"  -> <<"near">>

Result(statement, ask) ==
    CASE statement = "total"      -> Cardinality(NotRejected)
      [] statement = "severities" -> [s \in Severities |-> Cardinality(BySeverity(s))]
      [] statement = "pending"    ->
             Cardinality({r \in Present : reports[r].status = "pending_merge_review"})
      [] statement = "points"     -> {<<r, reports[r].severity>> : r \in NotRejected}
      [] statement = "near"       -> Near(ask)

-----------------------------------------------------------------------------
(* Asking. *)

Asks == IF view = "nearby" THEN Questions ELSE {[point |-> 0, radius |-> 0]}

\* Mutant of Key: the radius is left out.
KeyOfCell(ask) == IF view = "nearby" THEN <<(ask.point + 55) \div 111>> ELSE <<>>

\* The cell of four decimals (11.1 m) and the radius clamped, in whole metres.
Key(ask) ==
    IF view # "nearby" THEN <<>>
    ELSE <<(ask.point + 55) \div 111, (IF ask.radius > 1000 THEN 1000 ELSE ask.radius) \div 10>>

Free == [pc |-> "free"]

TypeOK ==
    /\ view \in Views
    /\ reports \in [Ids -> Rows]
    /\ DOMAIN cache \subseteq {Key(ask) : ask \in Asks}
    /\ \A k \in DOMAIN cache :
           /\ DOMAIN cache[k].answer = 1..Len(Statements)
           /\ cache[k].age \in 0..(Ttl - 1) /\ cache[k].torn \in BOOLEAN
    /\ DOMAIN readers = Readers
    /\ \A q \in Readers :
           \/ readers[q] = Free
           \/ /\ readers[q].pc \in {"reading", "done"} /\ readers[q].ask \in Asks
              /\ Len(readers[q].answer) <= Len(Statements) /\ readers[q].torn \in BOOLEAN
    /\ changes \in 0..MaxChanges /\ quiet \in 0..Ttl

Init ==
    /\ view \in Views
    /\ reports = [r \in Ids |-> [status |-> Absent, severity |-> "minimal"]]
    /\ cache = <<>>
    /\ readers = [q \in Readers |-> Free]
    /\ changes = 0 /\ quiet = Ttl

\* A hit is the answer; a miss is queried.
Ask(q, ask) ==
    /\ readers[q] = Free
    /\ readers' = [readers EXCEPT ![q] =
           IF Key(ask) \in DOMAIN cache
           THEN [pc |-> "done", ask |-> ask, answer |-> cache[Key(ask)].answer,
                 torn |-> cache[Key(ask)].torn]
           ELSE [pc |-> "reading", ask |-> ask, answer |-> <<>>, torn |-> FALSE]]
    /\ UNCHANGED <<view, reports, cache, changes, quiet>>

Read(q) ==
    /\ readers[q].pc = "reading" /\ Len(readers[q].answer) < Len(Statements)
    /\ readers' = [readers EXCEPT ![q].answer =
           Append(@, Result(Statements[Len(@) + 1], readers[q].ask))]
    /\ UNCHANGED <<view, reports, cache, changes, quiet>>

\* SET with an expiry, over whatever another request stored meanwhile.
Store(q) ==
    /\ readers[q].pc = "reading" /\ Len(readers[q].answer) = Len(Statements)
    /\ cache' = [k \in DOMAIN cache \cup {Key(readers[q].ask)} |->
           IF k = Key(readers[q].ask)
           THEN [answer |-> readers[q].answer, age |-> 0, torn |-> readers[q].torn]
           ELSE cache[k]]
    /\ readers' = [readers EXCEPT ![q].pc = "done"]
    /\ UNCHANGED <<view, reports, changes, quiet>>

Respond(q) ==
    /\ readers[q].pc = "done"
    /\ readers' = [readers EXCEPT ![q] = Free]
    /\ UNCHANGED <<view, reports, cache, changes, quiet>>

-----------------------------------------------------------------------------
(* The table and time. *)

\* A submission, a decision, an override: whatever commits a row.  An answer that has
\* begun to be read is torn from then on.
Write(r, row) ==
    /\ changes < MaxChanges /\ changes' = changes + 1
    /\ row.status # Absent /\ row # reports[r]
    /\ reports[r].status = Absent =>
           /\ row.status = "pending"
           /\ \A earlier \in Ids : earlier < r => reports[earlier].status # Absent
    /\ reports' = [reports EXCEPT ![r] = row]
    /\ quiet' = 0
    /\ readers' = [q \in Readers |->
           IF readers[q].pc = "reading" /\ readers[q].answer # <<>>
           THEN [readers[q] EXCEPT !.torn = TRUE] ELSE readers[q]]
    /\ UNCHANGED <<view, cache>>

\* Mutant of Kept: an entry without an expiry.
KeptForever(k) == TRUE
Kept(k) == cache[k].age + 1 < Ttl

Tick ==
    /\ cache' = [k \in {k \in DOMAIN cache : Kept(k)} |->
           [cache[k] EXCEPT !.age = @ + 1]]
    /\ quiet' = IF quiet < Ttl THEN quiet + 1 ELSE quiet
    /\ UNCHANGED <<view, reports, readers, changes>>

Next ==
    \/ \E q \in Readers : (\E ask \in Asks : Ask(q, ask)) \/ Read(q) \/ Store(q) \/ Respond(q)
    \/ \E r \in Ids, row \in Rows : Write(r, row)
    \/ Tick

Spec == Init /\ [][Next]_vars

-----------------------------------------------------------------------------
(* Properties. *)

Answered == {q \in Readers : readers[q].pc = "done"}

\* "Cached 60 s", though nobody invalidates: when the table has been quiet for a time
\* to live, every entry left was read from the table as it is, unless a slow request
\* stored a torn or late answer meanwhile.
StaleAtMostTtl ==
    quiet = Ttl => \A k \in DOMAIN cache :
        cache[k].torn \/ \E ask \in Asks :
            Key(ask) = k /\ cache[k].answer = [i \in 1..Len(Statements) |-> Result(Statements[i], ask)]

\* The summary's total is the sum of its severities and covers the merge backlog,
\* although they are separate statements, unless a write came between them.
CountsAddUp ==
    view = "summary" => \A q \in Answered : readers[q].torn \/
        LET answer == readers[q].answer
        IN  /\ answer[1] = answer[2]["minimal"] + answer[2]["destroyed"]
            /\ answer[3] <= answer[1]

\* Whoever asks for nearby reports gets none farther than the radius asked for and the
\* width of a cell (plus a metre of rounding), even from an entry another reporter's
\* question left.  (Places are on a line; on the map it would be a cell's diagonal.)
NearbyIsNear ==
    view = "nearby" => \A q \in Answered : \A r \in readers[q].answer[1] :
        Distance(readers[q].ask.point, r) <= readers[q].ask.radius + 9 + 110
=============================================================================
