------------------------------ MODULE ExportJobs ------------------------------
(***************************************************************************)
(* Exports of the analyst dashboard: small ones are answered at once, large *)
(* ones become a job record in Redis and a Celery task that writes a file, *)
(* signs a link to it and updates the record (routes/export.py,            *)
(* export_tasks.py).  The table changes meanwhile, keys lapse, messages    *)
(* come twice, and every call to Redis, the database or the object store   *)
(* may fail.                                                               *)
(*                                                                         *)
(* Lifetimes are counted down by Tick; the day of _JOB_TTL_SECONDS is Life. *)
(***************************************************************************)
EXTENDS ExportContent

CONSTANTS
    Asks,           \* export requests; the job of a request has its name
    NoAsk,
    Slots,          \* messages and tasks at once
    Reports,        \* the reports there may be, each with a different id
    Filters,        \* the filters that are asked for
    Threshold,      \* ASYNC_THRESHOLD (10000 in the code)
    Life,           \* _JOB_TTL_SECONDS
    MaxRetries,     \* max_retries of run_export_job (3 in the code)
    MaxExtra        \* bound on redeliveries

ASSUME ExportAssumption ==
    /\ NoAsk \notin Asks
    /\ Filters \subseteq ExportFilters /\ Filters # {}
    /\ Reports \subseteq ExportRecord
    /\ Threshold \in Nat /\ Life \in Nat \ {0}
    /\ MaxRetries \in Nat /\ MaxExtra \in Nat
    /\ \A r, q \in Reports : r.id = q.id => r.status # q.status \/ r = q

VARIABLES
    table,      \* the reports in the database
    asks,       \* per request: the handler
    record,     \* per job: the record in Redis
    tasks,      \* per slot: a Celery message or task
    file,       \* per job: the object in the store
    audit,      \* committed rows of the audit log: who asked, how many records
    abandoned,  \* history: jobs whose message was not sent or whose task gave up
    extra       \* redeliveries so far

vars == <<table, asks, record, tasks, file, audit, abandoned, extra>>

NoFile   == {[id |-> None]}
NoRecord == [status |-> "none", link |-> 0, ttl |-> 0]
Idle     == [pc |-> "idle", filters |-> CHOOSE f \in Filters : TRUE, content |-> NoFile]
Free     == [pc |-> "free", job |-> NoAsk, tries |-> 0, content |-> NoFile, link |-> 0,
             seen |-> NoRecord]

Message(a, n) == [Free EXCEPT !.pc = "queued", !.job = a, !.tries = n]

Records  == [status : {"none", "processing", "complete", "failed"}, link : 0..Life, ttl : 0..Life]

Contents == (SUBSET ExportRecord) \cup {NoFile}

TypeOK ==
    /\ table \subseteq Reports
    /\ asks \in [Asks -> [pc : {"idle", "small", "large", "written", "recorded", "answered",
                               "accepted", "error"},
                          filters : Filters, content : Contents]]
    /\ record \in [Asks -> Records]
    /\ tasks \in [Slots -> [pc : {"free", "queued", "exported", "uploaded", "update",
                                  "givesup", "fail"},
                            job : Asks \cup {NoAsk}, tries : 0..MaxRetries,
                            content : Contents, link : 0..Life, seen : Records]]
    /\ \A s \in Slots : tasks[s].job = NoAsk <=> tasks[s].pc = "free"
    /\ file \in [Asks -> Contents]
    /\ \A entry \in audit : entry[1] \in Asks
    /\ abandoned \subseteq Asks
    /\ extra \in 0..MaxExtra

Init ==
    /\ table \in SUBSET {r \in Reports : r.status = "pending"}
    /\ asks = [a \in Asks |-> Idle]
    /\ record = [a \in Asks |-> NoRecord]
    /\ tasks = [s \in Slots |-> Free]
    /\ file = [a \in Asks |-> NoFile]
    /\ audit = {} /\ abandoned = {} /\ extra = 0

-----------------------------------------------------------------------------
(* The request. *)

\* _write_audit_log: who exported, and how many records.
AuditRow(a, content) == <<a, Cardinality(content)>>

OnlyAsks == UNCHANGED <<table, record, tasks, file, audit, abandoned, extra>>

\* count_records: the count decides between the two ways, and is not looked at again.
Ask(a, f) ==
    /\ asks[a].pc = "idle"
    /\ asks' = [asks EXCEPT ![a] =
           [pc |-> IF Cardinality(Selected(f, table)) > Threshold THEN "large" ELSE "small",
            filters |-> f, content |-> NoFile]]
    /\ OnlyAsks

\* export_geojson, export_csv, export_shapefile: the records are read and an audit
\* row is flushed.
SyncExport(a) ==
    /\ asks[a].pc = "small"
    /\ asks' = [asks EXCEPT ![a] =
           [pc |-> "written", filters |-> asks[a].filters,
            content |-> Content(asks[a].filters, table)]]
    /\ OnlyAsks

\* The commit, and then the answer.
SyncCommit(a) ==
    /\ asks[a].pc = "written"
    /\ asks' = [asks EXCEPT ![a].pc = "answered"]
    /\ audit' = audit \cup {AuditRow(a, asks[a].content)}
    /\ UNCHANGED <<table, record, tasks, file, abandoned, extra>>

\* No GDAL (501), or the database fails: the session is rolled back.
SyncFails(a) ==
    /\ asks[a].pc \in {"small", "written"}
    /\ asks' = [asks EXCEPT ![a] = [pc |-> "error", filters |-> asks[a].filters, content |-> NoFile]]
    /\ OnlyAsks

\* create_export_job: the record is there before the message.
CreateJob(a) ==
    /\ asks[a].pc = "large"
    /\ asks' = [asks EXCEPT ![a].pc = "recorded"]
    /\ record' = [record EXCEPT ![a] = [status |-> "processing", link |-> 0, ttl |-> Life]]
    /\ UNCHANGED <<table, tasks, file, audit, abandoned, extra>>

Dispatch(a, s) ==
    /\ asks[a].pc = "recorded" /\ tasks[s].pc = "free"
    /\ asks' = [asks EXCEPT ![a].pc = "accepted"]
    /\ tasks' = [tasks EXCEPT ![s] = Message(a, 0)]
    /\ UNCHANGED <<table, record, file, audit, abandoned, extra>>

\* The broker is away, or the process dies: the record stays.
DispatchFails(a) ==
    /\ asks[a].pc = "recorded"
    /\ asks' = [asks EXCEPT ![a].pc = "error"]
    /\ abandoned' = abandoned \cup {a}
    /\ UNCHANGED <<table, record, tasks, file, audit, extra>>

-----------------------------------------------------------------------------
(* The task. *)

At(s, step) == tasks[s].pc = step
Goto(s, step) == tasks' = [tasks EXCEPT ![s].pc = step]
Done(s) == tasks' = [tasks EXCEPT ![s] = Free]

\* Mutant of Export: the session is closed without a commit.
ExportUncommitted(s) ==
    /\ At(s, "queued")
    /\ LET a == tasks[s].job
           c == Content(FiltersFromDict(FiltersToDict(asks[a].filters)), table)
       IN  tasks' = [tasks EXCEPT ![s] =
               [pc |-> "exported", job |-> a, tries |-> tasks[s].tries, content |-> c,
                link |-> 0, seen |-> NoRecord]]
    /\ UNCHANGED <<table, asks, record, file, audit, abandoned, extra>>

\* _run_export_sync: a session of its own, committed at the end.
Export(s) ==
    /\ At(s, "queued")
    /\ LET a == tasks[s].job
           c == Content(FiltersFromDict(FiltersToDict(asks[a].filters)), table)
       IN  /\ tasks' = [tasks EXCEPT ![s] =
                  [pc |-> "exported", job |-> a, tries |-> tasks[s].tries, content |-> c,
                   link |-> 0, seen |-> NoRecord]]
           /\ audit' = audit \cup {AuditRow(a, c)}
    /\ UNCHANGED <<table, asks, record, file, abandoned, extra>>

\* _upload_export_file: put_object under the key of the job, and a signed link.
Upload(s) ==
    /\ At(s, "exported")
    /\ file' = [file EXCEPT ![tasks[s].job] = tasks[s].content]
    /\ tasks' = [tasks EXCEPT ![s] =
           [pc |-> "uploaded", job |-> tasks[s].job, tries |-> tasks[s].tries,
            content |-> NoFile, link |-> Life, seen |-> NoRecord]]
    /\ UNCHANGED <<table, asks, record, audit, abandoned, extra>>

\* _update_job_sync reads the record first; without one there is nothing to do.
ReadRecord(s, from, to) ==
    /\ At(s, from)
    /\ tasks' = [tasks EXCEPT ![s] =
           IF record[tasks[s].job] = NoRecord THEN Free
           ELSE [pc |-> to, job |-> tasks[s].job, tries |-> tasks[s].tries, content |-> NoFile,
                 link |-> tasks[s].link, seen |-> record[tasks[s].job]]]
    /\ UNCHANGED <<table, asks, record, file, audit, abandoned, extra>>

ReadForUpdate(s)  == ReadRecord(s, "uploaded", "update")
ReadForFailure(s) == ReadRecord(s, "givesup", "fail")

\* Mutant of MarkComplete: the record keeps the TTL it had.
MarkCompleteKeepTtl(s) ==
    /\ At(s, "update")
    /\ record' = [record EXCEPT ![tasks[s].job] =
           [status |-> "complete", link |-> tasks[s].link, ttl |-> tasks[s].seen.ttl]]
    /\ Done(s)
    /\ UNCHANGED <<table, asks, file, audit, abandoned, extra>>

\* The whole record is written back, also over a key that has lapsed meanwhile.
MarkComplete(s) ==
    /\ At(s, "update")
    /\ record' = [record EXCEPT ![tasks[s].job] =
           [status |-> "complete", link |-> tasks[s].link, ttl |-> Life]]
    /\ Done(s)
    /\ UNCHANGED <<table, asks, file, audit, abandoned, extra>>

\* What the read saw of the link stays.
MarkFailed(s) ==
    /\ At(s, "fail")
    /\ record' = [record EXCEPT ![tasks[s].job] =
           [status |-> "failed", link |-> tasks[s].seen.link, ttl |-> Life]]
    /\ Done(s)
    /\ UNCHANGED <<table, asks, file, audit, abandoned, extra>>

Working == {"queued", "exported", "uploaded", "update"}

\* Mutant of Retry: the error is logged and the task returns.
RetrySwallowed(s) ==
    /\ tasks[s].pc \in Working /\ tasks[s].tries < MaxRetries
    /\ Done(s)
    /\ UNCHANGED <<table, asks, record, file, audit, abandoned, extra>>

\* Any error of any step.
Retry(s) ==
    /\ tasks[s].pc \in Working /\ tasks[s].tries < MaxRetries
    /\ tasks' = [tasks EXCEPT ![s] = Message(tasks[s].job, tasks[s].tries + 1)]
    /\ UNCHANGED <<table, asks, record, file, audit, abandoned, extra>>

\* The last retry failed: the branch for MaxRetriesExceededError marks the job; with
\* the retry(exc=...) of the pinned Celery the task just ends.
GiveUp(s) ==
    /\ tasks[s].pc \in Working /\ tasks[s].tries = MaxRetries
    /\ abandoned' = abandoned \cup {tasks[s].job}
    /\ Goto(s, "givesup") \/ Done(s)
    /\ UNCHANGED <<table, asks, record, file, audit, extra>>

\* An error on the way to "failed" is not retried.
FailureUnmarked(s) ==
    /\ tasks[s].pc \in {"givesup", "fail"}
    /\ Done(s)
    /\ UNCHANGED <<table, asks, record, file, audit, abandoned, extra>>

\* acks_late: the message of a task that was running comes again, also while the
\* first worker still runs it.
Redeliver(s, t) ==
    /\ tasks[s].pc \in Working \ {"queued"} /\ tasks[t].pc = "free" /\ extra < MaxExtra
    /\ tasks' = [tasks EXCEPT ![t] = Message(tasks[s].job, tasks[s].tries)]
    /\ extra' = extra + 1
    /\ UNCHANGED <<table, asks, record, file, audit, abandoned>>

-----------------------------------------------------------------------------
(* The rest of the world. *)

\* A report comes in, or an analyst verifies one.
TableChanges(r) ==
    /\ r \in Reports \ table
    /\ r.status = "verified" => \E q \in table : q.id = r.id
    /\ r.status = "pending" => \A q \in table : q.id # r.id
    /\ table' = {q \in table : q.id # r.id} \cup {r}
    /\ UNCHANGED <<asks, record, tasks, file, audit, abandoned, extra>>

Less(n) == IF n = 0 THEN 0 ELSE n - 1

Tick ==
    /\ \E a \in Asks : record[a].ttl > 0
    /\ record' = [a \in Asks |->
           IF record[a].ttl <= 1 THEN NoRecord
           ELSE [status |-> record[a].status, link |-> Less(record[a].link), ttl |-> record[a].ttl - 1]]
    /\ tasks' = [s \in Slots |->
           [tasks[s] EXCEPT !.link = Less(tasks[s].link), !.seen.link = Less(tasks[s].seen.link)]]
    /\ UNCHANGED <<table, asks, file, audit, abandoned, extra>>

Task(s) ==
    \/ Export(s) \/ Upload(s) \/ ReadForUpdate(s) \/ ReadForFailure(s)
    \/ MarkComplete(s) \/ MarkFailed(s) \/ Retry(s) \/ GiveUp(s) \/ FailureUnmarked(s)

Next ==
    \/ \E a \in Asks :
        \/ \E f \in Filters : Ask(a, f)
        \/ CreateJob(a) \/ SyncExport(a) \/ SyncCommit(a) \/ SyncFails(a) \/ DispatchFails(a)
        \/ \E s \in Slots : Dispatch(a, s)
    \/ \E s \in Slots : Task(s) \/ \E t \in Slots : Redeliver(s, t)
    \/ \E r \in Reports : TableChanges(r)
    \/ Tick

Spec == Init /\ [][Next]_vars

-----------------------------------------------------------------------------
(* Properties. *)

\* What was handed out for a request: in its answer, or, asked for with
\* get_export_job, behind a link that works.
HandedOut(a) ==
    {c \in {asks[a].content} : asks[a].pc = "answered"}
    \cup {c \in {file[a]} : record[a].link > 0}

\* Whatever leaves the service has a committed audit row of that request with the
\* number of its records, also after a second run has replaced the file
\* (the commit comes before the answer, and before the upload).
DeliveredIsAudited ==
    \A a \in Asks : \A c \in HandedOut(a) : c # NoFile /\ AuditRow(a, c) \in audit

\* What is handed out is what was asked for, at once or through the task, whose
\* filters travel as a dict: no record the filters exclude, and for coarse locations
\* coordinates on the grid only and no accuracy.
AsAsked ==
    \A a \in Asks : \A c \in HandedOut(a) : \A rec \in c :
        LET f == asks[a].filters
        IN  /\ f.status # {} => rec.status \in f.status
            /\ f.confidence # None => rec.confidence # None /\ rec.confidence >= f.confidence
            /\ f.missingOnly => rec.missing
            /\ f.precision # "exact" =>
                   /\ rec.accuracy = None
                   /\ rec.lat = None \/ rec.lat % Grain[f.precision] = 0

\* "Download URLs are valid for 24 hours": as long as a link works the record that
\* holds it is there to be asked for.
RecordOutlivesLink ==
    \A a \in Asks : record[a].ttl >= record[a].link

\* A record says "processing" with no one at work on it only if its message was never
\* sent or its task ran out of retries; then it says so until it lapses.
ProcessingIsWorkedOn ==
    \A a \in Asks : record[a].status = "processing" =>
        \/ asks[a].pc = "recorded"
        \/ \E s \in Slots : tasks[s].job = a
        \/ a \in abandoned
=============================================================================
