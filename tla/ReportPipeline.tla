---------------------------- MODULE ReportPipeline ----------------------------
(***************************************************************************)
(* The processing pipeline of one report: the request that stores it, the  *)
(* GIS, AI and duplicate-scoring workers, the Redis gate that decides when *)
(* scoring is dispatched, and the reconciliation sweep.                    *)
(*                                                                         *)
(*   app/api/v1/routes/reports.py          SubmitReport, UploadPhoto, Seed, *)
(*                                         Publish                         *)
(*   app/workers/duplicate_dispatch.py     MarkDecr, MarkDelete, MarkSend  *)
(*   app/workers/gis_tasks.py, ai_tasks.py, duplicate_tasks.py             *)
(*   app/workers/reconciliation_tasks.py   SweepSelect                     *)
(*                                                                         *)
(* A gate whose key is missing is the number 0: DECR treats a missing key  *)
(* as 0, and DELETE and expiry take the key back to that.                  *)
(***************************************************************************)
EXTENDS Integers, FiniteSets

CONSTANTS
    Reports,     \* report ids
    NoReport,    \* the report field of a task slot that holds no task
    Slots,       \* bound: places for messages and running tasks
    MaxPhotos,   \* bound: photos uploaded for one report
    MaxRetries,  \* max_retries of the Celery tasks
    MaxFaults,   \* bound: crashes, losses, failures and expiries
    OldestAge,   \* bound: the oldest a report gets, "new", "graced" or "old"
    VisionMayFail, \* TRUE: the vision provider may refuse any photo
    RetryRaises  \* what Task.retry(exc=exc) raises once retries are used up

\* created_at within the sweep's grace period, in its window, past its maximum age.
Ages == {"new", "graced", "old"}

ASSUME PipelineAssumption ==
    /\ NoReport \notin Reports
    /\ IsFiniteSet(Slots) /\ MaxPhotos \in Nat
    /\ MaxRetries \in Nat /\ MaxFaults \in Nat
    /\ OldestAge \in Ages /\ VisionMayFail \in BOOLEAN
    /\ RetryRaises \in {"exc", "MaxRetriesExceededError"}

VARIABLES
    row,     \* the row of table report, and its duplicate-scoring audit row
    gate,    \* crisismap:report:{id}:pending_dup_steps in Redis
    drive,   \* what the request handler and the sweep still have to dispatch
    age,     \* created_at against the sweep's grace period and maximum age
    tasks,   \* Celery messages and the tasks that run them
    unseen,  \* history: GIS or AI columns written since scoring last read them
    lossy,   \* history: a counted step or a scoring job lost since the last seed
    faults   \* history: faults so far, bounded by MaxFaults

vars == <<row, gate, drive, age, tasks, unseen, lossy, faults>>

Steps   == {"gis", "ai"}
Drivers == {"api", "sweep"}

Status      == {"absent", "pending", "pending_merge_review", "actioned"}
PhotoStatus == {"pending", "processing", "assessed", "ai_processing_failed"}

\* photo and phash number the uploads: 0 is NULL, n the n-th photo.
Row == [status : Status, photo : 0..MaxPhotos, phash : 0..MaxPhotos,
        photoStatus : PhotoStatus, matched : BOOLEAN, scored : BOOLEAN]

\* The pc of a task: waiting in its queue, between two commits of its body,
\* or inside mark_step_done_and_maybe_dispatch (stepdone, delete, send).
Pc == {"free", "queued", "committed", "loaded", "hashed", "stepdone", "delete", "send"}

Task == [kind : {"none", "gis", "ai", "score"}, report : Reports \cup {NoReport},
         pc : Pc, tries : 0..MaxRetries, photo : 0..MaxPhotos]

NoTask == [kind |-> "none", report |-> NoReport, pc |-> "free",
           tries |-> 0, photo |-> 0]

Message(k, r, tries) == [kind |-> k, report |-> r, pc |-> "queued",
                         tries |-> tries, photo |-> 0]

NewTask(k, r) == Message(k, r, 0)

Drive == [pc : {"idle", "seed", "publish"}, steps : SUBSET (Steps \cup {"score"})]
Idle  == [pc |-> "idle", steps |-> {}]

Init ==
    /\ row = [r \in Reports |->
                [status |-> "absent", photo |-> 0, phash |-> 0,
                 photoStatus |-> "pending", matched |-> FALSE, scored |-> FALSE]]
    /\ gate = [r \in Reports |-> 0]
    /\ drive = [d \in Drivers |-> [r \in Reports |-> Idle]]
    /\ age = [r \in Reports |-> "new"]
    /\ tasks = [t \in Slots |-> NoTask]
    /\ unseen = [r \in Reports |-> FALSE]
    /\ lossy = [r \in Reports |-> FALSE]
    /\ faults = 0

-----------------------------------------------------------------------------
(* Sending and acknowledging messages.                                     *)

IsFree(t) == tasks[t].pc = "free"

Fault == faults < MaxFaults /\ faults' = faults + 1

Stored(r) == row[r].status # "absent"

Goto(t, pc) == tasks' = [tasks EXCEPT ![t].pc = pc]

\* The message of t in its queue again: the next worker starts from the top.
Requeued(t, tries) == Message(tasks[t].kind, tasks[t].report, tries)

Requeue(t) == tasks' = [tasks EXCEPT ![t] = Requeued(t, tasks[t].tries)]

\* acks_late: a message is acknowledged after the task body has returned. A
\* crash in between gives it to another worker.
AckOrRedeliver(t) ==
    \/ tasks' = [tasks EXCEPT ![t] = NoTask] /\ UNCHANGED faults
    \/ Requeue(t) /\ Fault

-----------------------------------------------------------------------------
(* The reporter's requests.                                                *)

\* POST /reports up to its commit. The report is stored before any job is
\* dispatched.
SubmitReport(r, withPhoto) ==
    /\ ~Stored(r) /\ drive["api"][r] = Idle
    /\ withPhoto => MaxPhotos > 0
    /\ row' = [row EXCEPT ![r] =
                    [status |-> "pending", photo |-> IF withPhoto THEN 1 ELSE 0,
                     photoStatus |-> IF withPhoto THEN "processing" ELSE "pending",
                     phash |-> 0, matched |-> FALSE, scored |-> FALSE]]
    /\ drive' = [drive EXCEPT !["api"][r] =
                    [pc |-> "seed",
                     steps |-> IF withPhoto THEN {"gis", "ai"} ELSE {"gis"}]]
    /\ UNCHANGED <<gate, age, tasks, unseen, lossy, faults>>

\* PATCH /reports/{id}/photo up to its commit. The status is not looked at.
UploadPhoto(r) ==
    /\ Stored(r) /\ drive["api"][r] = Idle
    /\ row[r].photo < MaxPhotos
    /\ row' = [row EXCEPT ![r].photo = @ + 1, ![r].photoStatus = "processing"]
    /\ drive' = [drive EXCEPT !["api"][r] = [pc |-> "seed", steps |-> {"ai"}]]
    /\ UNCHANGED <<gate, age, tasks, unseen, lossy, faults>>

\* Mutant of SeedValue: always GIS and AI, as a report with a photo has them.
SeedTwo(steps) == 2

SeedValue(steps) == Cardinality(steps)

\* SET the gate to the number of steps about to be published.
Seed(d, r) ==
    /\ drive[d][r].pc = "seed"
    /\ gate' = [gate EXCEPT ![r] = SeedValue(drive[d][r].steps)]
    /\ drive' = [drive EXCEPT ![d][r].pc = "publish"]
    /\ lossy' = [lossy EXCEPT ![r] = FALSE]
    /\ UNCHANGED <<row, age, tasks, unseen, faults>>

\* The SET raises, or the process dies before it: nothing is dispatched.
SeedFails(d, r) ==
    /\ drive[d][r].pc = "seed"
    /\ Fault
    /\ drive' = [drive EXCEPT ![d][r] = Idle]
    /\ UNCHANGED <<row, gate, age, tasks, unseen, lossy>>

\* The GIS job goes first. A scoring job is only ever published alone.
NextStep(steps) ==
    IF "gis" \in steps THEN "gis" ELSE IF "ai" \in steps THEN "ai" ELSE "score"

After(k, steps) == IF steps = {k} THEN Idle
                   ELSE [pc |-> "publish", steps |-> steps \ {k}]

Publish(d, r) ==
    LET k == NextStep(drive[d][r].steps) IN
    /\ drive[d][r].pc = "publish"
    /\ \E t \in Slots : IsFree(t) /\ tasks' = [tasks EXCEPT ![t] = NewTask(k, r)]
    /\ drive' = [drive EXCEPT ![d][r] = After(k, @.steps)]
    /\ UNCHANGED <<row, gate, age, unseen, lossy, faults>>

\* A publish that raises is logged and swallowed by the request handler, which
\* goes on with the next job.
PublishSwallowed(r) ==
    LET k == NextStep(drive["api"][r].steps) IN
    /\ drive["api"][r].pc = "publish"
    /\ Fault
    /\ drive' = [drive EXCEPT !["api"][r] = After(k, @.steps)]
    /\ lossy' = [lossy EXCEPT ![r] = TRUE]
    /\ UNCHANGED <<row, gate, age, tasks, unseen>>

\* The handler's process, or the sweep, ends between two publishes.
DriverDies(d, r) ==
    /\ drive[d][r].pc = "publish"
    /\ Fault
    /\ drive' = [drive EXCEPT ![d][r] = Idle]
    /\ lossy' = [lossy EXCEPT ![r] = TRUE]
    /\ UNCHANGED <<row, gate, age, tasks, unseen>>

-----------------------------------------------------------------------------
(* mark_step_done_and_maybe_dispatch: DECR, then DELETE and send_task, each *)
(* a command of its own.                                                   *)

\* Mutant of Complete: a gate that was reseeded below zero is missed.
CompleteAtZero(remaining) == remaining = 0

Complete(remaining) == remaining <= 0

MarkDecr(t) ==
    LET r == tasks[t].report
        remaining == gate[r] - 1
    IN
    /\ tasks[t].pc = "stepdone"
    /\ gate' = [gate EXCEPT ![r] = remaining]
    /\ IF Complete(remaining)
         THEN Goto(t, "delete") /\ UNCHANGED faults
         ELSE AckOrRedeliver(t)
    /\ UNCHANGED <<row, drive, age, unseen, lossy>>

MarkDelete(t) ==
    /\ tasks[t].pc = "delete"
    /\ gate' = [gate EXCEPT ![tasks[t].report] = 0]
    /\ Goto(t, "send")
    /\ UNCHANGED <<row, drive, age, unseen, lossy, faults>>

\* send_task, then the acknowledgement of the step's own message: the scoring
\* job takes its slot, or, when the worker dies first, a slot of its own.
MarkSend(t) ==
    LET score == NewTask("score", tasks[t].report) IN
    /\ tasks[t].pc = "send"
    /\ \/ tasks' = [tasks EXCEPT ![t] = score] /\ UNCHANGED faults
       \/ /\ Fault
          /\ \E u \in Slots : IsFree(u) /\
                tasks' = [tasks EXCEPT ![u] = score,
                                       ![t] = Requeued(t, tasks[t].tries)]
    /\ UNCHANGED <<row, gate, drive, age, unseen, lossy>>

\* A Redis error anywhere in the helper is logged and swallowed.
MarkFails(t) ==
    /\ tasks[t].pc \in {"stepdone", "delete", "send"}
    /\ Fault
    /\ tasks' = [tasks EXCEPT ![t] = NoTask]
    /\ lossy' = [lossy EXCEPT ![tasks[t].report] = TRUE]
    /\ UNCHANGED <<row, gate, drive, age, unseen>>

-----------------------------------------------------------------------------
(* The workers.                                                            *)

\* _match_building_impl: the row is matched (confidence 0.0 for no building)
\* and committed. Every column it reads is fixed when the report is stored.
GisMatch(t) ==
    LET r == tasks[t].report IN
    /\ tasks[t].kind = "gis" /\ tasks[t].pc = "queued"
    /\ row' = [row EXCEPT ![r].matched = TRUE]
    /\ unseen' = [unseen EXCEPT ![r] = TRUE]
    /\ Goto(t, "committed")
    /\ UNCHANGED <<gate, drive, age, lossy, faults>>

\* The heatmap and statistics caches are dropped after the commit.
GisInvalidateCaches(t) ==
    /\ tasks[t].pc = "committed"
    /\ Goto(t, "stepdone")
    /\ UNCHANGED <<row, gate, drive, age, unseen, lossy, faults>>

\* An IntegrityError is not retried: roll back and mark the step done.
GisIntegrityError(t) ==
    /\ tasks[t].kind = "gis" /\ tasks[t].pc = "queued"
    /\ Fault
    /\ Goto(t, "stepdone")
    /\ UNCHANGED <<row, gate, drive, age, unseen, lossy>>

\* _process_report_image_impl reads the row; download and hash take a while.
AiLoad(t) ==
    LET r == tasks[t].report IN
    /\ tasks[t].kind = "ai" /\ tasks[t].pc = "queued"
    /\ tasks' = [tasks EXCEPT ![t] =
                    [kind |-> "ai", report |-> r, pc |-> "loaded",
                     tries |-> tasks[t].tries, photo |-> row[r].photo]]
    /\ UNCHANGED <<row, gate, drive, age, unseen, lossy, faults>>

\* The hash is committed before the vision call.
AiHash(t) ==
    LET r == tasks[t].report IN
    /\ tasks[t].kind = "ai" /\ tasks[t].pc = "loaded"
    /\ row' = [row EXCEPT ![r].phash = tasks[t].photo]
    /\ unseen' = [unseen EXCEPT ![r] = TRUE]
    /\ Goto(t, "hashed")
    /\ UNCHANGED <<gate, drive, age, lossy, faults>>

\* The vision call returns. An accepted photo's hash is written again.
AiFinish(t, usable) ==
    LET r == tasks[t].report IN
    /\ tasks[t].kind = "ai" /\ tasks[t].pc = "hashed"
    /\ row' = [row EXCEPT ![r].photoStatus = "assessed",
                          ![r].phash = IF usable THEN tasks[t].photo ELSE @]
    /\ unseen' = [unseen EXCEPT ![r] = TRUE]
    /\ Goto(t, "stepdone")
    /\ UNCHANGED <<gate, drive, age, lossy, faults>>

\* _score_report_impl loads the row and the candidates; a report that is not
\* pending is left alone (M-10).
ScoreLoad(t) ==
    LET r == tasks[t].report IN
    /\ tasks[t].kind = "score" /\ tasks[t].pc = "queued"
    /\ unseen' = [unseen EXCEPT ![r] = FALSE]
    /\ IF row[r].status = "pending"
         THEN Goto(t, "loaded") /\ UNCHANGED faults
         ELSE AckOrRedeliver(t)
    /\ UNCHANGED <<row, gate, drive, age, lossy>>

\* The outcome and its audit row are committed together. The UPDATE that holds
\* the report for review does not look at the status again.
ScoreWrite(t, merge) ==
    LET r == tasks[t].report IN
    /\ tasks[t].kind = "score" /\ tasks[t].pc = "loaded"
    /\ row' = [row EXCEPT ![r].scored = TRUE,
                          ![r].status = IF merge THEN "pending_merge_review" ELSE @]
    /\ AckOrRedeliver(t)
    /\ UNCHANGED <<gate, drive, age, unseen, lossy>>

\* An IntegrityError while scoring ends the task without an audit row.
ScoreIntegrityError(t) ==
    /\ tasks[t].kind = "score" /\ tasks[t].pc = "loaded"
    /\ Fault
    /\ tasks' = [tasks EXCEPT ![t] = NoTask]
    /\ lossy' = [lossy EXCEPT ![tasks[t].report] = TRUE]
    /\ UNCHANGED <<row, gate, drive, age, unseen>>

-----------------------------------------------------------------------------
(* Failure of a task body: Celery retries it max_retries times.            *)

\* Where the body can raise. A GIS task also fails after its commit, when the
\* caches cannot be invalidated.
CanRaise(t) ==
    \/ tasks[t].kind = "gis" /\ tasks[t].pc \in {"queued", "committed"}
    \/ tasks[t].kind = "ai" /\ tasks[t].pc \in {"queued", "loaded", "hashed"}
    \/ tasks[t].kind = "score" /\ tasks[t].pc \in {"queued", "loaded"}

Retry(t) ==
    /\ tasks[t].tries < MaxRetries
    /\ tasks' = [tasks EXCEPT ![t] = Requeued(t, tasks[t].tries + 1)]
    /\ UNCHANGED <<row, gate, drive, age, unseen, lossy>>

\* Task.retry(exc=exc) past max_retries raises exc itself, so no handler of
\* the wrapper runs and the message is acknowledged as failed.
TaskDies(t) ==
    /\ tasks[t].tries = MaxRetries /\ RetryRaises = "exc"
    /\ tasks' = [tasks EXCEPT ![t] = NoTask]
    /\ lossy' = [lossy EXCEPT ![tasks[t].report] = TRUE]
    /\ UNCHANGED <<row, gate, drive, age, unseen>>

\* The wrappers' MaxRetriesExceededError branches: the step counts as done.
GisGivesUp(t) ==
    /\ tasks[t].tries = MaxRetries /\ RetryRaises = "MaxRetriesExceededError"
    /\ tasks[t].kind = "gis"
    /\ Goto(t, "stepdone")
    /\ UNCHANGED <<row, gate, drive, age, unseen, lossy>>

AiGivesUp(t) ==
    /\ tasks[t].tries = MaxRetries /\ RetryRaises = "MaxRetriesExceededError"
    /\ tasks[t].kind = "ai"
    /\ row' = [row EXCEPT ![tasks[t].report].photoStatus = "ai_processing_failed"]
    /\ Goto(t, "stepdone")
    /\ UNCHANGED <<gate, drive, age, unseen, lossy>>

ScoreGivesUp(t) ==
    /\ tasks[t].tries = MaxRetries /\ RetryRaises = "MaxRetriesExceededError"
    /\ tasks[t].kind = "score"
    /\ tasks' = [tasks EXCEPT ![t] = NoTask]
    /\ lossy' = [lossy EXCEPT ![tasks[t].report] = TRUE]
    /\ UNCHANGED <<row, gate, drive, age, unseen>>

Raises(t) ==
    Retry(t) \/ TaskDies(t) \/ GisGivesUp(t) \/ AiGivesUp(t) \/ ScoreGivesUp(t)

TaskFails(t) == CanRaise(t) /\ Fault /\ Raises(t)

\* A provider that refuses a photo costs no fault.
VisionFails(t) ==
    /\ VisionMayFail
    /\ tasks[t].kind = "ai" /\ tasks[t].pc = "hashed"
    /\ Raises(t)
    /\ UNCHANGED faults

\* The worker dies in the middle: the message goes back to the queue.
Redeliver(t) ==
    /\ tasks[t].pc \notin {"free", "queued"}
    /\ Fault
    /\ Requeue(t)
    /\ UNCHANGED <<row, gate, drive, age, unseen, lossy>>

\* A killed pool process fails its task without a retry
\* (task_reject_on_worker_lost is off); a flushed broker forgets messages.
TaskLost(t) ==
    /\ ~IsFree(t)
    /\ Fault
    /\ tasks' = [tasks EXCEPT ![t] = NoTask]
    /\ lossy' = [lossy EXCEPT ![tasks[t].report] = TRUE]
    /\ UNCHANGED <<row, gate, drive, age, unseen>>

-----------------------------------------------------------------------------
(* Time, analysts and the reconciliation sweep.                            *)

\* The gate's TTL of one hour runs out, or Redis is flushed.
GateExpires(r) ==
    /\ gate[r] > 0
    /\ Fault
    /\ gate' = [gate EXCEPT ![r] = 0]
    /\ UNCHANGED <<row, drive, age, tasks, unseen, lossy>>

\* Past the grace period, and past the sweep's maximum age.
GraceOver(r) ==
    /\ OldestAge # "new" /\ Stored(r) /\ age[r] = "new"
    /\ age' = [age EXCEPT ![r] = "graced"]
    /\ UNCHANGED <<row, gate, drive, tasks, unseen, lossy, faults>>

TooOld(r) ==
    /\ OldestAge = "old" /\ age[r] = "graced"
    /\ age' = [age EXCEPT ![r] = "old"]
    /\ UNCHANGED <<row, gate, drive, tasks, unseen, lossy, faults>>

\* An analyst settles a report, or rejects its merge.
AnalystActs(r) ==
    /\ row[r].status \in {"pending", "pending_merge_review"}
    /\ \E s \in {"actioned", "pending"} :
        /\ s = "pending" => row[r].status = "pending_merge_review"
        /\ row' = [row EXCEPT ![r].status = s]
    /\ UNCHANGED <<gate, drive, age, tasks, unseen, lossy, faults>>

\* Mutant of NeedsAi: photo_url alone, whatever became of the photo.
NeedsAiForAnyPhoto(r) == row[r].photo # 0

\* Mutant of NeedsDedup: the query does not look for the audit row.
NeedsNoDedup(r) == FALSE

\* The three columns of _STUCK_QUERY.
NeedsGis(r)   == ~row[r].matched
NeedsAi(r)    == row[r].photo # 0
                 /\ row[r].photoStatus \notin {"assessed", "ai_processing_failed"}
NeedsDedup(r) == ~row[r].scored

InSweepWindow(r) == row[r].status = "pending" /\ age[r] = "graced"

MissingSteps(r) == {k \in Steps : (k = "gis" /\ NeedsGis(r)) \/ (k = "ai" /\ NeedsAi(r))}

\* One row of the sweep's result. Missing steps are re-driven through a new
\* gate; if only the scoring is missing it is sent without one.
SweepSelect(r) ==
    /\ drive["sweep"][r] = Idle
    /\ InSweepWindow(r)
    /\ MissingSteps(r) # {} \/ NeedsDedup(r)
    /\ drive' = [drive EXCEPT !["sweep"][r] =
                    IF MissingSteps(r) # {}
                      THEN [pc |-> "seed", steps |-> MissingSteps(r)]
                      ELSE [pc |-> "publish", steps |-> {"score"}]]
    /\ UNCHANGED <<row, gate, age, tasks, unseen, lossy, faults>>

-----------------------------------------------------------------------------
\* What the code does when nothing goes wrong: fairness is asked of these.
TaskStep(t) ==
    \/ MarkDecr(t) \/ MarkDelete(t) \/ MarkSend(t)
    \/ GisMatch(t) \/ GisInvalidateCaches(t) \/ AiLoad(t) \/ AiHash(t)
    \/ (\E usable \in BOOLEAN : AiFinish(t, usable))
    \/ VisionFails(t)
    \/ ScoreLoad(t) \/ (\E merge \in BOOLEAN : ScoreWrite(t, merge))

TaskFault(t) ==
    \/ MarkFails(t) \/ GisIntegrityError(t) \/ ScoreIntegrityError(t)
    \/ TaskFails(t) \/ Redeliver(t) \/ TaskLost(t)

DriverStep(d, r) == Seed(d, r) \/ Publish(d, r)

DriverFault(d, r) == SeedFails(d, r) \/ DriverDies(d, r)

Next ==
    \/ \E r \in Reports :
        \/ (\E withPhoto \in BOOLEAN : SubmitReport(r, withPhoto))
        \/ UploadPhoto(r) \/ PublishSwallowed(r) \/ GateExpires(r)
        \/ GraceOver(r) \/ TooOld(r) \/ AnalystActs(r)
        \/ SweepSelect(r)
        \/ (\E d \in Drivers : DriverStep(d, r) \/ DriverFault(d, r))
    \/ \E t \in Slots : TaskStep(t) \/ TaskFault(t)

Spec == Init /\ [][Next]_vars

\* Workers keep taking tasks, handlers run on, beat starts the sweep every five
\* minutes. Reporters, analysts and faults are under no obligation.
Fairness ==
    /\ \A t \in Slots : WF_vars(TaskStep(t))
    /\ \A r \in Reports :
        /\ \A d \in Drivers : WF_vars(DriverStep(d, r))
        /\ WF_vars(GraceOver(r)) /\ WF_vars(SweepSelect(r))

FairSpec == Spec /\ Fairness

-----------------------------------------------------------------------------
(* Properties.                                                             *)

TypeOK ==
    /\ row \in [Reports -> Row]
    /\ gate \in [Reports -> Int] /\ \A r \in Reports : gate[r] <= 2
    /\ drive \in [Drivers -> [Reports -> Drive]]
    /\ age \in [Reports -> Ages]
    /\ tasks \in [Slots -> Task]
    /\ unseen \in [Reports -> BOOLEAN]
    /\ lossy \in [Reports -> BOOLEAN]
    /\ faults \in 0..MaxFaults

\* The task has not decremented the gate yet.
MarkDue(t, r) ==
    /\ tasks[t].report = r /\ tasks[t].kind \in Steps
    /\ tasks[t].pc \in {"queued", "committed", "loaded", "hashed", "stepdone"}

\* Jobs a driver has counted in the gate and not published yet.
ToPublish(d, r) ==
    IF drive[d][r].pc = "publish" THEN drive[d][r].steps \cap Steps ELSE {}

\* Decrements of the gate that are still to come.
PendingMarks(r) ==
    Cardinality({t \in Slots : MarkDue(t, r)})
    + Cardinality(ToPublish("api", r)) + Cardinality(ToPublish("sweep", r))

\* The gate never waits for more steps than will report to it. Reseeding by a
\* photo upload or by the sweep, redelivered messages, retries and expiry of the
\* key only ever make it too low, which scores once too often; a gate that is too
\* high would never dispatch (duplicate_dispatch.py, routes/reports.py:283).
GateNeverOvercounts == \A r \in Reports : ~lossy[r] => gate[r] <= PendingMarks(r)

\* Nothing is under way for the report.
Quiet(r) ==
    /\ \A t \in Slots : tasks[t].report # r
    /\ \A d \in Drivers : drive[d][r].pc = "idle"

\* When everything has come to rest, a scoring run has loaded the report after
\* the last GIS or AI write to it, whichever worker finished last, unless a
\* counted step or a scoring job was lost (duplicate_dispatch.py:8-12).
NoStepUnseen == \A r \in Reports : Quiet(r) /\ unseen[r] => lossy[r]

\* A stored report gets its duplicate_scored or pending_merge_review audit row,
\* or an analyst takes it first, or it outlives the sweep's window: a failure
\* after the commit does not leave it unprocessed (reconciliation_tasks.py:5-14).
Unsettled(r) == Stored(r) /\ row[r].status = "pending" /\ ~row[r].scored /\ age[r] # "old"
EventuallyScored == \A r \in Reports : Stored(r) ~> ~Unsettled(r)

\* The sweep does not loop on reports that are done: in the end no job is left
\* and none is sent (reconciliation_tasks.py:25-27).
WorkDrains == <>[](\A r \in Reports : Quiet(r))

=============================================================================
