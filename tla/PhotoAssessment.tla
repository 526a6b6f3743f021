---------------------------- MODULE PhotoAssessment ----------------------------
(***************************************************************************)
(* What the AI worker makes of the photo of one report, and the analyst    *)
(* queue priority it leads to (app/workers/ai_tasks.py, vision_service.py),*)
(* next to a reporter who uploads another photo or answers a question      *)
(* (submission_service.py) and an analyst who asks one                     *)
(* (analyst_service.request_more_info).                                    *)
(*                                                                         *)
(* Photos are numbered by upload.  An AI task reads the row once, and then *)
(* writes twice: the hash before the vision call, its result after it.     *)
(* A request loads the row in one step and commits in another; SQLAlchemy  *)
(* sends only the columns it changed.  Scores are in percent, and only     *)
(* which side of the thresholds they fall on matters.                      *)
(***************************************************************************)
EXTENDS Integers, FiniteSets

CONSTANTS
    Slots,          \* AI messages and tasks at once
    MaxPhotos,      \* bound on the uploads
    MaxRetries,     \* max_retries of process_report_image (3 in the code)
    MaxQuestions,   \* bound on the requests for more information
    MaxUpdates,     \* bound on uploads and requests for more information together
    MaxExtra        \* bound on redeliveries and re-sent jobs

ASSUME AssessmentAssumption ==
    /\ IsFiniteSet(Slots)
    /\ MaxPhotos \in Nat /\ MaxRetries \in Nat
    /\ MaxQuestions \in Nat /\ MaxUpdates \in Nat /\ MaxExtra \in Nat

VARIABLES
    row,        \* the columns of the report
    tasks,      \* per slot: an AI message or task
    reporter,   \* the request of the reporter that is under way
    analyst,    \* the request of the analyst
    extra,      \* redeliveries and re-sent jobs so far
    overtaken,  \* history: a task wrote for an older photo since the last upload
    crossed     \* history: a reply and a new question were under way at once, and
                \* no reply was cleared since

vars == <<row, tasks, reporter, analyst, extra, overtaken, crossed>>

Photos == 1..MaxPhotos
Rank   == [low |-> 0, normal |-> 1, high |-> 2, critical |-> 3]
Priorities == {"low", "normal", "high", "critical"}
PhotoStatus == {"pending", "processing", "accepted", "insufficient_quality",
                "ai_processing_failed"}

\* An assessment as the row holds it: the photo it was made of, the confidence,
\* and whether it diverges from the reporter.
NoAssessment == [photo |-> 0, confidence |-> 0, divergence |-> FALSE]
Confidences  == {55, 65, 90}
Scores       == {20, 70}
Thresholds   == {50, 60, 70}

Message(n) == [pc |-> "queued", photo |-> 0, hash |-> 0, answered |-> FALSE, retries |-> n]
Free == [Message(0) EXCEPT !.pc = "free"]
NoRequest == [pc |-> "idle", seen |-> "none"]
NoReply == [pc |-> "idle", seen |-> "none", question |-> 0]

TypeOK ==
    /\ row \in [urgent : BOOLEAN, photo : 0..MaxPhotos, status : PhotoStatus,
                phash : 0..MaxPhotos, priority : Priorities,
                asked : 0..MaxQuestions, answered : 0..MaxQuestions,
                ai : [photo : 0..MaxPhotos, confidence : {0} \cup Confidences,
                      divergence : BOOLEAN]]
    /\ tasks \in [Slots -> [pc : {"free", "queued", "download", "hosted", "local"},
                            photo : 0..MaxPhotos, hash : 0..MaxPhotos,
                            answered : BOOLEAN, retries : 0..MaxRetries]]
    /\ reporter \in [pc : {"idle", "answering"}, seen : Priorities \cup {"none"},
                    question : 0..MaxQuestions]
    /\ analyst \in [pc : {"idle", "asking"}, seen : {"none", "open", "answered"}]
    /\ extra \in 0..MaxExtra
    /\ overtaken \in BOOLEAN
    /\ crossed \in BOOLEAN

\* create_report, with or without a photo and medical need.
Init ==
    /\ \E urgent \in BOOLEAN :
        row = [urgent |-> urgent, photo |-> 0, status |-> "pending", phash |-> 0,
               priority |-> IF urgent THEN "critical" ELSE "normal",
               asked |-> 0, answered |-> 0, ai |-> NoAssessment]
    /\ tasks = [s \in Slots |-> Free]
    /\ reporter = NoReply /\ analyst = NoRequest
    /\ extra = 0 /\ overtaken = FALSE /\ crossed = FALSE

-----------------------------------------------------------------------------
(* Queue priority. *)

AtLeast(p, floor) == IF Rank[p] < Rank[floor] THEN floor ELSE p

\* Mutant of Floor: the reply is looked at first.
FloorReplyFirst(urgent, answered) ==
    IF answered THEN "high" ELSE IF urgent THEN "critical" ELSE "low"

\* Mutant of Floor: a reply is no floor.
FloorUrgentOnly(urgent, answered) == IF urgent THEN "critical" ELSE "low"

\* _apply_priority_floor.
Floor(urgent, answered) ==
    IF urgent THEN "critical" ELSE IF answered THEN "high" ELSE "low"

\* _compute_review_priority, with None for an unusable photo's confidence.
Computed(score, confidence, divergence) ==
    CASE score < 30 -> "critical"
      [] score >= 30 /\ confidence \in 1..59 -> "critical"
      [] score >= 30 /\ confidence \notin 1..59 /\ divergence -> "high"
      [] score >= 30 /\ ~divergence /\ confidence \in 60..79 -> "high"
      [] score >= 30 /\ ~divergence /\ confidence >= 80 -> "low"
      [] score >= 30 /\ ~divergence /\ confidence = 0 -> "normal"

\* The divergence flag, against the threshold calibrated in Redis or its default.
Diverges(agrees, confidence, threshold) == ~agrees /\ confidence > threshold

\* What a usable ImageAnalysisResult comes to.
Assessments ==
    {[score |-> sc, confidence |-> c, divergence |-> Diverges(agrees, c, threshold)] :
        sc \in Scores, c \in Confidences, agrees \in BOOLEAN, threshold \in Thresholds}

-----------------------------------------------------------------------------
(* The AI task. *)

At(s, step) == tasks[s].pc = step
Goto(s, step) == tasks' = [tasks EXCEPT ![s].pc = step]
Done(s) == tasks' = [tasks EXCEPT ![s] = Free]

Stale(s) == overtaken' = (overtaken \/ tasks[s].photo < row.photo)
Others == UNCHANGED <<reporter, analyst, extra, crossed>>

\* The SELECT; the photo is then downloaded.
Load(s) ==
    /\ At(s, "queued")
    /\ tasks' = [tasks EXCEPT ![s] =
           [pc |-> "download", photo |-> row.photo, hash |-> 0,
            answered |-> row.answered # 0, retries |-> tasks[s].retries]]
    /\ UNCHANGED <<row, overtaken>> /\ Others

\* The photo arrives.  Its hash is committed, unless it cannot be computed.
Hash(s) ==
    /\ At(s, "download")
    /\ \/ /\ tasks' = [tasks EXCEPT ![s] = [tasks[s] EXCEPT !.pc = "hosted", !.hash = tasks[s].photo]]
          /\ row' = [row EXCEPT !.phash = tasks[s].photo]
          /\ Stale(s)
       \/ Goto(s, "hosted") /\ UNCHANGED <<row, overtaken>>
    /\ Others

\* The branch for quality_flag "unusable".  The flag and the score come from the
\* model separately.  The row it inserts in notifications is not part of the
\* report's state and no priority reads it.
WriteUnusable(s) ==
    \E score \in Scores :
        row' = [row EXCEPT !.status = "insufficient_quality",
                           !.priority = AtLeast(Computed(score, 0, FALSE),
                                                Floor(row.urgent, tasks[s].answered))]

\* Steps 5 to 7: all AI columns, whatever the row holds by now.
WriteAssessment(s) ==
    \E r \in Assessments :
        row' = [row EXCEPT
            !.ai = [photo |-> tasks[s].photo, confidence |-> r.confidence,
                    divergence |-> r.divergence],
            !.phash = tasks[s].hash,
            !.status = "accepted",
            !.priority = AtLeast(Computed(r.score, r.confidence, r.divergence),
                                 Floor(row.urgent, tasks[s].answered))]

Finish(s) ==
    /\ WriteUnusable(s) \/ WriteAssessment(s)
    /\ Stale(s)
    /\ Done(s)
    /\ Others

HostedAnswers(s) == At(s, "hosted") /\ Finish(s)
LocalAnswers(s)  == At(s, "local") /\ Finish(s)

\* FallbackVisionProvider goes on to the next provider.  With VISION_PROVIDER
\* "ollama" the hosted model is not there, as if it always failed.
HostedFails(s) ==
    /\ At(s, "hosted")
    /\ Goto(s, "local")
    /\ UNCHANGED <<row, overtaken>> /\ Others

\* A failed download, or no provider is left: rollback, and the wrapper retries.
Retry(s) ==
    /\ tasks[s].pc \in {"download", "local"} /\ tasks[s].retries < MaxRetries
    /\ tasks' = [tasks EXCEPT ![s] = Message(tasks[s].retries + 1)]
    /\ UNCHANGED <<row, overtaken>> /\ Others

\* Mutant of GiveUp: it resets what is there.
GiveUpResets(s) ==
    /\ tasks[s].pc \in {"download", "local"} /\ tasks[s].retries = MaxRetries
    /\ row' = [row EXCEPT !.status = "ai_processing_failed", !.priority = "critical",
                          !.phash = 0, !.ai = NoAssessment]
    /\ Done(s)
    /\ UNCHANGED overtaken /\ Others

\* After the last retry: the branch for MaxRetriesExceededError, or, with the
\* retry(exc=...) of the pinned Celery, the task just ends.
GiveUp(s) ==
    /\ tasks[s].pc \in {"download", "local"} /\ tasks[s].retries = MaxRetries
    /\ \/ row' = [row EXCEPT !.status = "ai_processing_failed", !.priority = "critical"]
       \/ UNCHANGED row
    /\ Done(s)
    /\ UNCHANGED overtaken /\ Others

\* acks_late: a worker dies, and the message comes again.
Redeliver(s) ==
    /\ tasks[s].pc \in {"download", "hosted", "local"} /\ extra < MaxExtra
    /\ tasks' = [tasks EXCEPT ![s] = Message(tasks[s].retries)]
    /\ extra' = extra + 1
    /\ UNCHANGED <<row, reporter, analyst, overtaken, crossed>>

Send(s) ==
    /\ At(s, "free")
    /\ tasks' = [tasks EXCEPT ![s] = Message(0)]

\* The sweep sends the job again for a photo that is still being processed.
Resend(s) ==
    /\ row.status = "processing" /\ extra < MaxExtra
    /\ Send(s)
    /\ extra' = extra + 1
    /\ UNCHANGED <<row, reporter, analyst, overtaken, crossed>>

-----------------------------------------------------------------------------
(* The reporter and the analyst. *)

\* Mutant of UploadPhoto: the status of the photo before it stays.
UploadPhotoQuietly(s) ==
    /\ row.photo < MaxPhotos /\ row.photo + row.asked < MaxUpdates
    /\ row' = [row EXCEPT !.photo = row.photo + 1]
    /\ Send(s)
    /\ overtaken' = FALSE
    /\ Others

\* With the report, or later with PATCH /reports/{id}/photo.
UploadPhoto(s) ==
    /\ row.photo < MaxPhotos /\ row.photo + row.asked < MaxUpdates
    /\ row' = [row EXCEPT !.photo = row.photo + 1, !.status = "processing"]
    /\ Send(s)
    /\ overtaken' = FALSE
    /\ Others

\* add_reporter_followup: whether a question is open is looked at here only, and
\* the reporter has written for the question that is open here.
AnswerLoad ==
    /\ reporter.pc = "idle" /\ row.asked > 0 /\ row.answered = 0
    /\ reporter' = [pc |-> "answering", seen |-> row.priority, question |-> row.asked]
    /\ UNCHANGED <<row, tasks, analyst, extra, overtaken, crossed>>

\* The reply is stored beside whatever question the row holds by now.
AnswerCommit ==
    /\ reporter.pc = "answering"
    /\ row' = [row EXCEPT
           !.answered = reporter.question,
           !.priority = IF Rank[reporter.seen] < Rank["high"] THEN "high" ELSE row.priority]
    /\ reporter' = NoReply
    /\ crossed' = (crossed \/ analyst.pc = "asking")
    /\ UNCHANGED <<tasks, analyst, extra, overtaken>>

\* request_more_info, which is for a report that awaits a decision: this one does
\* (decisions are in AnalystReview).
AskLoad ==
    /\ analyst.pc = "idle" /\ row.asked < MaxQuestions /\ row.photo + row.asked < MaxUpdates
    /\ analyst' = [pc |-> "asking", seen |-> IF row.answered = 0 THEN "open" ELSE "answered"]
    /\ UNCHANGED <<row, tasks, reporter, extra, overtaken, crossed>>

Crosses ==
    crossed' = (reporter.pc = "answering" \/ (crossed /\ analyst.seen # "answered"))

\* Mutant of AskCommit: the earlier reply stays.
AskCommitKeepsReply ==
    /\ analyst.pc = "asking"
    /\ row' = [row EXCEPT !.asked = row.asked + 1]
    /\ analyst' = NoRequest
    /\ Crosses
    /\ UNCHANGED <<tasks, reporter, extra, overtaken>>

\* Setting info_responded_at to None sends nothing when None is what was loaded.
AskCommit ==
    /\ analyst.pc = "asking"
    /\ row' = [row EXCEPT !.asked = row.asked + 1,
                          !.answered = IF analyst.seen = "answered" THEN 0 ELSE row.answered]
    /\ analyst' = NoRequest
    /\ Crosses
    /\ UNCHANGED <<tasks, reporter, extra, overtaken>>

Step(s) ==
    \/ Load(s) \/ Hash(s) \/ HostedAnswers(s) \/ LocalAnswers(s) \/ HostedFails(s)
    \/ Retry(s) \/ GiveUp(s)

Next ==
    \/ \E s \in Slots : Step(s) \/ Redeliver(s) \/ Resend(s) \/ UploadPhoto(s)
    \/ AnswerLoad \/ AnswerCommit \/ AskLoad \/ AskCommit

Spec == Init /\ [][Next]_vars

-----------------------------------------------------------------------------
(* Properties. *)

\* The queue order fits what is known of the report, whatever tasks of whatever
\* photo ended last and whatever the reporter answered meanwhile: urgent medical
\* need stays critical, a divergent report or one without any AI data is at least
\* high, and only a confident assessment that agrees makes a report low.
PriorityFits ==
    /\ row.urgent => row.priority = "critical"
    /\ row.ai.divergence => Rank[row.priority] >= Rank["high"] \/ row.ai.photo # row.photo
                            \/ row.status = "insufficient_quality"
    /\ row.status = "ai_processing_failed" => Rank[row.priority] >= Rank["high"]
    /\ row.priority = "low" => row.ai.confidence >= 80 /\ ~row.ai.divergence

\* "A reporter's reply to a request for more info keeps it at high": it is lowered
\* only by a task that read the row before the reply (_apply_priority_floor gets
\* what the task read, not what the row holds).
RepliedStaysHigh ==
    [][row.answered # 0 /\ Rank[row.priority] >= Rank["high"]
           /\ Rank[row'.priority] < Rank["high"] /\ row'.answered # 0
       => \E s \in Slots : tasks[s].pc \in {"hosted", "local"} /\ ~tasks[s].answered
                           /\ tasks'[s] = Free]_vars

\* A task writes for an older photo than the report has.
WritesLate(s) == tasks[s].photo \in 1..(row.photo - 1) /\ tasks'[s] # tasks[s]

\* A task of this photo ends whose own hash failed: its image_phash is None.
EndsUnhashed(s) ==
    /\ tasks[s].pc \in {"hosted", "local"}
    /\ tasks[s].photo = row.photo /\ tasks[s].hash = 0
    /\ tasks'[s] = Free

\* The assessment of the photo the report has is lost only to a task that had
\* loaded an older photo: a retry, a redelivery or giving up keeps it.  The hash is
\* lost to such a task too, and to a second task of the same photo whose own hash
\* failed: "Retries recompute the same value, so the write is idempotent" holds of
\* the first UPDATE, which None skips, and not of the last one, which writes NULL.
NewerResultsKept ==
    [][row'.photo = row.photo /\ row.photo # 0 =>
       /\ row.ai.photo = row.photo /\ row'.ai.photo # row.photo
            => \E s \in Slots : WritesLate(s)
       /\ row.phash = row.photo /\ row'.phash # row.photo
            => \E s \in Slots : WritesLate(s) \/ (row'.phash = 0 /\ EndsUnhashed(s))]_vars

\* Once no task is left and none wrote for an older photo since the last upload,
\* an accepted photo is the one that was hashed and assessed.
AcceptedIsAssessed ==
    (\A s \in Slots : At(s, "free")) /\ row.status = "accepted" /\ ~overtaken
        => row.ai.photo = row.photo /\ row.phash \in {0, row.photo}

\* The reply of the row answers the question of the row ("the report waits for an
\* answer to the new question", request_more_info), unless a reply and a new
\* question were under way at once.  Then, in whichever order they load and commit,
\* the row ends with a reply to an older question beside the new one, and stays so
\* until the analyst asks again.
ReplyFitsQuestion ==
    /\ ~crossed => row.answered \in {0, row.asked}
    /\ crossed /\ reporter.pc = "idle" /\ analyst.pc = "idle"
           => row.answered \notin {0, row.asked}
=============================================================================
