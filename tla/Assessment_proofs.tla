--------------------------- MODULE Assessment_proofs ---------------------------
(***************************************************************************)
(* What TLAPS proves of the AI's assessment, in two parts that share       *)
(* nothing.                                                                *)
(*                                                                         *)
(* PhotoAssessment, for any number of tasks, photos, retries, questions    *)
(* and redeliveries: the types, and every property of the                  *)
(* photo_assessment run.                                                   *)
(*                                                                         *)
(* Calibration, for any number of requests, any feedback and any failures: *)
(* every property of the calibration run.                                  *)
(***************************************************************************)
EXTENDS PhotoAssessment, Calibration, FiniteSetTheorems, SequenceTheorems, TLAPS

\* The columns, the requests and the tasks by the names of their types.
Rows == [urgent : BOOLEAN, photo : 0..MaxPhotos, status : PhotoStatus,
         phash : 0..MaxPhotos, priority : Priorities,
         asked : 0..MaxQuestions, answered : 0..MaxQuestions,
         ai : [photo : 0..MaxPhotos, confidence : {0} \cup Confidences, divergence : BOOLEAN]]
Tasks == [pc : {"free", "queued", "download", "hosted", "local"},
          photo : 0..MaxPhotos, hash : 0..MaxPhotos, answered : BOOLEAN, retries : 0..MaxRetries]

\* What a task holds is of a photo the report has had; what the row holds is too.
TaskFits(t, r) ==
    /\ t.pc # "free" => r.photo >= 1
    /\ t.pc \in {"download", "hosted", "local"} => t.photo >= 1
    /\ t.photo <= r.photo
    /\ t.hash \in {0, t.photo}

RowFits(r) ==
    /\ r.ai.photo <= r.photo
    /\ r.status = "processing" => r.photo >= 1

\* A request that is under way has loaded the report: the priority of an urgent one
\* has always been critical, and there is room for the question.
RequestsFit ==
    /\ reporter.pc = "answering" =>
           /\ reporter.seen \in Priorities
           /\ row.urgent => reporter.seen = "critical"
    /\ analyst.pc = "asking" => analyst.seen # "none" /\ row.asked < MaxQuestions

\* The reply of the row, the one under way and the question under way, before and after
\* a reply and a question cross.
RepliesFit ==
    /\ reporter.pc = "answering" =>
           /\ row.answered = 0 /\ reporter.question >= 1 /\ reporter.question <= row.asked
           /\ ~crossed => reporter.question = row.asked
    /\ analyst.pc = "asking" =>
           /\ analyst.seen = "answered" => row.answered # 0
           /\ analyst.seen = "open" /\ ~crossed => row.answered = 0
    /\ row.answered <= row.asked
    /\ ~crossed => row.answered \in {0, row.asked}
    /\ crossed =>
           \/ row.answered # 0 /\ row.answered < row.asked
           \/ reporter.pc = "answering" /\ reporter.question < row.asked
           \/ /\ analyst.pc = "asking" /\ analyst.seen = "open"
              /\ row.answered = row.asked /\ row.asked # 0

\* AcceptedIsAssessed without waiting for the tasks to end.
Assessed ==
    row.status = "accepted" /\ ~overtaken
        => row.ai.photo = row.photo /\ row.phash \in {0, row.photo}

IInv ==
    /\ TypeOK
    /\ \A s \in Slots : TaskFits(tasks[s], row)
    /\ RowFits(row) /\ RequestsFit /\ RepliesFit /\ PriorityFits /\ Assessed

-----------------------------------------------------------------------------
(* What a task comes to. *)

\* A result: the photo it is of, its priority, and what it says.
LEMMA ComputedFits ==
    ASSUME NEW sc \in Scores, NEW c \in Confidences \cup {0}, NEW d \in BOOLEAN, c = 0 => ~d
    PROVE  /\ Computed(sc, c, d) \in Priorities
           /\ d => Computed(sc, c, d) \in {"high", "critical"}
           /\ Computed(sc, c, d) = "low" => c >= 80 /\ ~d
<1>1. CASE sc < 30
  BY <1>1 DEF Computed, Scores, Confidences, Priorities
<1>2. CASE sc >= 30 /\ c \in 1..59
  BY <1>2 DEF Computed, Scores, Confidences, Priorities
<1>3. CASE sc >= 30 /\ c \notin 1..59 /\ d
  BY <1>3 DEF Computed, Scores, Confidences, Priorities
<1>4. CASE sc >= 30 /\ ~d /\ c \in 60..79
  BY <1>4 DEF Computed, Scores, Confidences, Priorities
<1>5. CASE sc >= 30 /\ ~d /\ c >= 80
  BY <1>5 DEF Computed, Scores, Confidences, Priorities
<1>6. CASE sc >= 30 /\ ~d /\ c = 0
  BY <1>6 DEF Computed, Scores, Confidences, Priorities
<1> QED
  BY <1>1, <1>2, <1>3, <1>4, <1>5, <1>6 DEF Scores, Confidences

\* The floor under a computed priority.
LEMMA FloorFits ==
    ASSUME NEW p \in Priorities, NEW u \in BOOLEAN, NEW a \in BOOLEAN
    PROVE  /\ AtLeast(p, Floor(u, a)) \in Priorities
           /\ u => AtLeast(p, Floor(u, a)) = "critical"
           /\ a => Rank[AtLeast(p, Floor(u, a))] >= Rank["high"]
           /\ p \in {"high", "critical"} => Rank[AtLeast(p, Floor(u, a))] >= Rank["high"]
           /\ AtLeast(p, Floor(u, a)) = "low" => p = "low"
  BY DEF AtLeast, Floor, Rank, Priorities

\* An AI result writes columns of their types; it keeps a report urgent and a divergence high.
LEMMA ResultFits ==
    ASSUME TypeOK, NEW s \in Slots, NEW sc \in Scores, NEW c \in Confidences \cup {0},
           NEW d \in BOOLEAN, c = 0 => ~d,
           NEW p, p = AtLeast(Computed(sc, c, d), Floor(row.urgent, tasks[s].answered))
    PROVE  /\ p \in Priorities
           /\ row.urgent => p = "critical"
           /\ tasks[s].answered => Rank[p] >= Rank["high"]
           /\ d => Rank[p] >= Rank["high"]
           /\ p = "low" => c >= 80 /\ ~d
<1> DEFINE q == Computed(sc, c, d)
<1>1. row.urgent \in BOOLEAN /\ tasks[s].answered \in BOOLEAN
  BY DEF TypeOK
<1>2. /\ q \in Priorities
      /\ d => q \in {"high", "critical"}
      /\ q = "low" => c >= 80 /\ ~d
  BY ComputedFits
<1> HIDE DEF q
<1>3. p = AtLeast(q, Floor(row.urgent, tasks[s].answered))
  BY DEF q
<1> QED
  BY <1>1, <1>2, <1>3, FloorFits

-----------------------------------------------------------------------------
(* The invariant. *)

LEMMA FreeFits == Free \in Tasks /\ \A r \in Rows : TaskFits(Free, r)
<1>1. Message(0) \in Tasks
  BY AssessmentAssumption DEF Message, Tasks
<1>2. Message(0).photo = 0 /\ Message(0).hash = 0
  BY DEF Message
<1>3. Free \in Tasks /\ Free.pc = "free" /\ Free.photo = 0 /\ Free.hash = 0
  BY <1>1, <1>2 DEF Free, Tasks
<1>4. ASSUME NEW r \in Rows PROVE TaskFits(Free, r)
  <2>1. r.photo \in 0..MaxPhotos
    BY DEF Rows
  <2> QED
    BY <1>3, <2>1, AssessmentAssumption DEF TaskFits
<1> QED
  BY <1>3, <1>4

LEMMA InitInv == Init => IInv
<1> SUFFICES ASSUME Init PROVE IInv
  OBVIOUS
<1>1. PICK urgent \in BOOLEAN :
          row = [urgent |-> urgent, photo |-> 0, status |-> "pending", phash |-> 0,
                 priority |-> IF urgent THEN "critical" ELSE "normal",
                 asked |-> 0, answered |-> 0, ai |-> NoAssessment]
  BY DEF Init
<1>2. row \in Rows
  BY <1>1, AssessmentAssumption DEF Rows, NoAssessment, Priorities, PhotoStatus
<1>3. TypeOK
  <2>1. tasks \in [Slots -> Tasks]
    BY FreeFits DEF Init
  <2>2. reporter = [pc |-> "idle", seen |-> "none", question |-> 0]
        /\ analyst = [pc |-> "idle", seen |-> "none"]
    BY DEF Init, NoRequest, NoReply
  <2>3. extra \in 0..MaxExtra
    BY AssessmentAssumption DEF Init
  <2>4. overtaken \in BOOLEAN /\ crossed \in BOOLEAN
    BY DEF Init
  <2> QED
    BY <1>2, <2>1, <2>2, <2>3, <2>4, AssessmentAssumption DEF TypeOK, Rows, Tasks
<1>4. \A s \in Slots : TaskFits(tasks[s], row)
  BY <1>2, FreeFits DEF Init
<1>5. RowFits(row) /\ RequestsFit /\ RepliesFit /\ Assessed
  BY <1>1 DEF Init, RowFits, RequestsFit, RepliesFit, Assessed, NoRequest, NoReply, NoAssessment
<1>6. PriorityFits
  BY <1>1 DEF PriorityFits, NoAssessment
<1> QED
  BY <1>3, <1>4, <1>5, <1>6 DEF IInv

\* A step that changes one task only.
LEMMA TaskStep ==
    ASSUME IInv, UNCHANGED <<row, reporter, analyst, overtaken, crossed>>, extra' \in 0..MaxExtra,
           NEW s \in Slots, NEW t \in Tasks, TaskFits(t, row),
           tasks' = [tasks EXCEPT ![s] = t]
    PROVE  IInv'
<1>1. tasks' \in [Slots -> Tasks] /\ \A q \in Slots : tasks'[q] = IF q = s THEN t ELSE tasks[q]
  BY DEF IInv, TypeOK, Tasks
<1>2. TypeOK'
  BY <1>1 DEF IInv, TypeOK, Tasks
<1>3. \A q \in Slots : TaskFits(tasks[q], row)'
  BY <1>1 DEF IInv, TaskFits
<1> QED
  BY <1>2, <1>3 DEF IInv, RowFits, RequestsFit, RepliesFit, PriorityFits, Assessed

LEMMA TaskTypes ==
    ASSUME TypeOK, NEW s \in Slots
    PROVE  /\ row \in Rows /\ tasks[s] \in Tasks
           /\ tasks \in [Slots -> Tasks]
  BY DEF TypeOK, Rows, Tasks

LEMMA LoadInv == ASSUME IInv, NEW s \in Slots, Load(s) PROVE IInv'
<1> DEFINE t == [pc |-> "download", photo |-> row.photo, hash |-> 0,
                 answered |-> row.answered # 0, retries |-> tasks[s].retries]
<1>1. t \in Tasks /\ TaskFits(t, row)
  BY TaskTypes, AssessmentAssumption DEF IInv, Load, At, Tasks, Rows, TaskFits
<1>2. tasks' = [tasks EXCEPT ![s] = t]
  BY DEF Load
<1>3. UNCHANGED <<row, reporter, analyst, overtaken, crossed>> /\ extra' \in 0..MaxExtra
  BY DEF Load, Others, IInv, TypeOK
<1> HIDE DEF t
<1> QED
  BY <1>1, <1>2, <1>3, TaskStep

LEMMA RetryInv == ASSUME IInv, NEW s \in Slots, Retry(s) PROVE IInv'
<1> DEFINE t == Message(tasks[s].retries + 1)
<1>1. t \in Tasks /\ TaskFits(t, row)
  BY TaskTypes, AssessmentAssumption DEF IInv, Retry, Tasks, Rows, TaskFits, Message
<1>2. tasks' = [tasks EXCEPT ![s] = t]
  BY DEF Retry
<1>3. UNCHANGED <<row, reporter, analyst, overtaken, crossed>> /\ extra' \in 0..MaxExtra
  BY DEF Retry, Others, IInv, TypeOK
<1> HIDE DEF t
<1> QED
  BY <1>1, <1>2, <1>3, TaskStep

LEMMA RedeliverInv == ASSUME IInv, NEW s \in Slots, Redeliver(s) PROVE IInv'
<1> DEFINE t == Message(tasks[s].retries)
<1>1. t \in Tasks /\ TaskFits(t, row)
  BY TaskTypes, AssessmentAssumption DEF IInv, Redeliver, Tasks, Rows, TaskFits, Message
<1>2. tasks' = [tasks EXCEPT ![s] = t]
  BY DEF Redeliver
<1>3. UNCHANGED <<row, reporter, analyst, overtaken, crossed>> /\ extra' \in 0..MaxExtra
  BY AssessmentAssumption DEF Redeliver, IInv, TypeOK
<1> HIDE DEF t
<1> QED
  BY <1>1, <1>2, <1>3, TaskStep

LEMMA ResendInv == ASSUME IInv, NEW s \in Slots, Resend(s) PROVE IInv'
<1> DEFINE t == Message(0)
<1>1. t \in Tasks /\ TaskFits(t, row)
  BY TaskTypes, AssessmentAssumption DEF IInv, Resend, Tasks, Rows, RowFits, TaskFits, Message
<1>2. tasks' = [tasks EXCEPT ![s] = t]
  BY DEF Resend, Send
<1>3. UNCHANGED <<row, reporter, analyst, overtaken, crossed>> /\ extra' \in 0..MaxExtra
  BY AssessmentAssumption DEF Resend, IInv, TypeOK
<1> HIDE DEF t
<1> QED
  BY <1>1, <1>2, <1>3, TaskStep

LEMMA HostedFailsInv == ASSUME IInv, NEW s \in Slots, HostedFails(s) PROVE IInv'
<1> DEFINE t == [tasks[s] EXCEPT !.pc = "local"]
<1>1. t \in Tasks /\ TaskFits(t, row)
  BY TaskTypes, AssessmentAssumption DEF IInv, HostedFails, At, Tasks, Rows, TaskFits
<1>2. tasks' = [tasks EXCEPT ![s] = t]
  BY DEF HostedFails, Goto
<1>3. UNCHANGED <<row, reporter, analyst, overtaken, crossed>> /\ extra' \in 0..MaxExtra
  BY DEF HostedFails, Others, IInv, TypeOK
<1> HIDE DEF t
<1> QED
  BY <1>1, <1>2, <1>3, TaskStep

\* A step that changes the row and one task, and neither the requests nor the photo.
LEMMA RowStep ==
    ASSUME IInv, UNCHANGED <<reporter, analyst, extra, crossed>>, overtaken' \in BOOLEAN,
           NEW s \in Slots, NEW t \in Tasks, tasks' = [tasks EXCEPT ![s] = t],
           NEW r \in Rows, row' = r,
           r.photo = row.photo, r.urgent = row.urgent, r.asked = row.asked, r.answered = row.answered,
           TaskFits(t, row), RowFits(r), PriorityFits', Assessed'
    PROVE  IInv'
<1>1. tasks' \in [Slots -> Tasks] /\ \A q \in Slots : tasks'[q] = IF q = s THEN t ELSE tasks[q]
  BY DEF IInv, TypeOK, Tasks
<1>2. TypeOK'
  BY <1>1 DEF IInv, TypeOK, Tasks, Rows
<1>3. \A q \in Slots : TaskFits(tasks[q], row)'
  BY <1>1 DEF IInv, TaskFits
<1>4. RequestsFit' /\ RepliesFit'
  BY DEF IInv, RequestsFit, RepliesFit
<1> QED
  BY <1>2, <1>3, <1>4 DEF IInv, RowFits

LEMMA HashInv == ASSUME IInv, NEW s \in Slots, Hash(s) PROVE IInv'
<1> DEFINE t == [tasks[s] EXCEPT !.pc = "hosted", !.hash = tasks[s].photo]
           r == [row EXCEPT !.phash = tasks[s].photo]
           u == [tasks[s] EXCEPT !.pc = "hosted"]
<1>1. CASE tasks' = [tasks EXCEPT ![s] = t] /\ row' = r /\ Stale(s)
  <2>1. t \in Tasks /\ TaskFits(t, row)
    BY TaskTypes, AssessmentAssumption DEF IInv, Hash, At, Tasks, Rows, TaskFits
  <2>2. r \in Rows /\ RowFits(r) /\ r.photo = row.photo /\ r.urgent = row.urgent
        /\ r.asked = row.asked /\ r.answered = row.answered
    BY TaskTypes DEF IInv, Rows, Tasks, RowFits
  <2>3. UNCHANGED <<reporter, analyst, extra, crossed>> /\ overtaken' \in BOOLEAN
    BY <1>1 DEF Hash, Others, Stale, IInv, TypeOK
  <2>4. PriorityFits'
    BY <1>1, TaskTypes DEF IInv, PriorityFits, Rows
  <2>5. Assessed'
    <3>1. row.photo \in Nat /\ tasks[s].photo \in Nat /\ tasks[s].photo <= row.photo
      BY TaskTypes, AssessmentAssumption DEF IInv, TaskFits, Rows, Tasks
    <3>2. row'.status = row.status /\ row'.ai = row.ai /\ row'.photo = row.photo
          /\ row'.phash = tasks[s].photo
      BY <1>1, TaskTypes DEF IInv, Rows
    <3>3. ~overtaken' => ~overtaken /\ tasks[s].photo = row.photo
      <4>1. ~overtaken' => ~overtaken /\ ~(tasks[s].photo < row.photo)
        BY <1>1, Zenon DEF Stale
      <4> QED
        BY <3>1, <4>1
    <3> QED
      BY <3>2, <3>3 DEF IInv, Assessed
  <2> HIDE DEF t, r
  <2> QED
    BY <1>1, <2>1, <2>2, <2>3, <2>4, <2>5, RowStep
<1>2. CASE Goto(s, "hosted") /\ UNCHANGED <<row, overtaken>>
  <2>1. u \in Tasks /\ TaskFits(u, row)
    BY TaskTypes, AssessmentAssumption DEF IInv, Hash, At, Tasks, Rows, TaskFits
  <2>2. tasks' = [tasks EXCEPT ![s] = u]
    BY <1>2 DEF Goto
  <2>3. UNCHANGED <<row, reporter, analyst, overtaken, crossed>> /\ extra' \in 0..MaxExtra
    BY <1>2 DEF Hash, Others, IInv, TypeOK
  <2> HIDE DEF u
  <2> QED
    BY <2>1, <2>2, <2>3, TaskStep
<1> QED
  BY <1>1, <1>2 DEF Hash

LEMMA FinishInv ==
    ASSUME IInv, NEW s \in Slots, tasks[s].pc \in {"hosted", "local"}, Finish(s) PROVE IInv'
<1>1. UNCHANGED <<reporter, analyst, extra, crossed>> /\ overtaken' \in BOOLEAN
  BY DEF Finish, Others, Stale, IInv, TypeOK
<1>2. tasks' = [tasks EXCEPT ![s] = Free] /\ row \in Rows /\ tasks[s] \in Tasks /\ TypeOK
  BY TaskTypes DEF Finish, Done, IInv
<1>3. CASE WriteUnusable(s)
  <2>1. PICK score \in Scores :
            row' = [row EXCEPT !.status = "insufficient_quality",
                               !.priority = AtLeast(Computed(score, 0, FALSE),
                                                    Floor(row.urgent, tasks[s].answered))]
    BY <1>3 DEF WriteUnusable
  <2> DEFINE p == AtLeast(Computed(score, 0, FALSE), Floor(row.urgent, tasks[s].answered))
  <2>2. p \in Priorities /\ (row.urgent => p = "critical") /\ p # "low"
    <3>1. \A c, d : c = 0 /\ d = FALSE =>
              LET q == AtLeast(Computed(score, c, d), Floor(row.urgent, tasks[s].answered))
              IN  q \in Priorities /\ (row.urgent => q = "critical") /\ (q = "low" => c >= 80)
      BY <1>2, ResultFits
    <3>2. p \in Priorities /\ (row.urgent => p = "critical") /\ (p = "low" => 0 >= 80)
      BY <3>1, Zenon
    <3> HIDE DEF p
    <3> QED
      BY <3>2
  <2> HIDE DEF p
  <2> DEFINE r == [row EXCEPT !.status = "insufficient_quality", !.priority = p]
  <2>3. row' = r
    BY <2>1 DEF p
  <2>4. r \in Rows /\ RowFits(r) /\ r.photo = row.photo /\ r.urgent = row.urgent
        /\ r.asked = row.asked /\ r.answered = row.answered
    BY <1>2, <2>2 DEF IInv, Rows, PhotoStatus, RowFits
  <2>5. PriorityFits'
    BY <1>2, <2>2, <2>3 DEF IInv, Rows, PriorityFits
  <2>6. Assessed'
    BY <1>2, <2>3 DEF Rows, Assessed
  <2> HIDE DEF r
  <2> QED
    BY <1>1, <1>2, <2>3, <2>4, <2>5, <2>6, FreeFits, RowStep
<1>4. CASE WriteAssessment(s)
  <2>1. PICK a \in Assessments : row' = [row EXCEPT
            !.ai = [photo |-> tasks[s].photo, confidence |-> a.confidence,
                    divergence |-> a.divergence],
            !.phash = tasks[s].hash,
            !.status = "accepted",
            !.priority = AtLeast(Computed(a.score, a.confidence, a.divergence),
                                 Floor(row.urgent, tasks[s].answered))]
    BY <1>4 DEF WriteAssessment
  <2>2. a.score \in Scores /\ a.confidence \in Confidences /\ a.divergence \in BOOLEAN
    <3>1. PICK sc \in Scores, c \in Confidences, agrees \in BOOLEAN, threshold \in Thresholds :
              a = [score |-> sc, confidence |-> c, divergence |-> Diverges(agrees, c, threshold)]
      BY DEF Assessments
    <3> QED
      BY <3>1 DEF Diverges
  <2> DEFINE p == AtLeast(Computed(a.score, a.confidence, a.divergence),
                          Floor(row.urgent, tasks[s].answered))
  <2>3. /\ p \in Priorities /\ (row.urgent => p = "critical")
        /\ a.divergence => Rank[p] >= Rank["high"]
        /\ p = "low" => a.confidence >= 80 /\ ~a.divergence
    BY <1>2, <2>2, ResultFits DEF Confidences
  <2> HIDE DEF p
  <2> DEFINE ai == [photo |-> tasks[s].photo, confidence |-> a.confidence,
                    divergence |-> a.divergence]
             r == [row EXCEPT !.ai = ai, !.phash = tasks[s].hash, !.status = "accepted",
                              !.priority = p]
  <2>4. row' = r
    BY <2>1 DEF p
  <2>5. r \in Rows /\ RowFits(r) /\ r.photo = row.photo /\ r.urgent = row.urgent
        /\ r.asked = row.asked /\ r.answered = row.answered
    BY <1>2, <2>2, <2>3 DEF IInv, Rows, Tasks, TaskFits, PhotoStatus, RowFits
  <2>6. PriorityFits'
    BY <1>2, <2>2, <2>3, <2>4 DEF IInv, Rows, PriorityFits
  <2>7. Assessed'
    <3>1. row.photo \in Nat /\ tasks[s].photo \in Nat /\ tasks[s].photo <= row.photo
          /\ tasks[s].hash \in {0, tasks[s].photo}
      BY <1>2, AssessmentAssumption DEF IInv, TaskFits, Rows, Tasks
    <3>2. row'.ai.photo = tasks[s].photo /\ row'.photo = row.photo /\ row'.phash = tasks[s].hash
      BY <1>2, <2>4 DEF Rows
    <3>3. ~overtaken' => tasks[s].photo = row.photo
      <4>1. ~overtaken' => ~(tasks[s].photo < row.photo)
        BY Zenon DEF Finish, Stale
      <4> QED
        BY <3>1, <4>1
    <3> QED
      BY <3>1, <3>2, <3>3 DEF Assessed
  <2> HIDE DEF r
  <2> QED
    BY <1>1, <1>2, <2>4, <2>5, <2>6, <2>7, FreeFits, RowStep
<1> QED
  BY <1>3, <1>4 DEF Finish

LEMMA GiveUpInv == ASSUME IInv, NEW s \in Slots, GiveUp(s) PROVE IInv'
<1>1. /\ UNCHANGED <<reporter, analyst, extra, overtaken, crossed>> /\ row \in Rows
      /\ extra' \in 0..MaxExtra /\ overtaken' \in BOOLEAN
      /\ tasks' = [tasks EXCEPT ![s] = Free]
  BY TaskTypes DEF GiveUp, Done, Others, IInv, TypeOK
<1>2. CASE UNCHANGED row
  BY <1>1, <1>2, FreeFits, TaskStep
<1>3. CASE row' = [row EXCEPT !.status = "ai_processing_failed", !.priority = "critical"]
  <2> DEFINE r == [row EXCEPT !.status = "ai_processing_failed", !.priority = "critical"]
  <2>1. r \in Rows /\ RowFits(r) /\ r.photo = row.photo /\ r.urgent = row.urgent
        /\ r.asked = row.asked /\ r.answered = row.answered
    BY <1>1 DEF IInv, Rows, PhotoStatus, Priorities, RowFits
  <2>2. PriorityFits' /\ Assessed'
    BY <1>1, <1>3 DEF Rows, PriorityFits, Assessed, Rank
  <2> HIDE DEF r
  <2> QED
    BY <1>1, <1>3, <2>1, <2>2, FreeFits, RowStep DEF r
<1> QED
  BY <1>2, <1>3 DEF GiveUp

LEMMA UploadInv == ASSUME IInv, NEW s \in Slots, UploadPhoto(s) PROVE IInv'
<1>1. /\ row \in Rows /\ tasks \in [Slots -> Tasks] /\ UNCHANGED <<reporter, analyst, extra, crossed>>
      /\ row' = [row EXCEPT !.photo = row.photo + 1, !.status = "processing"]
      /\ tasks' = [tasks EXCEPT ![s] = Message(0)] /\ overtaken' = FALSE /\ row.photo < MaxPhotos
  BY TaskTypes DEF UploadPhoto, Send, Others, IInv
<1>2. row' \in Rows /\ row'.photo = row.photo + 1
  <2>1. row.photo + 1 \in 0..MaxPhotos
    BY <1>1, AssessmentAssumption DEF Rows
  <2> DEFINE n == row.photo + 1
  <2>2. n \in 0..MaxPhotos /\ row' = [row EXCEPT !.photo = n, !.status = "processing"]
    BY <1>1, <2>1
  <2> HIDE DEF n
  <2>3. row' \in Rows /\ row'.photo = n
    BY <1>1, <2>2 DEF Rows, PhotoStatus
  <2> QED
    BY <2>3 DEF n
<1>3. Message(0) \in Tasks
  BY AssessmentAssumption DEF Message, Tasks
<1>4. TypeOK'
  BY <1>1, <1>2, <1>3 DEF IInv, TypeOK, Rows, Tasks
<1>5. \A q \in Slots : TaskFits(tasks[q], row)'
  BY <1>1, <1>2, AssessmentAssumption DEF IInv, TaskFits, Message, Tasks, Rows
<1>6. RowFits(row)'
  BY <1>1, <1>2 DEF IInv, RowFits, Rows
<1>7. RequestsFit' /\ RepliesFit' /\ Assessed'
  BY <1>1 DEF IInv, RequestsFit, RepliesFit, Assessed, Rows
<1>8. PriorityFits'
  BY <1>1 DEF IInv, PriorityFits, RowFits, Rows
<1> QED
  BY <1>4, <1>5, <1>6, <1>7, <1>8 DEF IInv

\* What the requests change, and what is left of the invariant to show of it.
LEMMA RepliesStep ==
    ASSUME IInv, AnswerLoad \/ AnswerCommit \/ AskLoad \/ AskCommit PROVE RepliesFit'
<1>1. /\ row \in Rows /\ row.asked \in Nat /\ row.answered \in Nat
      /\ reporter.question \in Nat /\ crossed \in BOOLEAN
      /\ analyst.seen \in {"none", "open", "answered"}
  BY AssessmentAssumption DEF IInv, TypeOK, Rows
<1>2. CASE AnswerLoad
  BY <1>1, <1>2 DEF AnswerLoad, IInv, RepliesFit
<1>3. CASE AnswerCommit
  <2>1. row'.asked = row.asked /\ row'.answered = reporter.question
    BY <1>1, <1>3 DEF AnswerCommit, Rows
  <2>2. reporter'.pc = "idle" /\ analyst' = analyst /\ reporter.pc = "answering"
    BY <1>3 DEF AnswerCommit, NoReply
  <2>3. analyst.pc = "asking" => analyst.seen # "none"
    BY DEF IInv, RequestsFit
  <2>4. crossed' <=> crossed \/ analyst.pc = "asking"
    BY <1>3, Zenon DEF AnswerCommit
  <2>5. /\ row.answered = 0 /\ reporter.question >= 1 /\ reporter.question <= row.asked
        /\ ~crossed => reporter.question = row.asked
        /\ crossed => reporter.question < row.asked
        /\ analyst.pc = "asking" => analyst.seen = "open"
    BY <1>1, <2>2, <2>3 DEF IInv, RepliesFit
  <2> QED
    BY <1>1, <2>1, <2>2, <2>4, <2>5 DEF RepliesFit
<1>4. CASE AskLoad
  BY <1>1, <1>4 DEF AskLoad, IInv, RepliesFit
<1>5. CASE AskCommit
  <2>1. /\ row'.asked = row.asked + 1
        /\ row'.answered = IF analyst.seen = "answered" THEN 0 ELSE row.answered
    BY <1>1, <1>5 DEF AskCommit, Rows
  <2>2. reporter' = reporter /\ analyst'.pc = "idle" /\ analyst.pc = "asking"
    BY <1>5 DEF AskCommit, NoRequest
  <2>3. analyst.seen \in {"open", "answered"}
    BY <1>1, <2>2 DEF IInv, RequestsFit
  <2>4. crossed' <=> reporter.pc = "answering" \/ (crossed /\ analyst.seen # "answered")
    BY <1>5, Zenon DEF AskCommit, Crosses
  <2>5. CASE reporter.pc = "answering"
    <3>1. /\ row.answered = 0 /\ reporter.question >= 1 /\ reporter.question <= row.asked
          /\ analyst.seen = "open" /\ row'.answered = 0
      BY <1>1, <2>1, <2>2, <2>3, <2>5 DEF IInv, RepliesFit
    <3> QED
      BY <1>1, <2>1, <2>2, <2>4, <2>5, <3>1 DEF RepliesFit
  <2>6. CASE reporter.pc # "answering" /\ analyst.seen = "answered"
    BY <1>1, <2>1, <2>2, <2>4, <2>6 DEF RepliesFit
  <2>7. CASE reporter.pc # "answering" /\ analyst.seen = "open"
    <3>1. /\ row.answered <= row.asked
          /\ ~crossed => row.answered = 0
          /\ crossed => row.answered # 0
      BY <1>1, <2>2, <2>7 DEF IInv, RepliesFit
    <3> QED
      BY <1>1, <2>1, <2>2, <2>4, <2>7, <3>1 DEF RepliesFit
  <2> QED
    BY <2>3, <2>5, <2>6, <2>7
<1> QED
  BY <1>2, <1>3, <1>4, <1>5

LEMMA RequestInv ==
    ASSUME IInv, AnswerLoad \/ AnswerCommit \/ AskLoad \/ AskCommit PROVE IInv'
<1>1. row \in Rows /\ tasks \in [Slots -> Tasks]
  BY DEF IInv, TypeOK, Rows, Tasks
<1>2. CASE AnswerLoad
  <2>1. row' = row /\ tasks' = tasks /\ RepliesFit'
    BY <1>2, RepliesStep DEF AnswerLoad
  <2> QED
    BY <1>1, <1>2, <2>1
       DEF AnswerLoad, IInv, TypeOK, TaskFits, RowFits, RequestsFit, PriorityFits, Assessed, Rows
<1>3. CASE AnswerCommit
  <2> DEFINE p == IF Rank[reporter.seen] < Rank["high"] THEN "high" ELSE row.priority
  <2>1. /\ p \in Priorities /\ (row.urgent => p = "critical") /\ p \in {"high", row.priority}
    BY <1>1, <1>3 DEF AnswerCommit, IInv, RequestsFit, PriorityFits, Rows, Priorities, Rank
  <2> HIDE DEF p
  <2>2. row' = [row EXCEPT !.answered = reporter.question, !.priority = p] /\ reporter' = NoReply
        /\ UNCHANGED <<tasks, analyst, extra, overtaken>>
    BY <1>3 DEF AnswerCommit, p
  <2>3. row' \in Rows
    <3>1. reporter.question \in 0..MaxQuestions
      BY DEF IInv, TypeOK
    <3> QED
      BY <1>1, <2>1, <2>2, <3>1 DEF Rows
  <2>4. TypeOK'
    <3>1. crossed' \in BOOLEAN
      BY <1>3 DEF AnswerCommit, IInv, TypeOK
    <3> QED
      BY <2>2, <2>3, <3>1, AssessmentAssumption DEF IInv, TypeOK, Rows, NoReply
  <2>5. (\A q \in Slots : TaskFits(tasks[q], row)') /\ RowFits(row)' /\ RequestsFit' /\ Assessed'
    BY <1>1, <2>2 DEF IInv, TaskFits, RowFits, RequestsFit, Assessed, Rows, NoReply
  <2>6. PriorityFits'
    BY <1>1, <2>1, <2>2 DEF IInv, PriorityFits, Rows, Rank
  <2> QED
    BY <1>3, <2>4, <2>5, <2>6, <2>2, RepliesStep DEF IInv
<1>4. CASE AskLoad
  <2>1. row' = row /\ tasks' = tasks /\ RepliesFit'
    BY <1>4, RepliesStep DEF AskLoad
  <2> QED
    BY <1>1, <1>4, <2>1
       DEF AskLoad, IInv, TypeOK, TaskFits, RowFits, RequestsFit, PriorityFits, Assessed, Rows
<1>5. CASE AskCommit
  <2> DEFINE n == IF analyst.seen = "answered" THEN 0 ELSE row.answered
  <2>1. n \in 0..MaxQuestions /\ row.asked < MaxQuestions
    BY <1>1, <1>5, AssessmentAssumption DEF AskCommit, IInv, RequestsFit, Rows
  <2> HIDE DEF n
  <2>2. row' = [row EXCEPT !.asked = row.asked + 1, !.answered = n] /\ analyst' = NoRequest
        /\ UNCHANGED <<tasks, reporter, extra, overtaken>>
    BY <1>5 DEF AskCommit, n
  <2>3. row' \in Rows
    <3>1. row.asked + 1 \in 0..MaxQuestions
      BY <1>1, <2>1, AssessmentAssumption DEF Rows
    <3> DEFINE m == row.asked + 1
    <3>2. m \in 0..MaxQuestions /\ row' = [row EXCEPT !.asked = m, !.answered = n]
      BY <2>2, <3>1
    <3> HIDE DEF m
    <3> QED
      BY <1>1, <2>1, <3>2 DEF Rows
  <2>4. TypeOK'
    <3>1. crossed' \in BOOLEAN
      BY <1>5 DEF AskCommit, Crosses, IInv, TypeOK
    <3> QED
      BY <2>2, <2>3, <3>1 DEF IInv, TypeOK, Rows, NoRequest
  <2>5. (\A q \in Slots : TaskFits(tasks[q], row)') /\ RowFits(row)' /\ RequestsFit' /\ Assessed'
    BY <1>1, <2>2 DEF IInv, TaskFits, RowFits, RequestsFit, Assessed, Rows, NoRequest
  <2>6. PriorityFits'
    BY <1>1, <2>2 DEF IInv, PriorityFits, Rows
  <2> QED
    BY <1>5, <2>4, <2>5, <2>6, <2>2, RepliesStep DEF IInv
<1> QED
  BY <1>2, <1>3, <1>4, <1>5

LEMMA StepInv == ASSUME IInv, [Next]_vars PROVE IInv'
<1>1. CASE UNCHANGED vars
  BY <1>1 DEF vars, IInv, TypeOK, TaskFits, RowFits, RequestsFit, RepliesFit, PriorityFits, Assessed
<1>2. ASSUME NEW s \in Slots, Step(s) PROVE IInv'
  <2>1. CASE HostedAnswers(s) \/ LocalAnswers(s)
    BY <2>1, FinishInv DEF HostedAnswers, LocalAnswers, At
  <2> QED
    BY <1>2, <2>1, LoadInv, HashInv, HostedFailsInv, RetryInv, GiveUpInv DEF Step
<1> QED
  BY <1>1, <1>2, RedeliverInv, ResendInv, UploadInv, RequestInv DEF Next

LEMMA Invariance == Spec => []IInv
  BY InitInv, StepInv, PTL DEF Spec

-----------------------------------------------------------------------------
(* The theorems. *)

\* Type correctness: the state of the AI worker's model stays within its types.
THEOREM TypeCorrect == Spec => []TypeOK
<1>1. IInv => TypeOK
  BY DEF IInv
<1> QED
  BY <1>1, Invariance, PTL

\* The analyst queue's priority fits what is known of the report, whatever tasks of
\* whatever photo ended last (_compute_review_priority under _apply_priority_floor).
THEOREM PrioritySound == Spec => []PriorityFits
<1>1. IInv => PriorityFits
  BY DEF IInv
<1> QED
  BY <1>1, Invariance, PTL

\* An accepted photo is the one that was hashed and assessed, unless a task wrote for
\* an older one since (the UPDATEs of _process_report_image_impl).
THEOREM AcceptedAreAssessed == Spec => []AcceptedIsAssessed
<1>1. IInv => AcceptedIsAssessed
  BY DEF IInv, Assessed, AcceptedIsAssessed
<1> QED
  BY <1>1, Invariance, PTL

\* A reply keeps a report high, but for a task that had read the row before the reply.
THEOREM RepliesStayHigh == Spec => RepliedStaysHigh
<1> DEFINE A == row.answered # 0 /\ Rank[row.priority] >= Rank["high"]
                /\ Rank[row'.priority] < Rank["high"] /\ row'.answered # 0
                => \E s \in Slots : tasks[s].pc \in {"hosted", "local"} /\ ~tasks[s].answered
                                    /\ tasks'[s] = Free
<1>1. ASSUME IInv, [Next]_vars PROVE [A]_vars
  <2> SUFFICES ASSUME Next, row'.priority # row.priority, Rank[row'.priority] < Rank["high"]
               PROVE  \E s \in Slots : tasks[s].pc \in {"hosted", "local"} /\ ~tasks[s].answered
                                       /\ tasks'[s] = Free
    <3>1. row.priority \in Priorities /\ row'.priority \in Priorities
      BY <1>1, StepInv DEF IInv, TypeOK
    <3>2. Rank[row.priority] \in Nat
      BY <3>1 DEF Rank, Priorities
    <3>3. row'.priority = row.priority => Rank[row'.priority] = Rank[row.priority]
      OBVIOUS
    <3>4. row'.priority # row.priority => Next
      BY <1>1 DEF vars
    <3>5. Rank["high"] = 2
      BY DEF Rank
    <3> QED
      BY <3>2, <3>3, <3>4, <3>5
  <2>1. row \in Rows /\ tasks \in [Slots -> Tasks]
    BY <1>1 DEF IInv, TypeOK, Rows, Tasks
  <2>2. ASSUME NEW s \in Slots, HostedAnswers(s) \/ LocalAnswers(s)
        PROVE  tasks[s].pc \in {"hosted", "local"} /\ ~tasks[s].answered /\ tasks'[s] = Free
    <3>1. tasks[s].pc \in {"hosted", "local"} /\ tasks'[s] = Free
      BY <2>1, <2>2 DEF HostedAnswers, LocalAnswers, At, Finish, Done
    <3>2. PICK sc \in Scores : \E c \in Confidences \cup {0}, d \in BOOLEAN :
              (c = 0 => ~d) /\ row'.priority = AtLeast(Computed(sc, c, d), Floor(row.urgent, tasks[s].answered))
      <4>1. CASE WriteUnusable(s)
        <5>1. PICK score \in Scores :
                  row'.priority = AtLeast(Computed(score, 0, FALSE), Floor(row.urgent, tasks[s].answered))
          BY <2>1, <4>1 DEF WriteUnusable, Rows
        <5>2. 0 \in Confidences \cup {0} /\ FALSE \in BOOLEAN
          OBVIOUS
        <5> QED
          BY <5>1, <5>2, Zenon
      <4>2. CASE WriteAssessment(s)
        <5>1. PICK a \in Assessments :
                  row'.priority = AtLeast(Computed(a.score, a.confidence, a.divergence),
                                          Floor(row.urgent, tasks[s].answered))
          BY <2>1, <4>2 DEF WriteAssessment, Rows
        <5>2. PICK sc \in Scores, c \in Confidences, agrees \in BOOLEAN, threshold \in Thresholds :
                  a = [score |-> sc, confidence |-> c, divergence |-> Diverges(agrees, c, threshold)]
          BY DEF Assessments
        <5>3. a.score = sc /\ a.confidence = c /\ a.divergence \in BOOLEAN /\ c # 0
          BY <5>2 DEF Diverges, Confidences
        <5> QED
          BY <5>1, <5>3
      <4> QED
        BY <2>2, <4>1, <4>2 DEF HostedAnswers, LocalAnswers, Finish
    <3>3. tasks[s].answered => Rank[row'.priority] >= Rank["high"]
      BY <1>1, <3>2, ResultFits DEF IInv
    <3>4. row'.priority \in Priorities
      BY <1>1, <3>2, ResultFits DEF IInv
    <3> QED
      BY <3>1, <3>3, <3>4 DEF Rank, Priorities
  <2>3. ASSUME NEW s \in Slots,
               Load(s) \/ Hash(s) \/ HostedFails(s) \/ Retry(s) \/ Redeliver(s) \/ Resend(s) \/ UploadPhoto(s)
        PROVE  FALSE
    BY <2>1, <2>3 DEF Load, Hash, HostedFails, Retry, Redeliver, Resend, UploadPhoto, Rows
  <2>4. ASSUME NEW s \in Slots, GiveUp(s) PROVE FALSE
    <3>1. row'.priority \in {row.priority, "critical"}
      BY <2>1, <2>4 DEF GiveUp, Rows
    <3> QED
      BY <3>1 DEF Rank
  <2>5. CASE AnswerLoad \/ AnswerCommit \/ AskLoad \/ AskCommit
    <3>1. row'.priority \in {row.priority, "high"}
      BY <2>1, <2>5 DEF AnswerLoad, AnswerCommit, AskLoad, AskCommit, Rows
    <3> QED
      BY <3>1 DEF Rank
  <2> QED
    BY <2>2, <2>3, <2>4, <2>5 DEF Next, Step
<1> QED
  BY <1>1, Invariance, PTL DEF Spec, RepliedStaysHigh

\* The assessment of the photo the report has is lost only to a task that had loaded an
\* older photo; its hash is lost to such a task, and to a second task of the same photo
\* whose own hash failed (the last UPDATE of _process_report_image_impl).
THEOREM NewerResultsStay == Spec => NewerResultsKept
<1> DEFINE A == row'.photo = row.photo /\ row.photo # 0 =>
                /\ row.ai.photo = row.photo /\ row'.ai.photo # row.photo
                     => \E s \in Slots : WritesLate(s)
                /\ row.phash = row.photo /\ row'.phash # row.photo
                     => \E s \in Slots : WritesLate(s) \/ (row'.phash = 0 /\ EndsUnhashed(s))
<1>1. ASSUME IInv, [Next]_vars PROVE [A]_vars
  <2>1. row \in Rows /\ tasks \in [Slots -> Tasks] /\ \A s \in Slots : TaskFits(tasks[s], row)
    BY <1>1 DEF IInv, TypeOK, Rows, Tasks
  <2> DEFINE LosesAssessment == row.ai.photo = row.photo /\ row'.ai.photo # row.photo
             LosesHash == row.phash = row.photo /\ row'.phash # row.photo
  <2>2. ASSUME NEW s \in Slots, HostedAnswers(s) \/ LocalAnswers(s)
        PROVE  /\ LosesAssessment => WritesLate(s)
               /\ LosesHash => WritesLate(s) \/ (row'.phash = 0 /\ EndsUnhashed(s))
    <3>1. tasks[s].pc \in {"hosted", "local"} /\ tasks'[s] = Free
      BY <2>1, <2>2 DEF HostedAnswers, LocalAnswers, At, Finish, Done
    <3>2. CASE WriteUnusable(s)
      BY <2>1, <3>2 DEF WriteUnusable, Rows
    <3>3. CASE WriteAssessment(s)
      <4>1. row'.ai.photo = tasks[s].photo /\ row'.phash = tasks[s].hash
        BY <2>1, <3>3 DEF WriteAssessment, Rows
      <4>2. tasks[s] \in Tasks /\ TaskFits(tasks[s], row)
        BY <2>1
      <4>3. tasks'[s] # tasks[s]
        BY <3>1 DEF Free, Message
      <4>4. row.photo \in Nat /\ tasks[s].photo \in Nat /\ tasks[s].photo \in 1..row.photo
        BY <2>1, <3>1, <4>2, AssessmentAssumption DEF TaskFits, Tasks, Rows
      <4>5. CASE tasks[s].photo # row.photo
        BY <4>3, <4>4, <4>5 DEF WritesLate
      <4>6. CASE tasks[s].photo = row.photo
        BY <3>1, <4>1, <4>2, <4>6 DEF EndsUnhashed, TaskFits
      <4> QED
        BY <4>5, <4>6
    <3> QED
      BY <2>2, <3>2, <3>3 DEF HostedAnswers, LocalAnswers, Finish
  <2>3. ASSUME NEW s \in Slots, Hash(s), LosesAssessment \/ LosesHash
        PROVE  WritesLate(s)
    <3>1. tasks[s] \in Tasks /\ TaskFits(tasks[s], row) /\ tasks[s].pc = "download" /\ tasks'[s].pc = "hosted"
      BY <2>1, <2>3 DEF Hash, At, Goto, Tasks
    <3>2. row'.ai = row.ai /\ row'.phash \in {row.phash, tasks[s].photo}
      BY <2>1, <2>3 DEF Hash, Rows
    <3> QED
      BY <2>1, <2>3, <3>1, <3>2, AssessmentAssumption DEF WritesLate, TaskFits, Tasks, Rows
  <2>4. ASSUME NEW s \in Slots,
               Load(s) \/ HostedFails(s) \/ Retry(s) \/ GiveUp(s) \/ Redeliver(s) \/ Resend(s)
               \/ UploadPhoto(s),
               row'.photo = row.photo
        PROVE  ~LosesAssessment /\ ~LosesHash
    BY <2>1, <2>4 DEF Load, HostedFails, Retry, GiveUp, Redeliver, Resend, UploadPhoto, Rows
  <2>5. CASE AnswerLoad \/ AnswerCommit \/ AskLoad \/ AskCommit
    <3>1. ~LosesAssessment /\ ~LosesHash
      BY <2>1, <2>5 DEF AnswerLoad, AnswerCommit, AskLoad, AskCommit, Rows
    <3> QED
      BY <3>1
  <2>6. CASE \E s \in Slots : Step(s) \/ Redeliver(s) \/ Resend(s) \/ UploadPhoto(s)
    <3> PICK s \in Slots : Step(s) \/ Redeliver(s) \/ Resend(s) \/ UploadPhoto(s)
      BY <2>6
    <3> HIDE DEF LosesAssessment, LosesHash
    <3>1. row'.photo = row.photo =>
              /\ LosesAssessment => WritesLate(s)
              /\ LosesHash => WritesLate(s) \/ (row'.phash = 0 /\ EndsUnhashed(s))
      BY <2>2, <2>3, <2>4 DEF Step
    <3> QED
      BY <3>1, Zenon DEF LosesAssessment, LosesHash
  <2> QED
    BY <1>1, <2>5, <2>6 DEF Next
<1> QED
  BY <1>1, Invariance, PTL DEF Spec, NewerResultsKept

\* The reply of the row answers the question of the row, unless a reply and a new question
\* were under way at once: then it does not, and will not until the analyst asks again
\* (add_reporter_followup, request_more_info).
THEOREM RepliesAnswer == Spec => []ReplyFitsQuestion
<1>1. ASSUME IInv PROVE ReplyFitsQuestion
  <2>1. row.answered \in Nat /\ row.asked \in Nat
    BY <1>1, AssessmentAssumption DEF IInv, TypeOK
  <2> QED
    BY <1>1, <2>1 DEF IInv, RepliesFit, ReplyFitsQuestion
<1> QED
  BY <1>1, Invariance, PTL

-----------------------------------------------------------------------------
(* Calibration: what the invariant says. *)

Levels == {None, 50, 60, 70}
HistoryEntries == [stamp : Nat, old : Levels, new : Levels]
RequestType == [pc : {"idle", "prev", "threshold", "stamp", "push", "trim"},
                stamp : Nat, old : Levels, new : Levels]

CalibrationTypes ==
    /\ feedback \in [agree : Nat, disagree : Nat, unsure : Nat]
    /\ redis \in [threshold : Levels, stamp : Nat, history : Seq(HistoryEntries)]
    /\ requests \in [Requests -> RequestType]
    /\ started \in Nat /\ faults \in Nat /\ busiest \in Nat

\* No more are writing than ever were, and calibrations that did not overlap were never
\* two at a time.
Busy == Cardinality(Writing) <= busiest
Alone ==
    busiest <= 1 => \A p, q \in Requests : AtStep(p, "idle") \/ AtStep(q, "idle") \/ p = q

Chained(history) == \A i \in 1..(Len(history) - 1) : history[i].old = history[i + 1].new

\* Between calibrations, and at each step of one, what the history lacks.
QuietFits(h) ==
    Quiet => /\ Len(h) <= HistoryMax /\ (started > 0 => Len(h) >= 1)
             /\ Len(h) >= 1 => h[1].new = redis.threshold /\ h[1].stamp = redis.stamp
StepFits(q, h) ==
    /\ requests[q].pc \in {"prev", "threshold", "stamp", "push"} => Len(h) <= HistoryMax
    /\ requests[q].pc \in {"prev", "threshold"} => (Len(h) >= 1 => h[1].new = redis.threshold)
    /\ requests[q].pc = "threshold" => requests[q].old = redis.threshold
    /\ requests[q].pc \in {"stamp", "push"} =>
           redis.threshold = requests[q].new /\ (Len(h) >= 1 => h[1].new = requests[q].old)
    /\ requests[q].pc = "push" => redis.stamp = requests[q].stamp
    /\ requests[q].pc = "trim" => /\ Len(h) \in 1..(HistoryMax + 1)
                                  /\ h[1].new = redis.threshold /\ h[1].stamp = redis.stamp

HistoryFits ==
    faults = 0 /\ busiest <= 1 =>
        /\ Chained(redis.history) /\ QuietFits(redis.history)
        /\ \A q \in Requests : StepFits(q, redis.history)

\* What a calibration that saw all the feedback is about to write, or has written.
CurrentFits ==
    faults = 0 /\ busiest <= 1 /\ current =>
        /\ Quiet => redis.threshold = Recommended(feedback)
        /\ \A q \in Requests :
               /\ ~AtStep(q, "idle") => requests[q].new = Recommended(feedback)
               /\ requests[q].pc \in {"stamp", "push", "trim"} => redis.threshold = Recommended(feedback)

\* Those that have set the threshold and not appended it yet.
Pending == {q \in Requests : requests[q].pc \in {"stamp", "push"}}

\* The entry of the threshold in force is so near the front that those who are still to
\* append cannot push it out.
RecordedFits ==
    redis.threshold # None /\ faults = 0 /\ busiest <= HistoryMax =>
        \/ \E q \in Pending : requests[q].new = redis.threshold
        \/ \E i \in 1..Len(redis.history) :
               /\ redis.history[i].new = redis.threshold
               /\ i + Cardinality(Pending) <= busiest

CalibrationInv == CalibrationTypes /\ Busy /\ Alone /\ HistoryFits /\ CurrentFits /\ RecordedFits

-----------------------------------------------------------------------------
(* Calibration: thresholds, the history and the steps of a request. *)

LEMMA RecommendedFits ==
    ASSUME NEW f \in [agree : Nat, disagree : Nat, unsure : Nat]
    PROVE  /\ Recommended(f) \in {50, 60, 70}
           /\ Recommended(f) = IF 100 * f.agree >= 85 * (f.agree + f.disagree) THEN 70
                               ELSE IF 100 * f.agree >= 70 * (f.agree + f.disagree) THEN 60 ELSE 50
<1> DEFINE a == f.agree
           n == f.agree + f.disagree
<1>1. a \in Nat /\ n \in Nat
  OBVIOUS
<1>2. Recommended(f) = CASE 100 * a >= 85 * n -> 70
                         [] 100 * a < 85 * n /\ 100 * a >= 70 * n -> 60
                         [] 100 * a < 70 * n -> 50
  BY DEF Recommended, Sure
<1> HIDE DEF a, n
<1>3. CASE 100 * a >= 85 * n
  BY <1>1, <1>2, <1>3 DEF a, n
<1>4. CASE 100 * a < 85 * n /\ 100 * a >= 70 * n
  BY <1>1, <1>2, <1>4 DEF a, n
<1>5. CASE 100 * a < 70 * n
  BY <1>1, <1>2, <1>5 DEF a, n
<1> QED
  BY <1>1, <1>3, <1>4, <1>5

\* LPUSH and LTRIM.
LEMMA PushedFits ==
    ASSUME NEW h \in Seq(HistoryEntries), NEW e \in HistoryEntries
    PROVE  /\ <<e>> \o h \in Seq(HistoryEntries) /\ Len(<<e>> \o h) = Len(h) + 1
           /\ (<<e>> \o h)[1] = e /\ \A i \in 1..Len(h) : (<<e>> \o h)[i + 1] = h[i]
<1>1. <<e>> \in Seq(HistoryEntries) /\ Len(<<e>>) = 1 /\ <<e>>[1] = e /\ Len(h) \in Nat
  OBVIOUS
<1>2. /\ <<e>> \o h \in Seq(HistoryEntries)
      /\ Len(<<e>> \o h) = Len(<<e>>) + Len(h)
      /\ \A i \in 1..(Len(<<e>>) + Len(h)) :
             (<<e>> \o h)[i] = IF i <= Len(<<e>>) THEN <<e>>[i] ELSE h[i - Len(<<e>>)]
  BY <1>1, ConcatProperties
<1> QED
  BY <1>1, <1>2

LEMMA KeptFits ==
    ASSUME NEW h \in Seq(HistoryEntries)
    PROVE  /\ Kept(h) \in Seq(HistoryEntries)
           /\ Len(Kept(h)) = (IF Len(h) > HistoryMax THEN HistoryMax ELSE Len(h))
           /\ \A i \in 1..Len(Kept(h)) : Kept(h)[i] = h[i]
<1> DEFINE n == IF Len(h) > HistoryMax THEN HistoryMax ELSE Len(h)
<1>1. n \in Nat /\ n <= Len(h) /\ Len(h) \in Nat /\ Kept(h) = SubSeq(h, 1, n)
  BY CalibrationAssumption DEF Kept
<1>2. \A i \in 1..n : h[i] \in HistoryEntries
  BY <1>1
<1> HIDE DEF n
<1>3. /\ SubSeq(h, 1, n) \in Seq(HistoryEntries)
      /\ Len(SubSeq(h, 1, n)) = IF 1 <= n THEN n - 1 + 1 ELSE 0
      /\ \A i \in 1..(n - 1 + 1) : SubSeq(h, 1, n)[i] = h[1 + i - 1]
  BY <1>1, <1>2, SubSeqProperties
<1>4. Len(Kept(h)) = n
  BY <1>1, <1>3
<1> QED
  BY <1>1, <1>3, <1>4 DEF n

\* A request that becomes another leaves the others alone.
LEMMA RequestStep ==
    ASSUME CalibrationTypes, NEW q \in Requests, NEW t \in RequestType, requests' = [requests EXCEPT ![q] = t]
    PROVE  /\ requests' \in [Requests -> RequestType] /\ requests'[q] = t
           /\ \A p \in Requests : p # q => requests'[p] = requests[p]
  BY DEF CalibrationTypes

LEMMA ProceedFits ==
    ASSUME CalibrationTypes, NEW q \in Requests,
           NEW step \in {"idle", "prev", "threshold", "stamp", "push", "trim"}, Proceed(q, step)
    PROVE  /\ requests' \in [Requests -> RequestType] /\ requests'[q].pc = step
           /\ requests'[q].stamp = requests[q].stamp /\ requests'[q].old = requests[q].old
           /\ requests'[q].new = requests[q].new
           /\ \A p \in Requests : p # q => requests'[p] = requests[p]
<1> DEFINE t == [requests[q] EXCEPT !.pc = step]
<1>1. t \in RequestType /\ t.pc = step /\ t.stamp = requests[q].stamp /\ t.old = requests[q].old
      /\ t.new = requests[q].new
  BY DEF CalibrationTypes, RequestType
<1>2. requests' = [requests EXCEPT ![q] = t]
  BY DEF Proceed
<1> HIDE DEF t
<1> QED
  BY <1>1, <1>2, RequestStep

LEMMA IdleFits == Idle \in RequestType /\ Idle.pc = "idle"
  BY DEF Idle, RequestType, Levels, None

-----------------------------------------------------------------------------
(* Calibration: what the steps have in common. *)

\* A failed command ends what the invariant promises of the history.
LEMMA FaultsEndIt ==
    ASSUME faults \in Nat, faults' = faults + 1
    PROVE  HistoryFits' /\ CurrentFits' /\ RecordedFits'
<1>1. faults' # 0
  OBVIOUS
<1> QED
  BY <1>1 DEF HistoryFits, CurrentFits, RecordedFits

\* The number of calibrations that are writing.
LEMMA WritingCounts ==
    /\ Cardinality(Writing) \in Nat
    /\ \A q \in Requests \ Writing : Cardinality(Writing \cup {q}) = Cardinality(Writing) + 1
    /\ \A S \in SUBSET Writing : Cardinality(S) \in Nat /\ Cardinality(S) <= Cardinality(Writing)
    /\ Cardinality(Writing) = 0 => Writing = {}
<1>1. IsFiniteSet(Writing)
  BY CalibrationAssumption, FS_Subset DEF Writing
<1>2. \A S \in SUBSET Writing : Cardinality(S) \in Nat /\ Cardinality(S) <= Cardinality(Writing)
  BY <1>1, FS_Subset, FS_CardinalityType
<1> QED
  BY <1>1, <1>2, FS_AddElement, FS_CardinalityType, FS_EmptySet

LEMMA OthersIdle ==
    ASSUME Alone, busiest <= 1, NEW q \in Requests, requests[q].pc # "idle"
    PROVE  \A p \in Requests : p # q => requests[p].pc = "idle"
  BY DEF Alone, AtStep

\* A step of a calibration under way.
LEMMA AloneKept ==
    ASSUME CalibrationTypes, Busy, Alone, NEW q \in Requests, requests[q].pc # "idle", busiest' = busiest,
           \A p \in Requests : p # q => requests'[p] = requests[p]
    PROVE  /\ Alone' /\ Busy'
           /\ busiest' <= 1 => \A p \in Requests : p # q => requests'[p].pc = "idle"
<1>1. busiest' <= 1 => \A p \in Requests : p # q => requests'[p].pc = "idle"
  BY OthersIdle
<1>2. Writing' \in SUBSET Writing
  BY DEF Writing, AtStep
<1>3. Cardinality(Writing') \in Nat /\ Cardinality(Writing') <= Cardinality(Writing)
  BY <1>2, WritingCounts
<1>4. Busy'
  <2> HIDE DEF Writing
  <2> QED
    BY <1>3, WritingCounts DEF Busy, CalibrationTypes
<1> QED
  BY <1>1, <1>4 DEF Alone, AtStep

\* One calibration at a time: only its own step has to be looked at.
LEMMA HistoryOfOne ==
    ASSUME NEW q \in Requests,
           busiest' <= 1 => \A p \in Requests : p # q => requests'[p].pc = "idle",
           faults' = 0 /\ busiest' <= 1 =>
               /\ Chained(redis.history)' /\ StepFits(q, redis.history)'
               /\ requests'[q].pc = "idle" => QuietFits(redis.history)'
    PROVE  HistoryFits'
<1>1. \A p \in Requests : requests'[p].pc = "idle" => StepFits(p, redis.history)'
  BY DEF StepFits
<1>2. requests'[q].pc # "idle" => QuietFits(redis.history)'
  BY DEF QuietFits, Quiet, AtStep
<1> QED
  BY <1>1, <1>2 DEF HistoryFits

LEMMA CurrentOfOne ==
    ASSUME CurrentFits, NEW q \in Requests, requests[q].pc # "idle",
           current' = current, feedback' = feedback, busiest' = busiest, faults' = faults,
           busiest' <= 1 => \A p \in Requests : p # q => requests'[p].pc = "idle",
           requests'[q].pc # "idle" => requests'[q].new = requests[q].new,
           \/ redis'.threshold = requests[q].new
           \/ /\ redis'.threshold = redis.threshold
              /\ \/ requests[q].pc \in {"stamp", "push", "trim"}
                 \/ requests'[q].pc \notin {"idle", "stamp", "push", "trim"}
    PROVE  CurrentFits'
<1>1. SUFFICES ASSUME faults' = 0, busiest' <= 1, current'
               PROVE  /\ Quiet' => redis'.threshold = Recommended(feedback')
                      /\ \A p \in Requests :
                             /\ requests'[p].pc # "idle" => requests'[p].new = Recommended(feedback')
                             /\ requests'[p].pc \in {"stamp", "push", "trim"} => redis'.threshold = Recommended(feedback')
  BY DEF CurrentFits, AtStep
<1>2. /\ requests[q].new = Recommended(feedback)
      /\ requests[q].pc \in {"stamp", "push", "trim"} => redis.threshold = Recommended(feedback)
  BY <1>1 DEF CurrentFits, AtStep
<1>3. \A p \in Requests : requests'[p].pc # "idle" => p = q
  BY <1>1
<1>4. Quiet' => requests'[q].pc = "idle"
  BY DEF Quiet, AtStep
<1>5. requests'[q].pc \in {"idle", "stamp", "push", "trim"} => redis'.threshold = Recommended(feedback')
  BY <1>2
<1> QED
  BY <1>2, <1>3, <1>4, <1>5

\* Who is to append is among those who are writing.
LEMMA PendingFits ==
    ASSUME CalibrationTypes, Busy
    PROVE  IsFiniteSet(Pending) /\ Cardinality(Pending) \in Nat /\ Cardinality(Pending) <= busiest
<1>1. Pending \in SUBSET Requests /\ Pending \in SUBSET Writing
  BY DEF Pending, Writing, AtStep
<1>2. IsFiniteSet(Pending)
  BY <1>1, FS_Subset, CalibrationAssumption
<1>3. Cardinality(Pending) \in Nat /\ Cardinality(Pending) <= Cardinality(Writing) /\ Cardinality(Writing) \in Nat
  BY <1>1, WritingCounts
<1> QED
  BY <1>2, <1>3 DEF Busy, CalibrationTypes

\* The entry stays where it is, and nobody joins or leaves those that are to append.
LEMMA RecordedKept ==
    ASSUME CalibrationTypes, Busy, RecordedFits, faults' = faults, busiest' \in Nat, busiest' >= busiest,
           redis'.threshold = redis.threshold, redis'.history = redis.history,
           NEW q \in Requests, \A p \in Requests : p # q => requests'[p] = requests[p],
           \/ requests[q].pc \notin {"stamp", "push"} /\ requests'[q].pc \notin {"stamp", "push"}
           \/ /\ requests[q].pc \in {"stamp", "push"} /\ requests'[q].pc \in {"stamp", "push"}
              /\ requests'[q].new = requests[q].new
    PROVE  RecordedFits' /\ Pending' = Pending
<1>1. Pending' = Pending
  BY DEF Pending
<1>2. \A p \in Pending : requests'[p].new = requests[p].new
  BY DEF Pending
<1>3. SUFFICES ASSUME redis.threshold # None, faults = 0, busiest' <= HistoryMax
               PROVE  \/ \E p \in Pending : requests[p].new = redis.threshold
                      \/ \E i \in 1..Len(redis.history) :
                             /\ redis.history[i].new = redis.threshold
                             /\ i + Cardinality(Pending) <= busiest'
  BY <1>1, <1>2 DEF RecordedFits
<1>4. busiest \in Nat /\ HistoryMax \in Nat /\ Cardinality(Pending) \in Nat
  BY PendingFits, CalibrationAssumption DEF CalibrationTypes
<1>5. busiest <= HistoryMax
  BY <1>3, <1>4
<1>6. \A i \in 1..Len(redis.history) :
          i + Cardinality(Pending) <= busiest => i + Cardinality(Pending) <= busiest'
  BY <1>4
<1> QED
  BY <1>3, <1>5, <1>6 DEF RecordedFits

-----------------------------------------------------------------------------
(* Calibration: the steps. *)

LEMMA CalibrationStarts == CalibrationInit => CalibrationInv
<1> SUFFICES ASSUME CalibrationInit PROVE CalibrationInv
  OBVIOUS
<1> DEFINE none == [agree |-> 0, disagree |-> 0, unsure |-> 0]
           r == [threshold |-> None, stamp |-> None, history |-> <<>>]
<1>1. none \in [agree : Nat, disagree : Nat, unsure : Nat]
  OBVIOUS
<1>2. r \in [threshold : Levels, stamp : Nat, history : Seq(HistoryEntries)] /\ r.threshold = None
      /\ r.history = <<>> /\ Len(r.history) = 0
  BY DEF Levels, None
<1>3. feedback = none /\ redis = r
  BY DEF CalibrationInit
<1> HIDE DEF none, r
<1>4. CalibrationTypes
  BY <1>1, <1>2, <1>3, IdleFits DEF CalibrationInit, CalibrationTypes
<1>5. \A q \in Requests : requests[q].pc = "idle"
  BY IdleFits DEF CalibrationInit
<1>6. Alone /\ Busy
  <2>1. Writing = {}
    BY <1>5 DEF Writing, AtStep
  <2>2. Cardinality(Writing) = 0 /\ busiest = 0
    BY <2>1, FS_EmptySet DEF CalibrationInit
  <2> QED
    BY <1>5, <2>2 DEF Alone, Busy, AtStep
<1>7. HistoryFits
  <2>1. Chained(redis.history)
    BY <1>2, <1>3 DEF Chained
  <2>2. QuietFits(redis.history)
    BY <1>2, <1>3, CalibrationAssumption DEF QuietFits, CalibrationInit
  <2>3. \A q \in Requests : StepFits(q, redis.history)
    BY <1>5 DEF StepFits
  <2> QED
    BY <2>1, <2>2, <2>3 DEF HistoryFits
<1>8. CurrentFits /\ RecordedFits
  BY <1>2, <1>3 DEF CalibrationInit, CurrentFits, RecordedFits
<1> QED
  BY <1>4, <1>6, <1>7, <1>8 DEF CalibrationInv

LEMMA DecideKeeps ==
    ASSUME CalibrationInv, NEW kind \in {"agree", "disagree", "unsure"}, Decide(kind)
    PROVE  CalibrationInv'
<1> USE DEF CalibrationInv
<1>1. feedback' \in [agree : Nat, disagree : Nat, unsure : Nat]
  <2>1. CASE kind = "agree"
    BY <2>1 DEF Decide, CalibrationTypes
  <2>2. CASE kind = "disagree"
    BY <2>2 DEF Decide, CalibrationTypes
  <2>3. CASE kind = "unsure"
    BY <2>3 DEF Decide, CalibrationTypes
  <2> QED
    BY <2>1, <2>2, <2>3
<1>2. CalibrationTypes'
  BY <1>1 DEF Decide, CalibrationTypes
<1>3. Alone' /\ Busy'
  BY DEF Decide, Alone, Busy, Writing, AtStep
<1>4. HistoryFits'
  BY DEF Decide, HistoryFits, Chained, QuietFits, StepFits, Quiet, AtStep
<1>5. CurrentFits'
  BY DEF Decide, CurrentFits
<1>6. RecordedFits'
  BY DEF Decide, RecordedFits, Pending
<1> QED
  BY <1>2, <1>3, <1>4, <1>5, <1>6

LEMMA StartKeeps ==
    ASSUME CalibrationInv, NEW q \in Requests, Start(q)
    PROVE  CalibrationInv'
<1> USE DEF CalibrationInv
<1> DEFINE t == [pc |-> "prev", stamp |-> started + 1, old |-> None, new |-> Recommended(feedback)]
<1>1. t \in RequestType /\ t.pc = "prev" /\ t.new = Recommended(feedback)
  BY RecommendedFits DEF CalibrationTypes, RequestType, Levels, None
<1>2. requests' = [requests EXCEPT ![q] = t]
  BY DEF Start
<1> HIDE DEF t
<1>3. /\ requests' \in [Requests -> RequestType]
      /\ requests'[q].pc = "prev" /\ requests'[q].new = Recommended(feedback)
      /\ \A p \in Requests : p # q => requests'[p] = requests[p]
  BY <1>1, <1>2, RequestStep
<1>4. CalibrationTypes'
  <2>1. busiest' \in Nat
    BY WritingCounts DEF Start, CalibrationTypes
  <2>2. started' \in Nat /\ UNCHANGED <<feedback, redis, faults>>
    BY DEF Start, CalibrationTypes
  <2> QED
    BY <1>3, <2>1, <2>2 DEF CalibrationTypes
<1>5. busiest' <= 1 => Quiet /\ \A p \in Requests : p # q => requests'[p].pc = "idle"
  <2>0. busiest' >= Cardinality(Writing) + 1
    BY WritingCounts DEF Start, CalibrationTypes
  <2>1. busiest' <= 1 => \A p \in Requests : requests[p].pc = "idle"
    <3>1. busiest' <= 1 => Cardinality(Writing) = 0
      BY <2>0, <1>4, WritingCounts DEF CalibrationTypes
    <3> QED
      BY <3>1, WritingCounts DEF Writing, AtStep
  <2> QED
    BY <1>3, <2>1 DEF Quiet, AtStep
<1>6. Alone'
  BY <1>5 DEF Alone, AtStep
<1>7. /\ busiest' \in Nat /\ busiest \in Nat /\ busiest' >= busiest
      /\ busiest' <= 1 => busiest <= 1
  <2>1. busiest \in Nat /\ Cardinality(Writing) \in Nat
    BY WritingCounts DEF CalibrationTypes
  <2> HIDE DEF CalibrationInv
  <2> QED
    BY <2>1 DEF Start
<1>11. Busy'
  <2>1. q \in Requests \ Writing
    BY DEF Start, Writing
  <2>2. Writing' = Writing \cup {q}
    BY <1>3 DEF Writing, AtStep
  <2>3. Cardinality(Writing') = Cardinality(Writing) + 1
    BY <2>1, <2>2, WritingCounts
  <2>4. busiest' >= Cardinality(Writing) + 1
    BY <1>7, WritingCounts DEF Start
  <2> QED
    BY <2>3, <2>4 DEF Busy
<1>8. HistoryFits'
  <2>1. SUFFICES ASSUME faults' = 0, busiest' <= 1
                 PROVE  Chained(redis.history)' /\ StepFits(q, redis.history)'
    BY <1>3, <1>5, HistoryOfOne
  <2>2. Chained(redis.history) /\ QuietFits(redis.history) /\ redis' = redis
    BY <1>7, <2>1 DEF HistoryFits, Start
  <2>3. Quiet
    BY <1>5, <2>1
  <2>4. Chained(redis.history)'
    BY <2>2 DEF Chained
  <2>5. StepFits(q, redis.history)'
    BY <1>3, <2>2, <2>3 DEF QuietFits, StepFits
  <2> QED
    BY <2>4, <2>5
<1>9. CurrentFits'
  <2>1. SUFFICES ASSUME busiest' <= 1
                 PROVE  /\ ~(Quiet')
                        /\ \A p \in Requests :
                             /\ requests'[p].pc # "idle" => requests'[p].new = Recommended(feedback')
                             /\ requests'[p].pc \notin {"stamp", "push", "trim"}
    BY DEF CurrentFits, AtStep
  <2>2. feedback' = feedback
    BY DEF Start
  <2>3. ~(Quiet')
    BY <1>3 DEF Quiet, AtStep
  <2>4. \A p \in Requests : p = q \/ requests'[p].pc = "idle"
    BY <1>5, <2>1
  <2> QED
    BY <1>3, <2>2, <2>3, <2>4
<1>10. RecordedFits'
  <2>1. requests[q].pc = "idle" /\ redis' = redis /\ faults' = faults
    BY DEF Start, AtStep
  <2> QED
    BY <1>3, <1>7, <2>1, RecordedKept
<1> QED
  BY <1>4, <1>6, <1>8, <1>9, <1>10, <1>11

LEMMA ReadPreviousKeeps ==
    ASSUME CalibrationInv, NEW q \in Requests, ReadPrevious(q)
    PROVE  CalibrationInv'
<1> USE DEF CalibrationInv
<1> DEFINE t == [pc |-> "threshold", stamp |-> requests[q].stamp,
                 old |-> redis.threshold, new |-> requests[q].new]
<1>1. /\ requests[q].pc = "prev" /\ feedback' = feedback /\ redis' = redis /\ started' = started
      /\ busiest' = busiest /\ current' = current
  BY DEF ReadPrevious, AtStep
<1>2. CASE requests' = [requests EXCEPT ![q] = t] /\ faults' = faults
  <2>1. /\ t \in RequestType /\ t.pc = "threshold" /\ t.new = requests[q].new
        /\ t.old = redis.threshold
    BY DEF CalibrationTypes, RequestType
  <2> HIDE DEF t
  <2>2. /\ requests' \in [Requests -> RequestType]
        /\ requests'[q].pc = "threshold" /\ requests'[q].new = requests[q].new
        /\ requests'[q].old = redis.threshold
        /\ \A p \in Requests : p # q => requests'[p] = requests[p]
    BY <1>2, <2>1, RequestStep
  <2>3. CalibrationTypes'
    BY <1>1, <1>2, <2>2 DEF CalibrationTypes
  <2>4. Alone' /\ Busy' /\ (busiest' <= 1 => \A p \in Requests : p # q => requests'[p].pc = "idle")
    BY <1>1, <2>2, AloneKept
  <2>5. HistoryFits'
    <3>1. SUFFICES ASSUME faults' = 0, busiest' <= 1
                   PROVE  Chained(redis.history)' /\ StepFits(q, redis.history)'
      BY <2>2, <2>4, HistoryOfOne
    <3>2. Chained(redis.history) /\ StepFits(q, redis.history)
      BY <1>1, <1>2, <3>1 DEF HistoryFits
    <3>3. Chained(redis.history)'
      BY <1>1, <3>2 DEF Chained
    <3>4. StepFits(q, redis.history)'
      BY <1>1, <2>2, <3>2 DEF StepFits
    <3> QED
      BY <3>3, <3>4
  <2>6. CurrentFits'
    BY <1>1, <1>2, <2>2, <2>4, CurrentOfOne
  <2>7. RecordedFits'
    <3>1. /\ busiest' \in Nat /\ busiest' >= busiest
          /\ redis'.threshold = redis.threshold /\ redis'.history = redis.history
      BY <1>1 DEF CalibrationTypes
    <3>2. requests[q].pc \notin {"stamp", "push"} /\ requests'[q].pc \notin {"stamp", "push"}
      BY <1>1, <2>2
    <3> QED
      BY <1>2, <2>2, <3>1, <3>2, RecordedKept
  <2> QED
    BY <2>3, <2>4, <2>5, <2>6, <2>7
<1>3. CASE faults' = faults + 1 /\ Proceed(q, "threshold")
  <2>1. /\ requests' \in [Requests -> RequestType]
        /\ \A p \in Requests : p # q => requests'[p] = requests[p]
    BY <1>3, ProceedFits
  <2>2. CalibrationTypes'
    BY <1>1, <1>3, <2>1 DEF CalibrationTypes
  <2>3. Alone' /\ Busy'
    BY <1>1, <2>1, AloneKept
  <2>4. HistoryFits' /\ CurrentFits' /\ RecordedFits'
    BY <1>3, FaultsEndIt DEF CalibrationTypes
  <2> QED
    BY <2>2, <2>3, <2>4
<1> QED
  BY <1>2, <1>3 DEF ReadPrevious

LEMMA SetThresholdKeeps ==
    ASSUME CalibrationInv, NEW q \in Requests, SetThreshold(q)
    PROVE  CalibrationInv'
<1> USE DEF CalibrationInv
<1>1. /\ requests[q].pc = "threshold" /\ feedback' = feedback /\ started' = started
      /\ busiest' = busiest /\ current' = current /\ faults' = faults
  BY DEF SetThreshold, AtStep, Unwritten
<1>2. /\ requests' \in [Requests -> RequestType] /\ requests'[q].pc = "stamp"
      /\ requests'[q].old = requests[q].old /\ requests'[q].new = requests[q].new
      /\ \A p \in Requests : p # q => requests'[p] = requests[p]
  BY ProceedFits DEF SetThreshold
<1>3. redis' = [redis EXCEPT !.threshold = requests[q].new]
  BY DEF SetThreshold
<1>4. requests[q].new \in Levels
  BY DEF CalibrationTypes, RequestType
<1>5. /\ redis' \in [threshold : Levels, stamp : Nat, history : Seq(HistoryEntries)]
      /\ redis'.threshold = requests[q].new /\ redis'.history = redis.history
  BY <1>3, <1>4 DEF CalibrationTypes
<1>6. CalibrationTypes'
  BY <1>1, <1>2, <1>5 DEF CalibrationTypes
<1>7. Alone' /\ Busy' /\ (busiest' <= 1 => \A p \in Requests : p # q => requests'[p].pc = "idle")
  BY <1>1, <1>2, AloneKept
<1>8. HistoryFits'
  <2>1. SUFFICES ASSUME faults' = 0, busiest' <= 1
                 PROVE  Chained(redis.history)' /\ StepFits(q, redis.history)'
    BY <1>2, <1>7, HistoryOfOne
  <2>2. Chained(redis.history) /\ StepFits(q, redis.history)
    BY <1>1, <2>1 DEF HistoryFits
  <2>3. Chained(redis.history)'
    BY <1>5, <2>2 DEF Chained
  <2>4. StepFits(q, redis.history)'
    BY <1>1, <1>2, <1>5, <2>2 DEF StepFits
  <2> QED
    BY <2>3, <2>4
<1>9. CurrentFits'
  BY <1>1, <1>2, <1>5, <1>7, CurrentOfOne
<1>10. RecordedFits'
  BY <1>2, <1>5 DEF RecordedFits, Pending
<1> QED
  BY <1>6, <1>7, <1>8, <1>9, <1>10

LEMMA SetStampKeeps ==
    ASSUME CalibrationInv, NEW q \in Requests, SetStamp(q)
    PROVE  CalibrationInv'
<1> USE DEF CalibrationInv
<1>1. /\ requests[q].pc = "stamp" /\ feedback' = feedback /\ started' = started
      /\ busiest' = busiest /\ current' = current /\ faults' = faults
  BY DEF SetStamp, AtStep, Unwritten
<1>2. /\ requests' \in [Requests -> RequestType] /\ requests'[q].pc = "push"
      /\ requests'[q].old = requests[q].old /\ requests'[q].new = requests[q].new
      /\ requests'[q].stamp = requests[q].stamp
      /\ \A p \in Requests : p # q => requests'[p] = requests[p]
  BY ProceedFits DEF SetStamp
<1>3. redis' = [redis EXCEPT !.stamp = requests[q].stamp]
  BY DEF SetStamp
<1>4. requests[q].stamp \in Nat
  BY DEF CalibrationTypes, RequestType
<1>5. /\ redis' \in [threshold : Levels, stamp : Nat, history : Seq(HistoryEntries)]
      /\ redis'.threshold = redis.threshold /\ redis'.history = redis.history
      /\ redis'.stamp = requests[q].stamp
  BY <1>3, <1>4 DEF CalibrationTypes
<1>6. CalibrationTypes'
  BY <1>1, <1>2, <1>5 DEF CalibrationTypes
<1>7. Alone' /\ Busy' /\ (busiest' <= 1 => \A p \in Requests : p # q => requests'[p].pc = "idle")
  BY <1>1, <1>2, AloneKept
<1>8. HistoryFits'
  <2>1. SUFFICES ASSUME faults' = 0, busiest' <= 1
                 PROVE  Chained(redis.history)' /\ StepFits(q, redis.history)'
    BY <1>2, <1>7, HistoryOfOne
  <2>2. Chained(redis.history) /\ StepFits(q, redis.history)
    BY <1>1, <2>1 DEF HistoryFits
  <2>3. Chained(redis.history)'
    BY <1>5, <2>2 DEF Chained
  <2>4. StepFits(q, redis.history)'
    BY <1>1, <1>2, <1>5, <2>2 DEF StepFits
  <2> QED
    BY <2>3, <2>4
<1>9. CurrentFits'
  BY <1>1, <1>2, <1>5, <1>7, CurrentOfOne
<1>10. RecordedFits'
  <2>1. busiest' \in Nat /\ busiest' >= busiest
    BY <1>1 DEF CalibrationTypes
  <2> QED
    BY <1>1, <1>2, <1>5, <2>1, RecordedKept
<1> QED
  BY <1>6, <1>7, <1>8, <1>9, <1>10

LEMMA PushKeeps ==
    ASSUME CalibrationInv, NEW q \in Requests, Push(q)
    PROVE  CalibrationInv'
<1> USE DEF CalibrationInv
<1> DEFINE e == [stamp |-> requests[q].stamp, old |-> requests[q].old, new |-> requests[q].new]
           h == redis.history
<1>1. /\ requests[q].pc = "push" /\ feedback' = feedback /\ started' = started
      /\ busiest' = busiest /\ current' = current /\ faults' = faults
  BY DEF Push, AtStep, Unwritten
<1>2. /\ requests' \in [Requests -> RequestType] /\ requests'[q].pc = "trim"
      /\ requests'[q].new = requests[q].new
      /\ \A p \in Requests : p # q => requests'[p] = requests[p]
  BY ProceedFits DEF Push
<1>3. redis' = [redis EXCEPT !.history = <<e>> \o @]
  BY DEF Push
<1>4. /\ e \in HistoryEntries /\ e.stamp = requests[q].stamp /\ e.old = requests[q].old
      /\ e.new = requests[q].new
  BY DEF CalibrationTypes, RequestType, HistoryEntries
<1>5. h \in Seq(HistoryEntries) /\ Len(h) \in Nat
  BY DEF CalibrationTypes
<1> HIDE DEF e
<1>6. /\ <<e>> \o h \in Seq(HistoryEntries) /\ Len(<<e>> \o h) = Len(h) + 1
      /\ (<<e>> \o h)[1] = e /\ \A i \in 1..Len(h) : (<<e>> \o h)[i + 1] = h[i]
  BY <1>4, <1>5, PushedFits
<1>7. /\ redis' \in [threshold : Levels, stamp : Nat, history : Seq(HistoryEntries)]
      /\ redis'.threshold = redis.threshold /\ redis'.stamp = redis.stamp
      /\ redis'.history = <<e>> \o h
  BY <1>3, <1>6 DEF CalibrationTypes
<1>8. /\ Len(redis'.history) = Len(h) + 1 /\ redis'.history[1] = e
      /\ \A i \in 1..Len(h) : redis'.history[i + 1] = h[i]
  BY <1>6, <1>7
<1>9. CalibrationTypes'
  BY <1>1, <1>2, <1>7 DEF CalibrationTypes
<1>10. Alone' /\ Busy' /\ (busiest' <= 1 => \A p \in Requests : p # q => requests'[p].pc = "idle")
  BY <1>1, <1>2, AloneKept
<1>11. HistoryFits'
  <2>1. SUFFICES ASSUME faults' = 0, busiest' <= 1
                 PROVE  Chained(redis.history)' /\ StepFits(q, redis.history)'
    BY <1>2, <1>10, HistoryOfOne
  <2>2. Chained(h) /\ StepFits(q, h)
    BY <1>1, <2>1 DEF HistoryFits
  <2>3. /\ Len(h) <= HistoryMax /\ redis.threshold = e.new /\ redis.stamp = e.stamp
        /\ Len(h) >= 1 => h[1].new = e.old
    BY <1>1, <1>4, <2>2 DEF StepFits
  <2> HIDE DEF h
  <2>4. Chained(redis.history)'
    <3>1. SUFFICES ASSUME NEW i \in 1..Len(h)
                   PROVE  redis'.history[i].old = redis'.history[i + 1].new
      BY <1>5, <1>8 DEF Chained
    <3>2. redis'.history[i + 1] = h[i]
      BY <1>8
    <3>3. CASE i = 1
      BY <1>8, <2>3, <3>2, <3>3
    <3>4. CASE i # 1
      <4>1. i - 1 \in 1..Len(h) /\ i - 1 \in 1..(Len(h) - 1) /\ (i - 1) + 1 = i
        BY <1>5, <3>4
      <4>2. redis'.history[i] = h[i - 1]
        BY <1>8, <4>1
      <4>3. h[i - 1].old = h[i].new
        BY <2>2, <4>1 DEF Chained
      <4> QED
        BY <3>2, <4>2, <4>3
    <3> QED
      BY <3>3, <3>4
  <2>5. Len(redis'.history) \in 1..(HistoryMax + 1)
    BY <1>5, <1>8, <2>3, CalibrationAssumption
  <2>6. redis'.history[1].new = redis'.threshold /\ redis'.history[1].stamp = redis'.stamp
    BY <1>7, <1>8, <2>3
  <2>7. StepFits(q, redis.history)'
    BY <1>2, <2>5, <2>6 DEF StepFits
  <2> QED
    BY <2>4, <2>7
<1>12. CurrentFits'
  <2>1. /\ redis'.threshold = redis.threshold
        /\ requests[q].pc \in {"stamp", "push", "trim"} /\ requests[q].pc # "idle"
    BY <1>1, <1>7
  <2> QED
    BY <1>1, <1>2, <1>10, <2>1, CurrentOfOne
<1>13. RecordedFits'
  <2>1. SUFFICES ASSUME redis.threshold # None, faults = 0, busiest <= HistoryMax
                 PROVE  \/ \E p \in Pending' : requests'[p].new = redis.threshold
                        \/ \E i \in 1..Len(redis'.history) :
                               /\ redis'.history[i].new = redis.threshold
                               /\ i + Cardinality(Pending') <= busiest
    BY <1>1, <1>7 DEF RecordedFits
  <2>2. Pending' = Pending \ {q} /\ q \in Pending
    BY <1>1, <1>2 DEF Pending
  <2>3. Cardinality(Pending') = Cardinality(Pending) - 1
    BY <2>2, PendingFits, FS_RemoveElement
  <2>4. \A p \in Pending' : requests'[p].new = requests[p].new
    BY <1>2, <2>2 DEF Pending
  <2>5. CASE \E p \in Pending : requests[p].new = redis.threshold
    <3>1. PICK p \in Pending : requests[p].new = redis.threshold
      BY <2>5
    <3>2. CASE p = q
      <4>1. 1 \in 1..Len(redis'.history) /\ redis'.history[1].new = redis.threshold
        BY <1>4, <1>5, <1>8, <3>1, <3>2
      <4>2. 1 + Cardinality(Pending') <= busiest
        BY <2>3, PendingFits
      <4> QED
        BY <4>1, <4>2
    <3>3. CASE p # q
      BY <2>2, <2>4, <3>1, <3>3
    <3> QED
      BY <3>2, <3>3
  <2>6. CASE \E i \in 1..Len(h) :
                 /\ h[i].new = redis.threshold
                 /\ i + Cardinality(Pending) <= busiest
    <3>1. PICK i \in 1..Len(h) :
                 /\ h[i].new = redis.threshold
                 /\ i + Cardinality(Pending) <= busiest
      BY <2>6
    <3>2. i + 1 \in 1..Len(redis'.history) /\ redis'.history[i + 1].new = redis.threshold
      BY <1>5, <1>8, <3>1
    <3>3. (i + 1) + Cardinality(Pending') <= busiest
      BY <2>3, <3>1, PendingFits
    <3> QED
      BY <3>2, <3>3
  <2> QED
    BY <2>1, <2>5, <2>6 DEF RecordedFits
<1> QED
  BY <1>9, <1>10, <1>11, <1>12, <1>13

LEMMA TrimKeeps ==
    ASSUME CalibrationInv, NEW q \in Requests, Trim(q)
    PROVE  CalibrationInv'
<1> USE DEF CalibrationInv
<1> DEFINE h == redis.history
<1>1. /\ requests[q].pc = "trim" /\ feedback' = feedback /\ started' = started
      /\ busiest' = busiest /\ current' = current /\ faults' = faults
  BY DEF Trim, AtStep, Unwritten
<1>2. /\ requests' \in [Requests -> RequestType] /\ requests'[q].pc = "idle"
      /\ \A p \in Requests : p # q => requests'[p] = requests[p]
  BY IdleFits, RequestStep DEF Trim
<1>3. h \in Seq(HistoryEntries) /\ Len(h) \in Nat
  BY DEF CalibrationTypes
<1>4. /\ Kept(h) \in Seq(HistoryEntries)
      /\ Len(Kept(h)) = (IF Len(h) > HistoryMax THEN HistoryMax ELSE Len(h))
      /\ \A i \in 1..Len(Kept(h)) : Kept(h)[i] = h[i]
  BY <1>3, KeptFits
<1>5. redis' = [redis EXCEPT !.history = Kept(@)]
  BY DEF Trim
<1>6. /\ redis' \in [threshold : Levels, stamp : Nat, history : Seq(HistoryEntries)]
      /\ redis'.threshold = redis.threshold /\ redis'.stamp = redis.stamp
      /\ redis'.history = Kept(h)
  BY <1>4, <1>5 DEF CalibrationTypes
<1>7. CalibrationTypes'
  BY <1>1, <1>2, <1>6 DEF CalibrationTypes
<1>8. Alone' /\ Busy' /\ (busiest' <= 1 => \A p \in Requests : p # q => requests'[p].pc = "idle")
  BY <1>1, <1>2, AloneKept
<1>9. HistoryFits'
  <2>1. SUFFICES ASSUME faults' = 0, busiest' <= 1
                 PROVE  /\ Chained(redis.history)' /\ StepFits(q, redis.history)'
                        /\ QuietFits(redis.history)'
    BY <1>2, <1>8, HistoryOfOne
  <2>2. Chained(h) /\ StepFits(q, h)
    BY <1>1, <2>1 DEF HistoryFits
  <2>3. /\ Len(h) \in 1..(HistoryMax + 1)
        /\ h[1].new = redis.threshold /\ h[1].stamp = redis.stamp
    BY <1>1, <2>2 DEF StepFits
  <2> HIDE DEF h
  <2>4. Len(Kept(h)) \in 1..HistoryMax /\ Len(Kept(h)) <= Len(h)
    BY <1>3, <1>4, <2>3, CalibrationAssumption
  <2>5. Chained(Kept(h))
    <3>1. SUFFICES ASSUME NEW i \in 1..(Len(Kept(h)) - 1)
                   PROVE  Kept(h)[i].old = Kept(h)[i + 1].new
      BY DEF Chained
    <3>2. i \in 1..Len(Kept(h)) /\ i + 1 \in 1..Len(Kept(h)) /\ i \in 1..(Len(h) - 1)
      BY <1>3, <2>4
    <3>3. Kept(h)[i] = h[i] /\ Kept(h)[i + 1] = h[i + 1]
      BY <1>4, <3>2
    <3> QED
      BY <2>2, <3>2, <3>3 DEF Chained
  <2>6. Chained(redis.history)'
    BY <1>6, <2>5 DEF Chained
  <2>7. Kept(h)[1] = h[1]
    BY <1>4, <2>4
  <2>8. QuietFits(redis.history)'
    BY <1>6, <2>3, <2>4, <2>7 DEF QuietFits
  <2>9. StepFits(q, redis.history)'
    BY <1>2 DEF StepFits
  <2> QED
    BY <2>6, <2>8, <2>9
<1>10. CurrentFits'
  <2>1. /\ redis'.threshold = redis.threshold
        /\ requests[q].pc \in {"stamp", "push", "trim"} /\ requests[q].pc # "idle"
    BY <1>1, <1>6
  <2> QED
    BY <1>1, <1>2, <1>8, <2>1, CurrentOfOne
<1>11. RecordedFits'
  <2>1. SUFFICES ASSUME redis.threshold # None, faults = 0, busiest <= HistoryMax
                 PROVE  \/ \E p \in Pending' : requests'[p].new = redis.threshold
                        \/ \E i \in 1..Len(redis'.history) :
                               /\ redis'.history[i].new = redis.threshold
                               /\ i + Cardinality(Pending') <= busiest
    BY <1>1, <1>6 DEF RecordedFits
  <2>2. Pending' = Pending
    BY <1>1, <1>2 DEF Pending
  <2>3. \A p \in Pending : requests'[p] = requests[p]
    BY <1>1, <1>2 DEF Pending
  <2>4. CASE \E p \in Pending : requests[p].new = redis.threshold
    BY <2>2, <2>3, <2>4
  <2>5. CASE \E i \in 1..Len(h) :
                 /\ h[i].new = redis.threshold
                 /\ i + Cardinality(Pending) <= busiest
    <3>1. PICK i \in 1..Len(h) :
                 /\ h[i].new = redis.threshold
                 /\ i + Cardinality(Pending) <= busiest
      BY <2>5
    <3>2. i \in 1..Len(Kept(h))
      <4>1. busiest \in Nat /\ Cardinality(Pending) \in Nat /\ HistoryMax \in Nat
        BY PendingFits, CalibrationAssumption DEF CalibrationTypes
      <4>2. i \in Nat /\ i >= 1 /\ i <= Len(h) /\ i <= HistoryMax
        BY <1>3, <2>1, <3>1, <4>1
      <4> HIDE DEF CalibrationInv, h
      <4> QED
        BY <1>3, <1>4, <4>1, <4>2
    <3>3. i \in 1..Len(redis'.history) /\ redis'.history[i].new = redis.threshold
      BY <1>4, <1>6, <3>1, <3>2
    <3> QED
      BY <2>2, <3>1, <3>3
  <2> QED
    BY <2>1, <2>4, <2>5 DEF RecordedFits
<1> QED
  BY <1>7, <1>8, <1>9, <1>10, <1>11

LEMMA WriteFailsKeeps ==
    ASSUME CalibrationInv, NEW q \in Requests, WriteFails(q)
    PROVE  CalibrationInv'
<1> USE DEF CalibrationInv
<1>1. /\ requests[q].pc # "idle" /\ feedback' = feedback /\ redis' = redis /\ started' = started
      /\ busiest' = busiest /\ faults' = faults + 1
  BY DEF WriteFails
<1>2. /\ requests' \in [Requests -> RequestType]
      /\ \A p \in Requests : p # q => requests'[p] = requests[p]
  BY IdleFits, RequestStep DEF WriteFails
<1>3. CalibrationTypes'
  BY <1>1, <1>2 DEF CalibrationTypes
<1>4. Alone' /\ Busy'
  BY <1>1, <1>2, AloneKept
<1>5. HistoryFits' /\ CurrentFits' /\ RecordedFits'
  BY <1>1, FaultsEndIt DEF CalibrationTypes
<1> QED
  BY <1>3, <1>4, <1>5

LEMMA CalibrationStays == CalibrationInv /\ UNCHANGED calibrationVars => CalibrationInv'
<1> SUFFICES ASSUME CalibrationInv, UNCHANGED calibrationVars PROVE CalibrationInv'
  OBVIOUS
<1> USE DEF CalibrationInv, calibrationVars
<1>1. CalibrationTypes' /\ Busy' /\ Alone'
  BY DEF CalibrationTypes, Busy, Writing, Alone, AtStep
<1>2. HistoryFits'
  BY DEF HistoryFits, Chained, QuietFits, StepFits, Quiet, AtStep
<1>3. CurrentFits'
  BY DEF CurrentFits, Quiet, AtStep
<1>4. RecordedFits'
  BY DEF RecordedFits, Pending
<1> QED
  BY <1>1, <1>2, <1>3, <1>4

LEMMA CalibrationKeeps == CalibrationInv /\ [CalibrationNext]_calibrationVars => CalibrationInv'
<1> SUFFICES ASSUME CalibrationInv, [CalibrationNext]_calibrationVars PROVE CalibrationInv'
  OBVIOUS
<1>1. CASE \E kind \in {"agree", "disagree", "unsure"} : Decide(kind)
  BY <1>1, DecideKeeps
<1>2. ASSUME NEW q \in Requests, Start(q) PROVE CalibrationInv'
  BY <1>2, StartKeeps
<1>3. ASSUME NEW q \in Requests, ReadPrevious(q) PROVE CalibrationInv'
  BY <1>3, ReadPreviousKeeps
<1>4. ASSUME NEW q \in Requests, SetThreshold(q) PROVE CalibrationInv'
  BY <1>4, SetThresholdKeeps
<1>5. ASSUME NEW q \in Requests, SetStamp(q) PROVE CalibrationInv'
  BY <1>5, SetStampKeeps
<1>6. ASSUME NEW q \in Requests, Push(q) PROVE CalibrationInv'
  BY <1>6, PushKeeps
<1>7. ASSUME NEW q \in Requests, Trim(q) PROVE CalibrationInv'
  BY <1>7, TrimKeeps
<1>8. ASSUME NEW q \in Requests, WriteFails(q) PROVE CalibrationInv'
  BY <1>8, WriteFailsKeeps
<1>9. CASE UNCHANGED calibrationVars
  BY <1>9, CalibrationStays
<1> QED
  BY <1>1, <1>2, <1>3, <1>4, <1>5, <1>6, <1>7, <1>8, <1>9 DEF CalibrationNext

LEMMA CalibrationInvariant == CalibrationSpec => []CalibrationInv
  BY CalibrationStarts, CalibrationKeeps, PTL DEF CalibrationSpec

-----------------------------------------------------------------------------
(* Calibration: the theorems. *)

\* Calibrations one at a time leave a history that begins with the threshold and the
\* timestamp in force, in which every entry starts where the one before it ended, and
\* which stays within its cap (LPUSH and LTRIM in get_ai_accuracy).
THEOREM HistoryTellsTheThreshold == CalibrationSpec => []HistoryTellsThreshold
<1>1. CalibrationInv => HistoryTellsThreshold
  <2> SUFFICES ASSUME CalibrationInv, Clean, started > 0
               PROVE  /\ Len(redis.history) \in 1..HistoryMax
                      /\ redis.history[1].new = redis.threshold /\ redis.history[1].stamp = redis.stamp
                      /\ Chained(redis.history)
    BY DEF HistoryTellsThreshold, Chained
  <2>1. Chained(redis.history) /\ QuietFits(redis.history) /\ Quiet
    BY DEF CalibrationInv, Clean, HistoryFits
  <2>2. Len(redis.history) \in Nat
    BY DEF CalibrationInv, CalibrationTypes
  <2> QED
    BY <2>1, <2>2, CalibrationAssumption DEF QuietFits
<1> QED
  BY <1>1, CalibrationInvariant, PTL

\* The threshold that the AI worker reads is in the history or about to be appended, as
\* long as no command failed and there were never more calibrations at once than the
\* history has entries: those that are still to append are too few to push its entry out.
THEOREM AppliedThresholdsAreRecorded == CalibrationSpec => []AppliedIsRecorded
<1>1. CalibrationInv => AppliedIsRecorded
  <2> SUFFICES ASSUME CalibrationInv, redis.threshold # None, faults = 0, busiest <= HistoryMax
               PROVE  \/ \E i \in DOMAIN redis.history : redis.history[i].new = redis.threshold
                      \/ \E q \in Requests : requests[q].pc \in {"stamp", "push"} /\ requests[q].new = redis.threshold
    BY DEF AppliedIsRecorded
  <2>1. DOMAIN redis.history = 1..Len(redis.history)
    BY DEF CalibrationInv, CalibrationTypes
  <2> QED
    BY <2>1 DEF CalibrationInv, RecordedFits, Pending
<1> QED
  BY <1>1, CalibrationInvariant, PTL

\* Once a calibration has seen all the feedback and none overlapped or failed, the
\* threshold in force is the one the docstring of get_ai_accuracy gives for that feedback.
THEOREM ThresholdsFitTheFeedback == CalibrationSpec => []ThresholdFitsFeedback
<1>1. CalibrationInv => ThresholdFitsFeedback
  <2> SUFFICES ASSUME CalibrationInv, Clean, current PROVE redis.threshold = Recommended(feedback)
    BY RecommendedFits DEF ThresholdFitsFeedback, CalibrationInv, CalibrationTypes
  <2> QED
    BY DEF CalibrationInv, Clean, CurrentFits
<1> QED
  BY <1>1, CalibrationInvariant, PTL
===============================================================================
