------------------------ MODULE ReportPipeline_proofs ------------------------
(***************************************************************************)
(* Proofs about ReportPipeline, for every number of reports, task slots,   *)
(* photos, retries and faults.                                             *)
(***************************************************************************)
EXTENDS ReportPipeline, FiniteSetTheorems, TLAPS

\* A driver that is about to seed has GIS or AI steps to publish; an idle one has
\* nothing, and one that publishes has something left.
DriveOK(x) ==
    /\ x \in Drive
    /\ x.pc = "idle" => x = Idle
    /\ x.pc # "idle" => x.steps # {}
    /\ x.pc = "seed" => x.steps \subseteq Steps

DriveInv ==
    /\ drive \in [Drivers -> [Reports -> Drive]]
    /\ \A d \in Drivers, r \in Reports : DriveOK(drive[d][r])

\* What the pc of a task says about its kind and its report.
TaskOK(x) ==
    /\ x \in Task
    /\ x.pc = "free" <=> x = NoTask
    /\ x.pc # "free" => x.report \in Reports /\ x.kind # "none"
    /\ x.pc \in {"committed", "stepdone", "delete", "send"} => x.kind \in Steps

TaskInv == tasks \in [Slots -> Task] /\ \A t \in Slots : TaskOK(tasks[t])

Shape == TypeOK /\ DriveInv /\ TaskInv

\* Any set of steps has at most two members.
LEMMA StepsCardinality ==
    ASSUME NEW S, S \subseteq Steps
    PROVE  IsFiniteSet(S) /\ Cardinality(S) \in 0..2
<1>1. IsFiniteSet(Steps) /\ Cardinality(Steps) = 2
  <2>1. IsFiniteSet({"gis"}) /\ Cardinality({"gis"}) = 1
    BY FS_Singleton
  <2>2. Steps = {"gis"} \cup {"ai"} /\ "ai" \notin {"gis"}
    BY DEF Steps
  <2>3. QED
    BY <2>1, <2>2, FS_AddElement
<1>2. QED
  BY <1>1, FS_Subset, FS_CardinalityType

-----------------------------------------------------------------------------
(* What an action does to the task slots: a task moves to another pc, it   *)
(* ends, or a message takes a slot.                                        *)

Others(t) == \A u \in Slots : u # t => tasks'[u] = tasks[u]

Moves(t, pc) ==
    /\ TaskInv'
    /\ tasks'[t].pc = pc
    /\ tasks'[t].kind = tasks[t].kind
    /\ tasks'[t].report = tasks[t].report
    /\ Others(t)

Ends(t) == TaskInv' /\ tasks'[t] = NoTask /\ Others(t)

Starts(t, k, r) == TaskInv' /\ tasks'[t] = NewTask(k, r) /\ Others(t)

\* Replacing the task of a slot by another one keeps TaskInv.
LEMMA Replace ==
    ASSUME TaskInv, NEW t \in Slots, NEW x, TaskOK(x),
           tasks' = [tasks EXCEPT ![t] = x]
    PROVE  TaskInv' /\ tasks'[t] = x /\ Others(t)
<1>1. tasks' \in [Slots -> Task] /\ tasks'[t] = x /\ Others(t)
  BY DEF TaskInv, TaskOK, Others
<1>2. ASSUME NEW u \in Slots PROVE TaskOK(tasks'[u])
  BY <1>1 DEF TaskInv, Others
<1>3. TaskInv'
  BY <1>1, <1>2 DEF TaskInv
<1>4. QED
  BY <1>1, <1>3

LEMMA NoTaskOK == TaskOK(NoTask)
BY PipelineAssumption DEF TaskOK, NoTask, Task, Pc

LEMMA MessageOK ==
    ASSUME NEW k \in Steps \cup {"score"}, NEW r \in Reports, NEW n \in 0..MaxRetries
    PROVE  TaskOK(Message(k, r, n))
BY PipelineAssumption DEF TaskOK, Message, NoTask, Task, Pc, Steps

\* A task at another pc that its kind can be at.
LEMMA GotoMoves ==
    ASSUME TaskInv, NEW t \in Slots, ~IsFree(t), NEW pc \in Pc \ {"free"},
           pc \in {"committed", "stepdone", "delete", "send"} => tasks[t].kind \in Steps,
           Goto(t, pc)
    PROVE  Moves(t, pc)
<1> DEFINE x == [tasks[t] EXCEPT !.pc = pc]
<1>1. tasks[t] \in Task /\ tasks[t].report \in Reports /\ tasks[t].kind # "none"
  BY DEF TaskInv, TaskOK, IsFree
<1>2. x \in Task /\ x.pc = pc /\ x.kind = tasks[t].kind /\ x.report = tasks[t].report
  BY <1>1 DEF Task
<1>3. TaskOK(x)
  <2>1. x # NoTask
    BY <1>2 DEF NoTask
  <2>2. QED
    BY <1>1, <1>2, <2>1 DEF TaskOK
<1>4. tasks' = [tasks EXCEPT ![t] = x]
  BY DEF Goto
<1>5. QED
  BY <1>2, <1>3, <1>4, Replace DEF Moves

\* A message that goes back to its queue.
LEMMA RequeuedMoves ==
    ASSUME TaskInv, NEW t \in Slots, ~IsFree(t), NEW n \in 0..MaxRetries,
           tasks' = [tasks EXCEPT ![t] = Requeued(t, n)]
    PROVE  Moves(t, "queued")
<1>1. tasks[t].report \in Reports /\ tasks[t].kind \in Steps \cup {"score"}
  BY DEF TaskInv, TaskOK, IsFree, Task, Steps
<1>2. TaskOK(Requeued(t, n))
  BY <1>1, MessageOK DEF Requeued
<1>3. tasks'[t] = Requeued(t, n) /\ TaskInv' /\ Others(t)
  BY <1>2, Replace
<1>4. QED
  BY <1>3 DEF Moves, Requeued, Message

LEMMA RequeueMoves ==
    ASSUME TaskInv, NEW t \in Slots, ~IsFree(t), Requeue(t)
    PROVE  Moves(t, "queued")
<1>1. tasks[t].tries \in 0..MaxRetries
  BY DEF TaskInv, Task
<1>2. QED
  BY <1>1, RequeuedMoves DEF Requeue

LEMMA FreeEnds ==
    ASSUME TaskInv, NEW t \in Slots, tasks' = [tasks EXCEPT ![t] = NoTask]
    PROVE  Ends(t)
BY NoTaskOK, Replace DEF Ends

LEMMA NewStarts ==
    ASSUME TaskInv, NEW t \in Slots, NEW k \in Steps \cup {"score"}, NEW r \in Reports,
           tasks' = [tasks EXCEPT ![t] = NewTask(k, r)]
    PROVE  Starts(t, k, r)
<1>1. TaskOK(NewTask(k, r))
  BY PipelineAssumption, MessageOK DEF NewTask
<1>2. QED
  BY <1>1, Replace DEF Starts

LEMMA AckMoves ==
    ASSUME TaskInv, NEW t \in Slots, ~IsFree(t), AckOrRedeliver(t)
    PROVE  Ends(t) \/ Moves(t, "queued")
BY FreeEnds, RequeueMoves DEF AckOrRedeliver

\* What a failing task does.
LEMMA RaisesMoves ==
    ASSUME Shape, NEW t \in Slots, ~IsFree(t), Raises(t)
    PROVE  \/ Moves(t, "queued") /\ UNCHANGED <<row, lossy>>
           \/ /\ Ends(t) /\ UNCHANGED row
              /\ lossy' = [lossy EXCEPT ![tasks[t].report] = TRUE]
           \/ /\ Moves(t, "stepdone") /\ UNCHANGED lossy
              /\ row' \in [Reports -> Row]
<1> USE DEF Shape
<1>1. CASE Retry(t)
  <2>1. tasks[t].tries + 1 \in 0..MaxRetries
    BY <1>1, PipelineAssumption DEF Retry, TaskInv, Task
  <2>2. QED
    BY <1>1, <2>1, RequeuedMoves DEF Retry
<1>2. CASE TaskDies(t) \/ ScoreGivesUp(t)
  BY <1>2, FreeEnds DEF TaskDies, ScoreGivesUp
<1>3. CASE GisGivesUp(t)
  <2>1. Moves(t, "stepdone")
    BY <1>3, GotoMoves DEF GisGivesUp, Steps, Pc
  <2>2. QED
    BY <1>3, <2>1 DEF GisGivesUp, TypeOK
<1>4. CASE AiGivesUp(t)
  <2>1. Moves(t, "stepdone")
    BY <1>4, GotoMoves DEF AiGivesUp, Steps, Pc
  <2>2. row' \in [Reports -> Row]
    <3> DEFINE r == tasks[t].report
    <3>1. r \in Reports /\ row \in [Reports -> Row]
      BY DEF TaskInv, TaskOK, IsFree, TypeOK
    <3>2. [row[r] EXCEPT !.photoStatus = "ai_processing_failed"] \in Row
      BY <3>1 DEF Row, PhotoStatus
    <3>3. row' = [row EXCEPT ![r] = [row[r] EXCEPT !.photoStatus = "ai_processing_failed"]]
      BY <1>4 DEF AiGivesUp
    <3>4. QED
      BY <3>1, <3>2, <3>3
  <2>3. QED
    BY <1>4, <2>1, <2>2 DEF AiGivesUp
<1>5. QED
  BY <1>1, <1>2, <1>3, <1>4 DEF Raises

-----------------------------------------------------------------------------
(* What most actions keep: the gate's bound and the cover of unseen writes. *)

DuePcs == {"queued", "committed", "loaded", "hashed", "stepdone"}

\* A task whose step or scoring run is still to come.
Covers(x, r) == x.report = r /\ (x.kind \in Steps \/ (x.kind = "score" /\ x.pc = "queued"))

Covered(r) ==
    \/ \E t \in Slots : Covers(tasks[t], r)
    \/ \E d \in Drivers : ToPublish(d, r) # {}

\* A write that scoring has not seen is followed by a step or a scoring run.
Cover == \A r \in Reports : unseen[r] /\ ~lossy[r] => Covered(r)

IInv == Shape /\ GateNeverOvercounts /\ Cover

\* The action takes nothing away that the gate of r or an unseen write of r needs.
Keeps(r) ==
    /\ lossy'[r] = lossy[r]
    /\ \A d \in Drivers : ToPublish(d, r)' = ToPublish(d, r)
    /\ gate'[r] <= gate[r] \/ gate'[r] <= 0
    /\ \A t \in Slots : MarkDue(t, r) => MarkDue(t, r)'
    /\ unseen'[r] => \/ Covered(r)'
                     \/ unseen[r] /\ (Covered(r) => Covered(r)')

Kept == \A r \in Reports : lossy'[r] = TRUE \/ Keeps(r)

Plain == Shape' /\ Kept

Due(r) == {t \in Slots : MarkDue(t, r)}

LEMMA DueFinite ==
    ASSUME NEW r \in Reports
    PROVE  IsFiniteSet(Due(r)) /\ Cardinality(Due(r)) \in Nat
BY PipelineAssumption, FS_Subset, FS_CardinalityType DEF Due

LEMMA DueFinitePrime ==
    ASSUME NEW r \in Reports
    PROVE  IsFiniteSet(Due(r)') /\ Cardinality(Due(r)') \in Nat
BY PipelineAssumption, FS_Subset, FS_CardinalityType DEF Due

LEMMA ToPublishFinite ==
    ASSUME NEW d \in Drivers, NEW r \in Reports
    PROVE  /\ IsFiniteSet(ToPublish(d, r)) /\ Cardinality(ToPublish(d, r)) \in Nat
           /\ IsFiniteSet(ToPublish(d, r)') /\ Cardinality(ToPublish(d, r)') \in Nat
<1>1. ToPublish(d, r) \subseteq Steps /\ ToPublish(d, r)' \subseteq Steps
  BY DEF ToPublish
<1>2. QED
  BY <1>1, StepsCardinality

Bounded(r) == ~lossy[r] => gate[r] <= PendingMarks(r)
Watched(r) == unseen[r] /\ ~lossy[r] => Covered(r)

LEMMA PendingMarksSum ==
    ASSUME NEW r \in Reports
    PROVE  /\ PendingMarks(r) = Cardinality(Due(r)) + Cardinality(ToPublish("api", r))
                                + Cardinality(ToPublish("sweep", r))
           /\ PendingMarks(r)' = Cardinality(Due(r)') + Cardinality(ToPublish("api", r)')
                                 + Cardinality(ToPublish("sweep", r)')
BY DEF PendingMarks, Due

\* A report that keeps what it needs stays bounded and watched.
LEMMA KeepsPreserves ==
    ASSUME IInv, Shape', NEW r \in Reports, Keeps(r)
    PROVE  Bounded(r)' /\ Watched(r)'
<1>1. ASSUME ~lossy'[r] PROVE gate'[r] <= PendingMarks(r)'
  <2>1. ~lossy[r]
    BY <1>1 DEF Keeps
  <2>2. gate[r] <= PendingMarks(r)
    BY <2>1 DEF IInv, GateNeverOvercounts
  <2>3. Due(r) \subseteq Due(r)'
    BY DEF Keeps, Due
  <2>4. Cardinality(Due(r)) <= Cardinality(Due(r)')
    BY <2>3, DueFinitePrime, FS_Subset
  <2>5. /\ ToPublish("api", r)' = ToPublish("api", r)
        /\ ToPublish("sweep", r)' = ToPublish("sweep", r)
    BY DEF Keeps, Drivers
  <2>6. /\ Cardinality(ToPublish("api", r)) \in Nat
        /\ Cardinality(ToPublish("sweep", r)) \in Nat
    BY ToPublishFinite DEF Drivers
  <2>7. gate[r] \in Int /\ gate'[r] \in Int
    BY DEF IInv, Shape, TypeOK
  <2>8. gate'[r] <= gate[r] \/ gate'[r] <= 0
    BY DEF Keeps
  <2>9. Cardinality(Due(r)) \in Nat /\ Cardinality(Due(r)') \in Nat
    BY DueFinite, DueFinitePrime
  <2>10. QED
    BY <2>2, <2>4, <2>5, <2>6, <2>7, <2>8, <2>9, PendingMarksSum
<1>2. Watched(r)'
  BY DEF IInv, Keeps, Cover, Watched
<1>3. QED
  BY <1>1, <1>2 DEF Bounded

\* The invariant, report by report.
LEMMA IInvPrime ==
    ASSUME Shape', \A r \in Reports : Bounded(r)' /\ Watched(r)'
    PROVE  IInv'
BY DEF IInv, GateNeverOvercounts, Cover, Bounded, Watched

LEMMA PlainPreserves ==
    ASSUME IInv, Plain
    PROVE  IInv'
<1>1. ASSUME NEW r \in Reports PROVE Bounded(r)' /\ Watched(r)'
  <2>1. CASE lossy'[r] = TRUE
    BY <2>1 DEF Bounded, Watched
  <2>2. CASE Keeps(r)
    BY <2>2, KeepsPreserves DEF Plain
  <2>3. QED
    BY <2>1, <2>2 DEF Plain, Kept
<1>2. QED
  BY <1>1, IInvPrime DEF Plain

\* A task that moves on before its mark, or goes back to its queue.
LEMMA MovesKeeps ==
    ASSUME Shape, NEW t \in Slots, NEW pc \in Pc \ {"free"}, ~IsFree(t), Moves(t, pc),
           UNCHANGED <<drive, lossy>>,
           UNCHANGED gate \/ gate' = [gate EXCEPT ![tasks[t].report] = 0],
           tasks[t].kind \in Steps \/ pc = "queued",
           tasks[t].pc \in DuePcs => pc \in DuePcs,
           \A r \in Reports : unseen'[r] = unseen[r] \/ r = tasks[t].report
    PROVE  Kept
<1> SUFFICES ASSUME NEW r \in Reports PROVE Keeps(r)
  BY DEF Kept
<1>1. \A d \in Drivers : ToPublish(d, r)' = ToPublish(d, r)
  BY DEF ToPublish
<1>2. ASSUME NEW u \in Slots, MarkDue(u, r) PROVE MarkDue(u, r)'
  BY <1>2 DEF MarkDue, Moves, Others, DuePcs
<1>3. tasks[t].kind \in Steps \cup {"score"}
  BY DEF Shape, TaskInv, TaskOK, IsFree, Task, Steps
<1>4. Covers(tasks'[t], tasks[t].report)
  BY <1>3 DEF Covers, Moves
<1>5. r = tasks[t].report => Covered(r)'
  BY <1>4 DEF Covered
<1>6. r # tasks[t].report => (Covered(r) => Covered(r)')
  BY <1>1 DEF Covered, Covers, Moves, Others
<1>7. gate'[r] <= gate[r] \/ gate'[r] <= 0
  BY DEF Shape, TypeOK
<1>8. r # tasks[t].report /\ unseen'[r] => unseen[r]
  OBVIOUS
<1>9. QED
  BY <1>1, <1>2, <1>5, <1>6, <1>7, <1>8 DEF Keeps

\* A task that is lost with its step or its scoring run.
LEMMA LosesKeeps ==
    ASSUME Shape, NEW t \in Slots, ~IsFree(t), Ends(t), UNCHANGED <<gate, drive, unseen>>,
           lossy' = [lossy EXCEPT ![tasks[t].report] = TRUE]
    PROVE  Kept
<1> SUFFICES ASSUME NEW r \in Reports, r # tasks[t].report PROVE Keeps(r)
  BY DEF Kept, Shape, TypeOK
<1>1. \A d \in Drivers : ToPublish(d, r)' = ToPublish(d, r)
  BY DEF ToPublish
<1>2. ASSUME NEW u \in Slots, MarkDue(u, r) PROVE MarkDue(u, r)'
  BY <1>2 DEF MarkDue, Ends, Others
<1>3. Covered(r) => Covered(r)'
  BY <1>1 DEF Covered, Covers, Ends, Others
<1>4. gate'[r] <= gate[r] /\ lossy'[r] = lossy[r]
  BY DEF Shape, TypeOK
<1>5. QED
  BY <1>1, <1>2, <1>3, <1>4 DEF Keeps

-----------------------------------------------------------------------------
(* The actions, one by one.                                                *)

\* Nothing that the invariant is about changes, except that a gate may drop.
LEMMA CalmKeeps ==
    ASSUME Shape, UNCHANGED <<tasks, unseen, lossy>>,
           \A r \in Reports : gate'[r] <= gate[r] \/ gate'[r] <= 0,
           \A d \in Drivers, r \in Reports : ToPublish(d, r)' = ToPublish(d, r)
    PROVE  Kept
<1> SUFFICES ASSUME NEW r \in Reports PROVE Keeps(r)
  BY DEF Kept
<1>1. \A t \in Slots : MarkDue(t, r)' = MarkDue(t, r)
  BY DEF MarkDue
<1>2. Covered(r)' = Covered(r)
  BY DEF Covered
<1>3. QED
  BY <1>1, <1>2 DEF Keeps

\* The parts of the shape of which most actions change only one or two.
Rest == /\ row \in [Reports -> Row]
        /\ gate \in [Reports -> Int] /\ \A r \in Reports : gate[r] <= 2
        /\ age \in [Reports -> Ages]
        /\ unseen \in [Reports -> BOOLEAN]
        /\ lossy \in [Reports -> BOOLEAN]
        /\ faults \in 0..MaxFaults

LEMMA ShapeParts == Shape <=> Rest /\ DriveInv /\ TaskInv
BY DEF Shape, Rest, TypeOK, DriveInv, TaskInv

LEMMA ShapePrime == Rest' /\ DriveInv' /\ TaskInv' => Shape'
BY DEF Shape, Rest, TypeOK, DriveInv, TaskInv

LEMMA TaskInvStays == TaskInv /\ UNCHANGED tasks => TaskInv'
BY DEF TaskInv

LEMMA DriveInvStays == DriveInv /\ UNCHANGED drive => DriveInv'
BY DEF DriveInv

\* Driver d has something else to do for report r.
DriveTo(d, r, x) == drive' = [drive EXCEPT ![d][r] = x]

LEMMA DriveSet ==
    ASSUME DriveInv, NEW d \in Drivers, NEW r \in Reports, NEW x \in Drive, DriveOK(x),
           DriveTo(d, r, x)
    PROVE  /\ DriveInv'
           /\ drive'[d][r] = x
           /\ \A e \in Drivers, q \in Reports :
                 e # d \/ q # r => drive'[e][q] = drive[e][q]
<1>2. /\ drive' \in [Drivers -> [Reports -> Drive]]
      /\ drive'[d][r] = x
      /\ \A e \in Drivers, q \in Reports :
            e # d \/ q # r => drive'[e][q] = drive[e][q]
  BY DEF DriveInv, DriveTo
<1>3. ASSUME NEW e \in Drivers, NEW q \in Reports PROVE DriveOK(drive'[e][q])
  BY <1>2 DEF DriveInv
<1>4. QED
  BY <1>2, <1>3 DEF DriveInv

\* What is left after a publish is nothing or something to publish.
LEMMA AfterOK ==
    ASSUME NEW x \in Drive, DriveOK(x), x.pc = "publish"
    PROVE  DriveOK(After(NextStep(x.steps), x.steps))
<1>1. NextStep(x.steps) \in x.steps
  BY DEF DriveOK, Drive, NextStep, Steps
<1>2. x.steps \ {NextStep(x.steps)} \subseteq Steps \cup {"score"}
  BY DEF Drive
<1>3. QED
  BY <1>1, <1>2 DEF After, DriveOK, Drive, Idle

LEMMA IdleOK == DriveOK(Idle)
BY DEF DriveOK, Idle, Drive

\* A driver gets something to seed, or the scoring job alone to publish.
LEMMA FreshPlain ==
    ASSUME Shape, NEW d \in Drivers, NEW r \in Reports, NEW x, DriveOK(x),
           DriveTo(d, r, x),
           x.pc = "seed" \/ x.steps = {"score"}, drive[d][r].pc # "publish",
           row' \in [Reports -> Row], UNCHANGED <<tasks, unseen, lossy, gate, age, faults>>
    PROVE  Plain
<1>1. /\ DriveInv' /\ drive'[d][r] = x
      /\ \A e \in Drivers, q \in Reports : e # d \/ q # r => drive'[e][q] = drive[e][q]
  <2>1. DriveInv /\ x \in Drive
    BY ShapeParts DEF DriveOK
  <2>2. QED
    BY <2>1, DriveSet
<1>2. ToPublish(d, r) = {} /\ ToPublish(d, r)' = {}
  BY <1>1 DEF ToPublish, Steps
<1>3. \A e \in Drivers, q \in Reports : ToPublish(e, q)' = ToPublish(e, q)
  BY <1>1, <1>2 DEF ToPublish
<1>4. Shape'
  <2>1. Rest'
    BY ShapeParts DEF Rest
  <2>2. QED
    BY <1>1, <2>1, TaskInvStays, ShapePrime, ShapeParts
<1>5. \A q \in Reports : gate'[q] <= gate[q]
  BY DEF Shape, TypeOK
<1>6. QED
  BY <1>3, <1>4, <1>5, CalmKeeps DEF Plain

LEMMA SubmitPlain ==
    ASSUME Shape, NEW r \in Reports, NEW withPhoto \in BOOLEAN, SubmitReport(r, withPhoto)
    PROVE  Plain
<1> DEFINE x == [pc |-> "seed", steps |-> IF withPhoto THEN {"gis", "ai"} ELSE {"gis"}]
<1>1. DriveOK(x) /\ x.pc = "seed"
  BY DEF DriveOK, Drive, Steps
<1>2. DriveTo("api", r, x)
  BY DEF SubmitReport, DriveTo
<1>3. row' \in [Reports -> Row]
  BY PipelineAssumption DEF SubmitReport, Shape, TypeOK, Row, Status, PhotoStatus
<1>4. drive["api"][r].pc # "publish"
  BY DEF SubmitReport, Idle
<1>5. UNCHANGED <<tasks, unseen, lossy, gate, age, faults>>
  BY DEF SubmitReport
<1>6. QED
  BY <1>1, <1>2, <1>3, <1>4, <1>5, FreshPlain DEF Drivers

LEMMA UploadPlain ==
    ASSUME Shape, NEW r \in Reports, UploadPhoto(r)
    PROVE  Plain
<1> DEFINE x == [pc |-> "seed", steps |-> {"ai"}]
<1>1. DriveOK(x) /\ x.pc = "seed"
  BY DEF DriveOK, Drive, Steps
<1>2. DriveTo("api", r, x)
  BY DEF UploadPhoto, DriveTo
<1>3. row' \in [Reports -> Row]
  <2> DEFINE f == [row EXCEPT ![r].photo = row[r].photo + 1]
  <2>1. row[r].photo + 1 \in 0..MaxPhotos
    BY PipelineAssumption DEF UploadPhoto, Shape, TypeOK, Row
  <2>2. f \in [Reports -> Row]
    BY <2>1 DEF Shape, TypeOK, Row
  <2>3. row' = [f EXCEPT ![r].photoStatus = "processing"]
    BY DEF UploadPhoto
  <2> HIDE DEF f
  <2>4. QED
    BY <2>2, <2>3 DEF Row, PhotoStatus
<1>4. drive["api"][r].pc # "publish"
  BY DEF UploadPhoto, Idle
<1>5. UNCHANGED <<tasks, unseen, lossy, gate, age, faults>>
  BY DEF UploadPhoto
<1>6. QED
  BY <1>1, <1>2, <1>3, <1>4, <1>5, FreshPlain DEF Drivers

LEMMA SweepPlain ==
    ASSUME Shape, NEW r \in Reports, SweepSelect(r)
    PROVE  Plain
<1> DEFINE x == IF MissingSteps(r) # {}
                  THEN [pc |-> "seed", steps |-> MissingSteps(r)]
                  ELSE [pc |-> "publish", steps |-> {"score"}]
<1>1. MissingSteps(r) \subseteq Steps
  BY DEF MissingSteps
<1>2. DriveOK(x) /\ (x.pc = "seed" \/ x.steps = {"score"})
  BY <1>1 DEF DriveOK, Drive
<1>3. DriveTo("sweep", r, x)
  BY DEF SweepSelect, DriveTo
<1>4. drive["sweep"][r].pc # "publish"
  BY DEF SweepSelect, Idle
<1>5. row' \in [Reports -> Row] /\ UNCHANGED <<tasks, unseen, lossy, gate, age, faults>>
  BY DEF SweepSelect, Shape, TypeOK
<1>6. QED
  BY <1>2, <1>3, <1>4, <1>5, FreshPlain DEF Drivers

\* A seed that raises: the driver is idle and nothing was published.
LEMMA SeedFailsPlain ==
    ASSUME Shape, NEW d \in Drivers, NEW r \in Reports, SeedFails(d, r)
    PROVE  Plain
<1>1. /\ DriveInv' /\ drive'[d][r] = Idle
      /\ \A e \in Drivers, q \in Reports : e # d \/ q # r => drive'[e][q] = drive[e][q]
  <2>1. DriveInv /\ Idle \in Drive /\ DriveOK(Idle)
    BY ShapeParts, IdleOK DEF DriveOK
  <2>2. DriveTo(d, r, Idle)
    BY DEF SeedFails, DriveTo
  <2>3. QED
    BY <2>1, <2>2, DriveSet
<1>2. ToPublish(d, r) = {} /\ ToPublish(d, r)' = {}
  BY <1>1 DEF ToPublish, SeedFails, Idle
<1>3. \A e \in Drivers, q \in Reports : ToPublish(e, q)' = ToPublish(e, q)
  BY <1>1, <1>2 DEF ToPublish
<1>4. UNCHANGED <<tasks, unseen, lossy, gate>>
  BY DEF SeedFails
<1>5. Rest'
  BY ShapeParts, PipelineAssumption DEF Rest, SeedFails, Fault
<1>6. Shape'
  BY <1>1, <1>4, <1>5, TaskInvStays, ShapePrime, ShapeParts
<1>7. \A q \in Reports : gate'[q] <= gate[q]
  BY <1>4 DEF Shape, TypeOK
<1>8. QED
  BY <1>3, <1>4, <1>6, <1>7, CalmKeeps DEF Plain

\* The clock and the analysts.
LEMMA ClockPlain ==
    ASSUME Shape, NEW r \in Reports,
           GateExpires(r) \/ GraceOver(r) \/ TooOld(r) \/ AnalystActs(r)
    PROVE  Plain
<1>1. Rest'
  <2> USE PipelineAssumption, ShapeParts DEF Rest
  <2>1. CASE GateExpires(r)
    BY <2>1 DEF GateExpires, Fault
  <2>2. CASE GraceOver(r)
    BY <2>2 DEF GraceOver, Ages
  <2>3. CASE TooOld(r)
    BY <2>3 DEF TooOld, Ages
  <2>4. CASE AnalystActs(r)
    <3>1. PICK st \in Status : row' = [row EXCEPT ![r].status = st]
      BY <2>4 DEF AnalystActs, Status
    <3>2. row' \in [Reports -> Row]
      BY <3>1 DEF Row
    <3>3. QED
      BY <2>4, <3>2 DEF AnalystActs
  <2>5. QED
    BY <2>1, <2>2, <2>3, <2>4
<1>2. UNCHANGED <<tasks, drive, unseen, lossy>>
  <2>1. CASE AnalystActs(r)
    BY <2>1 DEF AnalystActs
  <2>2. QED
    BY <2>1 DEF GateExpires, GraceOver, TooOld
<1>3. \A q \in Reports : gate'[q] <= gate[q] \/ gate'[q] <= 0
  <2>1. CASE AnalystActs(r)
    BY <2>1 DEF AnalystActs, Shape, TypeOK
  <2>2. CASE GateExpires(r)
    BY <2>2 DEF GateExpires, Shape, TypeOK
  <2>3. QED
    BY <2>1, <2>2 DEF GraceOver, TooOld, Shape, TypeOK
<1>4. \A d \in Drivers, q \in Reports : ToPublish(d, q)' = ToPublish(d, q)
  BY <1>2 DEF ToPublish
<1>5. Shape'
  BY <1>1, <1>2, TaskInvStays, DriveInvStays, ShapePrime, ShapeParts
<1>6. QED
  BY <1>2, <1>3, <1>4, <1>5, CalmKeeps DEF Plain

\* A driver that gives up some of its jobs marks the report as lossy.
LEMMA DriverLosses ==
    ASSUME Shape, NEW r \in Reports,
           PublishSwallowed(r) \/ \E d \in Drivers : DriverDies(d, r)
    PROVE  Plain
<1>1. \E d \in Drivers, x \in Drive : DriveOK(x) /\ DriveTo(d, r, x)
  <2>1. CASE PublishSwallowed(r)
    <3> DEFINE y == drive["api"][r]
    <3>1. y \in Drive /\ DriveOK(y) /\ y.pc = "publish"
      BY <2>1, ShapeParts DEF PublishSwallowed, DriveInv, Drivers
    <3>2. DriveOK(After(NextStep(y.steps), y.steps))
      BY <3>1, AfterOK
    <3>3. DriveTo("api", r, After(NextStep(y.steps), y.steps))
      BY <2>1, ShapeParts DEF PublishSwallowed, DriveInv, Drivers, DriveTo
    <3>4. After(NextStep(y.steps), y.steps) \in Drive
      BY <3>2 DEF DriveOK
    <3>5. QED
      BY <3>2, <3>3, <3>4 DEF Drivers
  <2>2. QED
    BY <2>1, IdleOK DEF DriverDies, DriveTo, DriveOK
<1>2. PICK d \in Drivers, x \in Drive : DriveOK(x) /\ DriveTo(d, r, x)
  BY <1>1
<1>3. /\ DriveInv'
      /\ \A e \in Drivers, q \in Reports : e # d \/ q # r => drive'[e][q] = drive[e][q]
  <2>1. DriveInv /\ x \in Drive
    BY <1>2, ShapeParts DEF DriveOK
  <2>2. QED
    BY <1>2, <2>1, DriveSet
<1>4. /\ UNCHANGED <<row, gate, age, tasks, unseen>>
      /\ lossy' = [lossy EXCEPT ![r] = TRUE]
      /\ faults' = faults + 1 /\ faults < MaxFaults
  BY DEF PublishSwallowed, DriverDies, Fault
<1>5. Shape'
  <2>1. Rest'
    BY <1>4, ShapeParts, PipelineAssumption DEF Rest
  <2>2. QED
    BY <1>3, <1>4, <2>1, TaskInvStays, ShapePrime, ShapeParts
<1>6. ASSUME NEW q \in Reports, q # r PROVE Keeps(q)
  <2>1. \A e \in Drivers : ToPublish(e, q)' = ToPublish(e, q)
    BY <1>3, <1>6 DEF ToPublish
  <2>2. (\A t \in Slots : MarkDue(t, q)' = MarkDue(t, q)) /\ Covered(q)' = Covered(q)
    BY <1>4, <2>1 DEF MarkDue, Covered
  <2>3. gate'[q] <= gate[q] /\ lossy'[q] = lossy[q]
    BY <1>4, <1>6 DEF Shape, TypeOK
  <2>4. QED
    BY <1>4, <2>1, <2>2, <2>3 DEF Keeps
<1>7. Kept
  BY <1>4, <1>6 DEF Kept, Shape, TypeOK
<1>8. QED
  BY <1>5, <1>7 DEF Plain

-----------------------------------------------------------------------------
(* The workers' actions.                                                   *)

\* What a worker's action leaves alone, and the type of what it changes.
LEMMA TaskShape ==
    ASSUME Shape, TaskInv', UNCHANGED <<drive, age>>,
           row' \in [Reports -> Row],
           unseen' \in [Reports -> BOOLEAN], lossy' \in [Reports -> BOOLEAN],
           gate' \in [Reports -> Int], \A r \in Reports : gate'[r] <= 2,
           UNCHANGED faults \/ Fault
    PROVE  Shape'
<1>1. faults' \in 0..MaxFaults
  BY PipelineAssumption DEF Fault, Shape, TypeOK
<1>2. Rest'
  BY <1>1, ShapeParts DEF Rest
<1>3. QED
  BY <1>2, DriveInvStays, ShapePrime, ShapeParts

\* A task of a report that exists.
LEMMA TaskFacts ==
    ASSUME Shape, NEW t \in Slots, tasks[t].pc # "free"
    PROVE  /\ ~IsFree(t) /\ tasks[t] \in Task /\ TaskInv
           /\ tasks[t].report \in Reports
           /\ tasks[t].kind \in Steps \cup {"score"}
BY DEF Shape, TaskInv, TaskOK, IsFree, Task, Steps

LEMMA GisPlain ==
    ASSUME Shape, NEW t \in Slots,
           GisMatch(t) \/ GisInvalidateCaches(t) \/ GisIntegrityError(t)
    PROVE  Plain
<1>1. CASE GisMatch(t)
  <2> DEFINE r == tasks[t].report
  <2>1. r \in Reports /\ ~IsFree(t) /\ TaskInv /\ tasks[t].kind \in Steps
    BY <1>1, TaskFacts DEF GisMatch, Steps
  <2>2. Moves(t, "committed")
    BY <1>1, <2>1, GotoMoves DEF GisMatch, Pc
  <2>3. row' \in [Reports -> Row] /\ unseen' \in [Reports -> BOOLEAN]
    <3>1. row' = [row EXCEPT ![r].matched = TRUE] /\ unseen' = [unseen EXCEPT ![r] = TRUE]
      BY <1>1 DEF GisMatch
    <3> HIDE DEF r
    <3>2. QED
      BY <2>1, <3>1 DEF Shape, TypeOK, Row
  <2>4. /\ UNCHANGED <<gate, drive, age, lossy, faults>>
        /\ \A q \in Reports : unseen'[q] = unseen[q] \/ q = r
    BY <1>1 DEF GisMatch, Shape, TypeOK
  <2>5. Shape'
    BY <2>2, <2>3, <2>4, TaskShape DEF Moves, Shape, TypeOK
  <2>6. Kept
    BY <2>1, <2>2, <2>4, MovesKeeps DEF DuePcs, Pc
  <2>7. QED
    BY <2>5, <2>6 DEF Plain
<1>2. CASE GisInvalidateCaches(t) \/ GisIntegrityError(t)
  <2>1. /\ ~IsFree(t) /\ TaskInv /\ tasks[t].kind \in Steps /\ Goto(t, "stepdone")
        /\ UNCHANGED <<row, gate, drive, age, unseen, lossy>>
        /\ UNCHANGED faults \/ Fault
    BY <1>2, TaskFacts DEF GisInvalidateCaches, GisIntegrityError, Shape, TaskInv, TaskOK, Steps
  <2>2. Moves(t, "stepdone")
    BY <2>1, GotoMoves DEF Pc
  <2>3. Shape'
    BY <2>1, <2>2, TaskShape DEF Moves, Shape, TypeOK
  <2>4. Kept
    BY <2>1, <2>2, MovesKeeps DEF DuePcs, Pc
  <2>5. QED
    BY <2>3, <2>4 DEF Plain
<1>3. QED
  BY <1>1, <1>2

LEMMA AiPlain ==
    ASSUME Shape, NEW t \in Slots,
           AiLoad(t) \/ AiHash(t) \/ \E usable \in BOOLEAN : AiFinish(t, usable)
    PROVE  Plain
<1> DEFINE r == tasks[t].report
<1>1. /\ tasks[t].kind = "ai" /\ tasks[t].kind \in Steps
      /\ tasks[t].pc \in {"queued", "loaded", "hashed"}
  BY DEF AiLoad, AiHash, AiFinish, Steps
<1>2. r \in Reports /\ ~IsFree(t) /\ TaskInv /\ tasks[t] \in Task
  BY <1>1, TaskFacts
<1>3. CASE AiLoad(t)
  <2> DEFINE x == [kind |-> "ai", report |-> r, pc |-> "loaded",
                   tries |-> tasks[t].tries, photo |-> row[r].photo]
  <2>1. TaskOK(x)
    <3>1. row[r].photo \in 0..MaxPhotos /\ tasks[t].tries \in 0..MaxRetries
      BY <1>2 DEF Shape, TypeOK, Row, Task
    <3> HIDE DEF r
    <3>2. QED
      BY <1>2, <3>1 DEF TaskOK, Task, Pc, NoTask, Steps
  <2>2. tasks' = [tasks EXCEPT ![t] = x]
    BY <1>3 DEF AiLoad
  <2>3. TaskInv' /\ tasks'[t] = x /\ Others(t)
    BY <1>2, <2>1, <2>2, Replace
  <2>4. Moves(t, "loaded")
    BY <1>1, <2>3 DEF Moves
  <2>5. UNCHANGED <<row, gate, drive, age, unseen, lossy, faults>>
    BY <1>3 DEF AiLoad
  <2>6. Shape'
    BY <2>4, <2>5, TaskShape DEF Moves, Shape, TypeOK
  <2>7. Kept
    BY <1>1, <1>2, <2>4, <2>5, MovesKeeps DEF DuePcs, Pc
  <2>8. QED
    BY <2>6, <2>7 DEF Plain
<1>4. CASE AiHash(t)
  <2>1. Moves(t, "hashed")
    BY <1>2, <1>4, GotoMoves DEF AiHash, Pc
  <2>2. row' \in [Reports -> Row] /\ unseen' \in [Reports -> BOOLEAN]
    <3>1. /\ row' = [row EXCEPT ![r].phash = tasks[t].photo]
          /\ unseen' = [unseen EXCEPT ![r] = TRUE]
      BY <1>4 DEF AiHash
    <3>2. tasks[t].photo \in 0..MaxPhotos
      BY <1>2 DEF Task
    <3> HIDE DEF r
    <3>3. QED
      BY <1>2, <3>1, <3>2 DEF Shape, TypeOK, Row
  <2>3. /\ UNCHANGED <<gate, drive, age, lossy, faults>>
        /\ \A q \in Reports : unseen'[q] = unseen[q] \/ q = r
    BY <1>4 DEF AiHash, Shape, TypeOK
  <2>4. Shape'
    BY <2>1, <2>2, <2>3, TaskShape DEF Moves, Shape, TypeOK
  <2>5. Kept
    BY <1>1, <1>2, <2>1, <2>3, MovesKeeps DEF DuePcs, Pc
  <2>6. QED
    BY <2>4, <2>5 DEF Plain
<1>5. ASSUME NEW usable \in BOOLEAN, AiFinish(t, usable) PROVE Plain
  <2>1. Moves(t, "stepdone")
    BY <1>1, <1>2, <1>5, GotoMoves DEF AiFinish, Pc
  <2>2. row' \in [Reports -> Row] /\ unseen' \in [Reports -> BOOLEAN]
    <3> DEFINE f == [row EXCEPT ![r].photoStatus = "assessed"]
               h == IF usable THEN tasks[t].photo ELSE row[r].phash
    <3>1. /\ row' = [f EXCEPT ![r].phash = h]
          /\ unseen' = [unseen EXCEPT ![r] = TRUE]
      BY <1>5 DEF AiFinish
    <3>2. h \in 0..MaxPhotos
      BY <1>2 DEF Task, Shape, TypeOK, Row
    <3> HIDE DEF r, h
    <3>3. f \in [Reports -> Row]
      BY <1>2 DEF Shape, TypeOK, Row, PhotoStatus
    <3> HIDE DEF f
    <3>4. QED
      BY <1>2, <3>1, <3>2, <3>3 DEF Shape, TypeOK, Row
  <2>3. /\ UNCHANGED <<gate, drive, age, lossy, faults>>
        /\ \A q \in Reports : unseen'[q] = unseen[q] \/ q = r
    BY <1>5 DEF AiFinish, Shape, TypeOK
  <2>4. Shape'
    BY <2>1, <2>2, <2>3, TaskShape DEF Moves, Shape, TypeOK
  <2>5. Kept
    BY <1>1, <1>2, <2>1, <2>3, MovesKeeps DEF DuePcs, Pc
  <2>6. QED
    BY <2>4, <2>5 DEF Plain
<1>6. QED
  BY <1>3, <1>4, <1>5

\* A task that fails, is retried, or gives up and counts its step as done.
LEMMA RaisesPlain ==
    ASSUME Shape, NEW t \in Slots, TaskFails(t) \/ VisionFails(t)
    PROVE  Plain
<1>1. /\ Raises(t) /\ (UNCHANGED faults \/ Fault) /\ ~IsFree(t) /\ TaskInv
      /\ tasks[t].kind = "score" => tasks[t].pc \in {"queued", "loaded"}
      /\ tasks[t].pc \in DuePcs
  BY DEF TaskFails, VisionFails, CanRaise, DuePcs, Shape, IsFree
<1>2. UNCHANGED <<gate, drive, age, unseen>>
  BY <1>1 DEF Raises, Retry, TaskDies, GisGivesUp, AiGivesUp, ScoreGivesUp
<1>3. CASE Moves(t, "queued") /\ UNCHANGED <<row, lossy>>
  <2>1. Shape'
    BY <1>1, <1>2, <1>3, TaskShape DEF Moves, Shape, TypeOK
  <2>2. Kept
    BY <1>1, <1>2, <1>3, MovesKeeps DEF DuePcs, Pc
  <2>3. QED
    BY <2>1, <2>2 DEF Plain
<1>4. CASE Ends(t) /\ UNCHANGED row /\ lossy' = [lossy EXCEPT ![tasks[t].report] = TRUE]
  <2>1. Shape'
    BY <1>1, <1>2, <1>4, TaskShape DEF Ends, Shape, TypeOK
  <2>2. Kept
    BY <1>1, <1>2, <1>4, LosesKeeps
  <2>3. QED
    BY <2>1, <2>2 DEF Plain
<1>5. CASE Moves(t, "stepdone") /\ UNCHANGED lossy /\ row' \in [Reports -> Row]
  <2>1. tasks[t].kind \in Steps
    BY <1>5 DEF Moves, TaskInv, TaskOK
  <2>2. Shape'
    BY <1>1, <1>2, <1>5, TaskShape DEF Moves, Shape, TypeOK
  <2>3. Kept
    BY <1>1, <1>2, <1>5, <2>1, MovesKeeps DEF DuePcs, Pc
  <2>4. QED
    BY <2>2, <2>3 DEF Plain
<1>6. QED
  BY <1>1, <1>3, <1>4, <1>5, RaisesMoves

\* A crash of the worker, and the ways to lose a task.
LEMMA CrashPlain ==
    ASSUME Shape, NEW t \in Slots,
           Redeliver(t) \/ TaskLost(t) \/ MarkFails(t) \/ ScoreIntegrityError(t)
    PROVE  Plain
<1>1. /\ ~IsFree(t) /\ TaskInv /\ Fault /\ UNCHANGED <<row, gate, drive, age, unseen>>
  BY DEF Redeliver, TaskLost, MarkFails, ScoreIntegrityError, IsFree, Shape
<1>2. CASE Redeliver(t)
  <2>1. Moves(t, "queued") /\ UNCHANGED lossy
    BY <1>1, <1>2, RequeueMoves DEF Redeliver
  <2>2. Shape'
    BY <1>1, <2>1, TaskShape DEF Moves, Shape, TypeOK
  <2>3. Kept
    BY <1>1, <2>1, MovesKeeps DEF DuePcs, Pc
  <2>4. QED
    BY <2>2, <2>3 DEF Plain
<1>3. CASE TaskLost(t) \/ MarkFails(t) \/ ScoreIntegrityError(t)
  <2>1. Ends(t) /\ lossy' = [lossy EXCEPT ![tasks[t].report] = TRUE]
    BY <1>1, <1>3, FreeEnds DEF TaskLost, MarkFails, ScoreIntegrityError
  <2>2. Shape'
    BY <1>1, <2>1, TaskShape DEF Ends, Shape, TypeOK
  <2>3. Kept
    BY <1>1, <2>1, LosesKeeps
  <2>4. QED
    BY <2>2, <2>3 DEF Plain
<1>4. QED
  BY <1>2, <1>3

\* An action on tasks whose marks stay due and whose report stays covered.
LEMMA TaskKeeps ==
    ASSUME Shape, UNCHANGED <<gate, drive, lossy>>,
           \A u \in Slots, q \in Reports : MarkDue(u, q) => MarkDue(u, q)',
           \A q \in Reports : unseen'[q] => unseen[q],
           \A u \in Slots, q \in Reports :
              unseen'[q] /\ Covers(tasks[u], q) => \E w \in Slots : Covers(tasks'[w], q)
    PROVE  Kept
<1> SUFFICES ASSUME NEW q \in Reports PROVE Keeps(q)
  BY DEF Kept
<1>1. \A d \in Drivers : ToPublish(d, q)' = ToPublish(d, q)
  BY DEF ToPublish
<1>2. unseen'[q] => unseen[q] /\ (Covered(q) => Covered(q)')
  BY <1>1 DEF Covered
<1>3. gate'[q] <= gate[q]
  BY DEF Shape, TypeOK
<1>4. QED
  BY <1>1, <1>2, <1>3 DEF Keeps

\* A scoring run that reads, or that writes what it found.
LEMMA ScorePlain ==
    ASSUME Shape, NEW t \in Slots, ScoreLoad(t) \/ \E merge \in BOOLEAN : ScoreWrite(t, merge)
    PROVE  Plain
<1> DEFINE r == tasks[t].report
<1>1. tasks[t].kind = "score" /\ tasks[t].pc \in {"queued", "loaded"}
  BY DEF ScoreLoad, ScoreWrite
<1>2. r \in Reports /\ ~IsFree(t) /\ TaskInv
  BY <1>1, TaskFacts
<1>3. UNCHANGED <<gate, drive, age, lossy>>
  BY DEF ScoreLoad, ScoreWrite
<1>4. /\ Moves(t, "loaded") \/ Moves(t, "queued") \/ Ends(t)
      /\ UNCHANGED faults \/ Fault
  <2>1. CASE Goto(t, "loaded") /\ UNCHANGED faults
    BY <1>1, <1>2, <2>1, GotoMoves DEF Pc
  <2>2. CASE AckOrRedeliver(t)
    <3>1. UNCHANGED faults \/ Fault
      BY <2>2 DEF AckOrRedeliver
    <3>2. QED
      BY <1>2, <2>2, <3>1, AckMoves
  <2>3. QED
    BY <2>1, <2>2 DEF ScoreLoad, ScoreWrite
<1>5. TaskInv' /\ Others(t)
  BY <1>4 DEF Moves, Ends
<1>6. row' \in [Reports -> Row] /\ unseen' \in [Reports -> BOOLEAN]
  <2>1. CASE ScoreLoad(t)
    BY <2>1 DEF ScoreLoad, Shape, TypeOK
  <2>2. ASSUME NEW merge \in BOOLEAN, ScoreWrite(t, merge)
        PROVE  row' \in [Reports -> Row] /\ unseen' \in [Reports -> BOOLEAN]
    <3> DEFINE f == [row EXCEPT ![r].scored = TRUE]
               st == IF merge THEN "pending_merge_review" ELSE row[r].status
    <3>1. row' = [f EXCEPT ![r].status = st] /\ unseen' = unseen
      BY <2>2 DEF ScoreWrite
    <3>2. st \in Status
      BY <1>2 DEF Status, Shape, TypeOK, Row
    <3> HIDE DEF r, st
    <3>3. f \in [Reports -> Row]
      BY <1>2 DEF Shape, TypeOK, Row
    <3> HIDE DEF f
    <3>4. QED
      BY <1>2, <3>1, <3>2, <3>3 DEF Shape, TypeOK, Row
  <2>3. QED
    BY <2>1, <2>2
<1>7. Shape'
  BY <1>3, <1>4, <1>5, <1>6, TaskShape DEF Shape, TypeOK
<1>8. ASSUME NEW u \in Slots, NEW q \in Reports, MarkDue(u, q) PROVE MarkDue(u, q)'
  BY <1>1, <1>5, <1>8 DEF MarkDue, Others, Steps
<1>9. \A q \in Reports : unseen'[q] => unseen[q]
  BY DEF ScoreLoad, ScoreWrite, Shape, TypeOK
<1>10. unseen'[r] => tasks[t].pc = "loaded"
  BY <1>2 DEF ScoreLoad, ScoreWrite, Shape, TypeOK
<1>11. ASSUME NEW u \in Slots, NEW q \in Reports, unseen'[q], Covers(tasks[u], q)
       PROVE  \E w \in Slots : Covers(tasks'[w], q)
  <2>1. u # t
    BY <1>1, <1>10, <1>11 DEF Covers, Steps
  <2>2. QED
    BY <1>5, <1>11, <2>1 DEF Others
<1>12. QED
  BY <1>3, <1>7, <1>8, <1>9, <1>11, TaskKeeps DEF Plain

\* The gate is deleted, and the scoring job sent.
LEMMA DeletePlain ==
    ASSUME Shape, NEW t \in Slots, MarkDelete(t)
    PROVE  Plain
<1>1. tasks[t].kind \in Steps /\ ~IsFree(t) /\ TaskInv /\ tasks[t].report \in Reports
  BY DEF MarkDelete, Shape, TaskInv, TaskOK, IsFree
<1>2. Moves(t, "send")
  BY <1>1, GotoMoves DEF MarkDelete, Pc
<1>3. /\ UNCHANGED <<row, drive, age, unseen, lossy, faults>>
      /\ gate' = [gate EXCEPT ![tasks[t].report] = 0]
  BY DEF MarkDelete
<1>4. Shape'
  <2>1. gate' \in [Reports -> Int] /\ \A q \in Reports : gate'[q] = gate[q] \/ gate'[q] = 0
    BY <1>1, <1>3 DEF Shape, TypeOK
  <2>2. TaskInv'
    BY <1>2 DEF Moves
  <2>3. QED
    <3>1. \A q \in Reports : gate'[q] <= 2
      BY <2>1 DEF Shape, TypeOK
    <3>2. QED
      BY <1>3, <2>1, <2>2, <3>1, TaskShape DEF Shape, TypeOK
<1>5. tasks[t].pc \notin DuePcs
  BY DEF MarkDelete, DuePcs
<1>6. Kept
  BY <1>1, <1>2, <1>3, <1>5, MovesKeeps DEF Pc
<1>7. QED
  BY <1>4, <1>6 DEF Plain

LEMMA SendPlain ==
    ASSUME Shape, NEW t \in Slots, MarkSend(t)
    PROVE  Plain
<1> DEFINE r == tasks[t].report
           score == NewTask("score", r)
<1>1. tasks[t].kind \in Steps /\ ~IsFree(t) /\ TaskInv /\ r \in Reports /\ tasks[t].pc = "send"
  BY DEF MarkSend, Shape, TaskInv, TaskOK, IsFree
<1>2. UNCHANGED <<row, gate, drive, age, unseen, lossy>> /\ (UNCHANGED faults \/ Fault)
  BY DEF MarkSend
<1>3. TaskOK(score)
  BY <1>1, PipelineAssumption, MessageOK DEF NewTask
<1>4. \E u \in Slots : /\ TaskInv' /\ tasks'[u] = score
                       /\ u = t \/ (IsFree(u) /\ Covers(tasks'[t], r))
                       /\ \A w \in Slots \ {t, u} : tasks'[w] = tasks[w]
  <2>1. CASE tasks' = [tasks EXCEPT ![t] = score]
    BY <1>1, <1>3, <2>1, Replace DEF Others
  <2>2. ASSUME NEW u \in Slots, IsFree(u),
               tasks' = [tasks EXCEPT ![u] = score, ![t] = Requeued(t, tasks[t].tries)]
        PROVE  /\ TaskInv' /\ tasks'[u] = score
               /\ Covers(tasks'[t], r)
               /\ \A w \in Slots \ {t, u} : tasks'[w] = tasks[w]
    <3> DEFINE back == Requeued(t, tasks[t].tries)
    <3>1. u # t /\ tasks \in [Slots -> Task] /\ tasks[t].tries \in 0..MaxRetries
      BY <1>1, <2>2 DEF TaskInv, Task
    <3>2. TaskOK(back) /\ Covers(back, r)
      BY <1>1, <3>1, MessageOK DEF Requeued, Message, Covers
    <3>3. score \in Task /\ back \in Task
      BY <1>3, <3>2 DEF TaskOK
    <3> HIDE DEF score, back
    <3>4. tasks' = [tasks EXCEPT ![u] = score, ![t] = back]
      BY <2>2 DEF score, back
    <3>5. /\ tasks' \in [Slots -> Task] /\ tasks'[u] = score /\ tasks'[t] = back
          /\ \A w \in Slots \ {t, u} : tasks'[w] = tasks[w]
      BY <3>1, <3>3, <3>4
    <3>6. ASSUME NEW w \in Slots PROVE TaskOK(tasks'[w])
      BY <1>1, <1>3, <3>2, <3>5 DEF TaskInv
    <3>7. QED
      BY <3>2, <3>5, <3>6 DEF TaskInv
  <2>3. QED
    BY <2>1, <2>2 DEF MarkSend
<1>5. PICK u \in Slots : /\ TaskInv' /\ tasks'[u] = score
                         /\ u = t \/ (IsFree(u) /\ Covers(tasks'[t], r))
                         /\ \A w \in Slots \ {t, u} : tasks'[w] = tasks[w]
  BY <1>4
<1>6. Shape'
  BY <1>2, <1>5, TaskShape DEF Shape, TypeOK
<1>7. ASSUME NEW w \in Slots, NEW q \in Reports, MarkDue(w, q) PROVE MarkDue(w, q)'
  <2>1. w # t /\ (u # t => w # u)
    BY <1>1, <1>5, <1>7 DEF MarkDue, IsFree
  <2>2. tasks'[w] = tasks[w]
    BY <1>5, <2>1
  <2>3. QED
    BY <1>7, <2>2 DEF MarkDue
<1>8. ASSUME NEW w \in Slots, NEW q \in Reports, Covers(tasks[w], q)
      PROVE  \E v \in Slots : Covers(tasks'[v], q)
  <2>1. CASE w = t
    <3>1. q = r /\ Covers(score, r)
      BY <1>8, <2>1 DEF Covers, NewTask, Message
    <3>2. QED
      BY <1>5, <3>1
  <2>2. CASE w # t
    <3>1. w # u
      BY <1>1, <1>5, <1>8, <2>2 DEF Covers, IsFree, TaskInv, TaskOK, NoTask, Steps
    <3>2. QED
      BY <1>5, <1>8, <2>2, <3>1
  <2>3. QED
    BY <2>1, <2>2
<1>9. Kept
  BY <1>2, <1>7, <1>8, TaskKeeps
<1>10. QED
  BY <1>6, <1>9 DEF Plain

-----------------------------------------------------------------------------
(* The actions that count: Seed, Publish and MarkDecr.                     *)

\* A new gate counts exactly the jobs about to be published.
LEMMA SeedStep ==
    ASSUME IInv, NEW d \in Drivers, NEW r \in Reports, Seed(d, r)
    PROVE  IInv'
<1> DEFINE x == drive[d][r]
<1>1. /\ x.pc = "seed" /\ x.steps \subseteq Steps /\ x.steps # {} /\ x \in Drive
      /\ DriveInv /\ DriveOK(x)
  BY DEF Seed, IInv, Shape, DriveInv, DriveOK
<1> DEFINE y == [x EXCEPT !.pc = "publish"]
<1>2. y \in Drive /\ y.pc = "publish" /\ y.steps = x.steps
  BY <1>1 DEF Drive
<1>3. DriveOK(y) /\ DriveTo(d, r, y)
  BY <1>1, <1>2 DEF DriveOK, DriveTo, Seed
<1>4. /\ DriveInv' /\ drive'[d][r] = y
      /\ \A e \in Drivers, q \in Reports : e # d \/ q # r => drive'[e][q] = drive[e][q]
  BY <1>1, <1>2, <1>3, DriveSet
<1>5. ToPublish(d, r)' = x.steps
  BY <1>1, <1>2, <1>4 DEF ToPublish
<1>6. Cardinality(x.steps) \in 0..2
  BY <1>1, StepsCardinality
<1>7. /\ gate' = [gate EXCEPT ![r] = Cardinality(x.steps)]
      /\ lossy' = [lossy EXCEPT ![r] = FALSE]
      /\ UNCHANGED <<row, age, tasks, unseen, faults>>
  BY DEF Seed, SeedValue
<1>8. Shape'
  <2>1. Rest'
    BY <1>6, <1>7, ShapeParts DEF Rest, IInv
  <2>2. QED
    BY <1>4, <1>7, <2>1, TaskInvStays, ShapeParts, ShapePrime DEF IInv
<1>9. ASSUME NEW q \in Reports, q # r PROVE Keeps(q)
  <2>1. \A e \in Drivers : ToPublish(e, q)' = ToPublish(e, q)
    BY <1>4, <1>9 DEF ToPublish
  <2>2. (\A t \in Slots : MarkDue(t, q)' = MarkDue(t, q)) /\ Covered(q)' = Covered(q)
    BY <1>7, <2>1 DEF MarkDue, Covered
  <2>3. gate'[q] <= gate[q] /\ lossy'[q] = lossy[q]
    BY <1>7, <1>9 DEF IInv, Shape, TypeOK
  <2>4. QED
    BY <1>7, <2>1, <2>2, <2>3 DEF Keeps
<1>10. Bounded(r)'
  <2>1. gate'[r] = Cardinality(ToPublish(d, r)')
    BY <1>5, <1>7 DEF IInv, Shape, TypeOK
  <2>2. d = "api" \/ d = "sweep"
    BY DEF Drivers
  <2>3. /\ Cardinality(ToPublish("api", r)') \in Nat
        /\ Cardinality(ToPublish("sweep", r)') \in Nat
    BY ToPublishFinite DEF Drivers
  <2>4. Cardinality(Due(r)') \in Nat
    BY DueFinitePrime
  <2>5. QED
    BY <2>1, <2>2, <2>3, <2>4, PendingMarksSum DEF Bounded
<1>11. Watched(r)'
  BY <1>1, <1>5 DEF Watched, Covered
<1>12. QED
  BY <1>8, <1>9, <1>10, <1>11, KeepsPreserves, IInvPrime

\* A published step is one job less to publish and one mark more to come.
LEMMA PublishStep ==
    ASSUME IInv, NEW d \in Drivers, NEW r \in Reports, Publish(d, r)
    PROVE  IInv'
<1> DEFINE x == drive[d][r]
           k == NextStep(x.steps)
           y == After(k, x.steps)
<1>1. x.pc = "publish" /\ x \in Drive /\ DriveInv /\ DriveOK(x) /\ x.steps # {}
  BY DEF Publish, IInv, Shape, DriveInv, DriveOK
<1>2. k \in x.steps /\ k \in Steps \cup {"score"}
  BY <1>1 DEF NextStep, Drive, Steps
<1>3. y \in Drive /\ DriveOK(y) /\ DriveTo(d, r, y)
  <2>1. DriveOK(y)
    BY <1>1, AfterOK
  <2>2. drive' = [drive EXCEPT ![d][r] = y]
    BY <1>1 DEF Publish, DriveInv
  <2>3. QED
    BY <2>1, <2>2 DEF DriveOK, DriveTo
<1>4. /\ DriveInv' /\ drive'[d][r] = y
      /\ \A e \in Drivers, q \in Reports : e # d \/ q # r => drive'[e][q] = drive[e][q]
  BY <1>1, <1>3, DriveSet
<1>5. ToPublish(d, r)' = ToPublish(d, r) \ {k}
  BY <1>1, <1>2, <1>4 DEF ToPublish, After, Idle
<1>6. PICK t \in Slots : IsFree(t) /\ tasks' = [tasks EXCEPT ![t] = NewTask(k, r)]
  BY DEF Publish
<1>7. Starts(t, k, r)
  BY <1>2, <1>6, NewStarts DEF IInv, Shape
<1>8. UNCHANGED <<row, gate, age, unseen, lossy, faults>>
  BY DEF Publish
<1>9. Shape'
  <2>1. Rest'
    BY <1>8, ShapeParts DEF Rest, IInv
  <2>2. QED
    BY <1>4, <1>7, <2>1, ShapePrime DEF Starts
<1>10. /\ tasks'[t].report = r /\ tasks'[t].kind = k /\ tasks'[t].pc = "queued"
       /\ \A u \in Slots : u # t => tasks'[u] = tasks[u]
       /\ tasks[t] = NoTask
  BY <1>6, <1>7 DEF Starts, NewTask, Message, Others, IsFree, IInv, Shape, TaskInv, TaskOK
<1>11. \A u \in Slots, q \in Reports : MarkDue(u, q) => u # t /\ MarkDue(u, q)'
  BY <1>10 DEF MarkDue, NoTask, Steps
<1>12. \A u \in Slots, q \in Reports : Covers(tasks[u], q) => Covers(tasks'[u], q)
  BY <1>10 DEF Covers, NoTask, Steps
<1>13. ASSUME NEW q \in Reports, q # r PROVE Keeps(q)
  <2>1. \A e \in Drivers : ToPublish(e, q)' = ToPublish(e, q)
    BY <1>4, <1>13 DEF ToPublish
  <2>2. Covered(q) => Covered(q)'
    BY <1>12, <2>1 DEF Covered
  <2>3. gate'[q] <= gate[q]
    BY <1>8 DEF IInv, Shape, TypeOK
  <2>4. QED
    BY <1>8, <1>11, <2>1, <2>2, <2>3 DEF Keeps
<1>14. Watched(r)'
  BY <1>2, <1>10 DEF Watched, Covered, Covers
<1>15. Bounded(r)'
  <2>1. CASE k \notin Steps
    <3>1. ToPublish(d, r)' = ToPublish(d, r)
      BY <1>5, <2>1 DEF ToPublish
    <3>2. \A e \in Drivers : ToPublish(e, r)' = ToPublish(e, r)
      BY <1>4, <3>1 DEF ToPublish
    <3>3. Covered(r) => Covered(r)'
      BY <1>12, <3>2 DEF Covered
    <3>4. gate'[r] <= gate[r]
      BY <1>8 DEF IInv, Shape, TypeOK
    <3>5. Keeps(r)
      BY <1>8, <1>11, <3>2, <3>3, <3>4 DEF Keeps
    <3>6. QED
      BY <1>9, <3>5, KeepsPreserves
  <2>2. CASE k \in Steps
    <3>1. Due(r) \cup {t} \subseteq Due(r)' /\ t \notin Due(r)
      BY <1>10, <1>11, <2>2 DEF Due, MarkDue
    <3>2. /\ IsFiniteSet(Due(r)) /\ Cardinality(Due(r) \cup {t}) = Cardinality(Due(r)) + 1
          /\ Cardinality(Due(r)) \in Nat
      BY <3>1, DueFinite, FS_AddElement
    <3>3. /\ Cardinality(Due(r)) + 1 <= Cardinality(Due(r)')
          /\ Cardinality(Due(r)') \in Nat
      BY <3>1, <3>2, DueFinitePrime, FS_Subset
    <3>4. k \in ToPublish(d, r)
      BY <1>1, <1>2, <2>2 DEF ToPublish
    <3>5. Cardinality(ToPublish(d, r)') = Cardinality(ToPublish(d, r)) - 1
      <4>1. IsFiniteSet(ToPublish(d, r))
        BY ToPublishFinite
      <4>2. Cardinality(ToPublish(d, r) \ {k}) = Cardinality(ToPublish(d, r)) - 1
        BY <3>4, <4>1, FS_RemoveElement
      <4>3. QED
        BY <1>5, <4>2
    <3>6. \A e \in Drivers : e # d => ToPublish(e, r)' = ToPublish(e, r)
      BY <1>4 DEF ToPublish
    <3>7. /\ Cardinality(ToPublish("api", r)) \in Nat
          /\ Cardinality(ToPublish("sweep", r)) \in Nat
          /\ Cardinality(ToPublish("api", r)') \in Nat
          /\ Cardinality(ToPublish("sweep", r)') \in Nat
      BY ToPublishFinite DEF Drivers
    <3>8. Cardinality(ToPublish("api", r)') + Cardinality(ToPublish("sweep", r)')
            = Cardinality(ToPublish("api", r)) + Cardinality(ToPublish("sweep", r)) - 1
      BY <3>5, <3>6, <3>7 DEF Drivers
    <3>9. gate[r] \in Int /\ gate'[r] = gate[r] /\ lossy'[r] = lossy[r]
      BY <1>8 DEF IInv, Shape, TypeOK
    <3>10. ~lossy[r] => gate[r] <= PendingMarks(r)
      BY DEF IInv, GateNeverOvercounts
    <3>11. QED
      BY <3>2, <3>3, <3>7, <3>8, <3>9, <3>10, PendingMarksSum DEF Bounded
  <2>3. QED
    BY <2>1, <2>2
<1>16. QED
  BY <1>9, <1>13, <1>14, <1>15, KeepsPreserves, IInvPrime

\* A step that marks itself done takes its own mark off the gate. If others are
\* still to come the gate stays positive, and one of them covers the report.
LEMMA MarkDecrStep ==
    ASSUME IInv, NEW t \in Slots, MarkDecr(t)
    PROVE  IInv'
<1>0. /\ tasks[t].pc = "stepdone" /\ tasks[t].kind \in Steps /\ ~IsFree(t) /\ TaskInv
      /\ tasks[t].report \in Reports
  BY DEF MarkDecr, IInv, Shape, TaskInv, TaskOK, IsFree
<1>. PICK r \in Reports : r = tasks[t].report
  BY <1>0
<1>1. /\ tasks[t].pc = "stepdone" /\ tasks[t].kind \in Steps /\ r = tasks[t].report
      /\ ~IsFree(t) /\ TaskInv
  BY <1>0
<1>2. /\ gate' = [gate EXCEPT ![r] = gate[r] - 1]
      /\ UNCHANGED <<row, drive, age, unseen, lossy>>
  BY DEF MarkDecr
<1>3. /\ Ends(t) \/ Moves(t, "queued") \/ (Moves(t, "delete") /\ gate[r] <= 1)
      /\ UNCHANGED faults \/ Fault
  <2>1. gate[r] \in Int
    BY <1>1 DEF IInv, Shape, TypeOK
  <2>2. CASE gate[r] - 1 <= 0
    <3>1. Goto(t, "delete") /\ UNCHANGED faults
      BY <2>2 DEF MarkDecr, Complete
    <3>2. Moves(t, "delete")
      BY <1>1, <3>1, GotoMoves DEF Pc
    <3>3. QED
      BY <2>1, <2>2, <3>1, <3>2
  <2>3. CASE ~(gate[r] - 1 <= 0)
    <3>1. AckOrRedeliver(t)
      BY <2>3 DEF MarkDecr, Complete
    <3>2. UNCHANGED faults \/ Fault
      BY <3>1 DEF AckOrRedeliver
    <3>3. QED
      BY <1>1, <3>1, <3>2, AckMoves
  <2>4. QED
    BY <2>2, <2>3
<1>4. TaskInv' /\ \A u \in Slots : u # t => tasks'[u] = tasks[u]
  BY <1>3 DEF Moves, Ends, Others
<1>5. gate' \in [Reports -> Int] /\ gate'[r] = gate[r] - 1 /\ gate[r] \in Int
      /\ \A q \in Reports : q # r => gate'[q] = gate[q]
  BY <1>1, <1>2 DEF IInv, Shape, TypeOK
<1>6. Shape'
  <2>1. \A q \in Reports : gate'[q] <= 2
    BY <1>5 DEF IInv, Shape, TypeOK
  <2>2. QED
    BY <1>2, <1>3, <1>4, <1>5, <2>1, TaskShape DEF IInv, Shape, TypeOK
<1>7. \A d \in Drivers, q \in Reports : ToPublish(d, q)' = ToPublish(d, q)
  BY <1>2 DEF ToPublish
<1>8. ASSUME NEW q \in Reports, q # r PROVE Keeps(q)
  <2>1. \A u \in Slots : MarkDue(u, q) => MarkDue(u, q)'
    BY <1>4, <1>8 DEF MarkDue
  <2>2. Covered(q) => Covered(q)'
    BY <1>4, <1>7, <1>8 DEF Covered, Covers
  <2>3. gate'[q] <= gate[q]
    BY <1>5, <1>8 DEF IInv, Shape, TypeOK
  <2>4. QED
    BY <1>2, <1>7, <2>1, <2>2, <2>3 DEF Keeps
<1>9. /\ Due(r) \ {t} \subseteq Due(r)' /\ t \in Due(r)
      /\ IsFiniteSet(Due(r)) /\ Cardinality(Due(r)) \in Nat
      /\ Cardinality(Due(r) \ {t}) = Cardinality(Due(r)) - 1
  <2>1. Due(r) \ {t} \subseteq Due(r)' /\ t \in Due(r)
    BY <1>1, <1>4 DEF Due, MarkDue
  <2>2. IsFiniteSet(Due(r)) /\ Cardinality(Due(r)) \in Nat
    BY <1>1, DueFinite
  <2>3. QED
    BY <2>1, <2>2, FS_RemoveElement
<1>10. /\ Cardinality(ToPublish("api", r)) \in Nat
       /\ Cardinality(ToPublish("sweep", r)) \in Nat
       /\ ToPublish("api", r)' = ToPublish("api", r)
       /\ ToPublish("sweep", r)' = ToPublish("sweep", r)
  BY <1>1, <1>7, ToPublishFinite DEF Drivers
<1>11. ~lossy[r] => gate[r] <= PendingMarks(r)
  BY <1>1 DEF IInv, GateNeverOvercounts
<1>12. PendingMarks(r) = Cardinality(Due(r)) + Cardinality(ToPublish("api", r))
                         + Cardinality(ToPublish("sweep", r))
  BY <1>1, PendingMarksSum
<1>13. Bounded(r)'
  <2>1. /\ Cardinality(Due(r) \ {t}) <= Cardinality(Due(r)')
        /\ Cardinality(Due(r)') \in Nat
    BY <1>1, <1>9, DueFinitePrime, FS_Subset
  <2>2. PendingMarks(r)' = Cardinality(Due(r)') + Cardinality(ToPublish("api", r)')
                           + Cardinality(ToPublish("sweep", r)')
    BY <1>1, PendingMarksSum
  <2>3. QED
    BY <1>2, <1>5, <1>9, <1>10, <1>11, <1>12, <2>1, <2>2 DEF Bounded
<1>14. Watched(r)'
  <2> SUFFICES ASSUME ~lossy[r] PROVE Covered(r)'
    BY <1>2 DEF Watched
  <2>1. CASE Moves(t, "queued") \/ Moves(t, "delete")
    <3>1. Covers(tasks'[t], r)
      BY <1>1, <2>1 DEF Covers, Moves
    <3>2. QED
      BY <3>1 DEF Covered
  <2>2. CASE gate[r] >= 2
    <3>1. Cardinality(Due(r) \ {t}) + Cardinality(ToPublish("api", r))
            + Cardinality(ToPublish("sweep", r)) >= 1
      BY <1>5, <1>9, <1>10, <1>11, <1>12, <2>2
    <3>2. CASE Due(r) \ {t} # {}
      <4>1. PICK u \in Due(r) : u # t
        BY <3>2
      <4>2. Covers(tasks'[u], r)
        BY <1>4, <4>1 DEF Due, MarkDue, Covers
      <4>3. QED
        BY <4>1, <4>2 DEF Covered, Due
    <3>3. CASE ToPublish("api", r) # {} \/ ToPublish("sweep", r) # {}
      BY <1>10, <3>3 DEF Covered, Drivers
    <3>4. CASE Due(r) \ {t} = {} /\ ToPublish("api", r) = {} /\ ToPublish("sweep", r) = {}
      <4>1. Cardinality({}) = 0
        BY FS_EmptySet
      <4>2. QED
        BY <3>1, <3>4, <4>1
    <3>5. QED
      BY <3>2, <3>3, <3>4
  <2>3. CASE Ends(t) /\ ~(gate[r] >= 2)
    <3>1. gate[r] - 1 <= 0
      BY <1>5, <2>3
    <3>2. Goto(t, "delete")
      BY <3>1 DEF MarkDecr, Complete
    <3>3. Moves(t, "delete")
      BY <1>1, <3>2, GotoMoves DEF Pc
    <3>4. QED
      BY <2>1, <3>3
  <2>4. QED
    BY <1>3, <2>1, <2>2, <2>3
<1>15. QED
  BY <1>6, <1>8, <1>13, <1>14, KeepsPreserves, IInvPrime

-----------------------------------------------------------------------------
(* The invariant of the specification, and what it implies.                *)

LEMMA IInvInit == Init => IInv
<1> SUFFICES ASSUME Init PROVE IInv
  OBVIOUS
<1>1. Rest
  BY PipelineAssumption DEF Init, Rest, Row, Status, PhotoStatus, Ages
<1>2. DriveInv
  BY IdleOK DEF Init, DriveInv, DriveOK
<1>3. TaskInv
  BY NoTaskOK DEF Init, TaskInv, TaskOK
<1>4. Shape
  BY <1>1, <1>2, <1>3, ShapeParts
<1>5. Cover
  BY DEF Init, Cover
<1>6. ASSUME NEW r \in Reports PROVE gate[r] <= PendingMarks(r)
  <2>1. Cardinality(Due(r)) \in Nat
    BY DueFinite
  <2>2. Cardinality(ToPublish("api", r)) \in Nat /\ Cardinality(ToPublish("sweep", r)) \in Nat
    BY ToPublishFinite DEF Drivers
  <2>3. gate[r] = 0
    BY DEF Init
  <2>4. QED
    BY <2>1, <2>2, <2>3, PendingMarksSum
<1>7. QED
  BY <1>4, <1>5, <1>6 DEF IInv, GateNeverOvercounts

LEMMA IInvStep == IInv /\ [Next]_vars => IInv'
<1> SUFFICES ASSUME IInv, [Next]_vars PROVE IInv'
  OBVIOUS
<1>1. Shape
  BY DEF IInv
<1>2. CASE UNCHANGED vars
  <2>1. Shape'
    BY <1>1, <1>2 DEF vars, Shape, TypeOK, DriveInv, TaskInv
  <2>2. Kept
    BY <1>1, <1>2, CalmKeeps DEF vars, Shape, TypeOK, ToPublish
  <2>3. QED
    BY <2>1, <2>2, PlainPreserves DEF Plain
<1>3. ASSUME NEW r \in Reports,
             \/ \E withPhoto \in BOOLEAN : SubmitReport(r, withPhoto)
             \/ UploadPhoto(r) \/ PublishSwallowed(r) \/ GateExpires(r)
             \/ GraceOver(r) \/ TooOld(r) \/ AnalystActs(r) \/ SweepSelect(r)
      PROVE  IInv'
  BY <1>1, <1>3, SubmitPlain, UploadPlain, DriverLosses, ClockPlain, SweepPlain,
     PlainPreserves
<1>4. ASSUME NEW r \in Reports, NEW d \in Drivers, DriverStep(d, r) \/ DriverFault(d, r)
      PROVE  IInv'
  BY <1>1, <1>4, SeedStep, PublishStep, SeedFailsPlain, DriverLosses, PlainPreserves
     DEF DriverStep, DriverFault
<1>5. ASSUME NEW t \in Slots, TaskStep(t) \/ TaskFault(t)
      PROVE  IInv'
  BY <1>1, <1>5, MarkDecrStep, DeletePlain, SendPlain, GisPlain, AiPlain, RaisesPlain,
     ScorePlain, CrashPlain, PlainPreserves
     DEF TaskStep, TaskFault
<1>6. QED
  BY <1>2, <1>3, <1>4, <1>5 DEF Next

\* IInv is an invariant.
LEMMA Invariance == Spec => []IInv
BY IInvInit, IInvStep, PTL DEF Spec

\* Type correctness, with a gate of at most two for any number of photos,
\* retries, redeliveries and sweeps.
THEOREM TypeCorrect == Spec => []TypeOK
<1>1. IInv => TypeOK
  BY DEF IInv, Shape
<1>2. QED
  BY <1>1, Invariance, PTL

\* The gate never waits for more steps than will report to it
\* (duplicate_dispatch.py, routes/reports.py:283).
THEOREM GateSound == Spec => []GateNeverOvercounts
<1>1. IInv => GateNeverOvercounts
  BY DEF IInv
<1>2. QED
  BY <1>1, Invariance, PTL

\* At rest, scoring has seen every GIS and AI write, unless a counted step or a
\* scoring job was lost (duplicate_dispatch.py:8-12).
THEOREM ScoringSeesEverything == Spec => []NoStepUnseen
<1>1. IInv => NoStepUnseen
  <2> SUFFICES ASSUME IInv, NEW r \in Reports, Quiet(r), unseen[r], ~lossy[r] PROVE FALSE
    BY DEF NoStepUnseen, IInv, Shape, TypeOK
  <2>1. Covered(r)
    BY DEF IInv, Cover
  <2>2. \A t \in Slots : ~Covers(tasks[t], r)
    BY DEF Quiet, Covers
  <2>3. \A d \in Drivers : ToPublish(d, r) = {}
    BY DEF Quiet, ToPublish
  <2>4. QED
    BY <2>1, <2>2, <2>3 DEF Covered
<1>2. QED
  BY <1>1, Invariance, PTL
=============================================================================
