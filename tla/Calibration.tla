------------------------------ MODULE Calibration ------------------------------
(***************************************************************************)
(* The active learning loop.  Analysts' decisions leave feedback rows, and *)
(* GET /analyst/ai-accuracy derives from them the confidence above which   *)
(* the AI worker flags a disagreement, writes it to Redis next to a        *)
(* timestamp and appends to a capped history                               *)
(* (analyst_service.get_ai_accuracy).                                      *)
(*                                                                         *)
(* A calibration is a request; each command it sends to Redis is a step,   *)
(* requests overlap, and commands fail.  Rates and thresholds are in       *)
(* percent, and a timestamp is the number of the calibration.              *)
(***************************************************************************)
EXTENDS Integers, Sequences, FiniteSets

CONSTANTS
    Requests,        \* requests at once
    MinSample,       \* AI_DIVERGENCE_MIN_SAMPLE (30 in the code)
    HistoryMax,      \* _AI_CALIBRATION_HISTORY_MAX (100 in the code)
    MaxFeedback,     \* bound on the feedback rows
    MaxCalibrations, \* bound on the calibrations that write
    MaxFaults        \* bound on the commands that fail

ASSUME CalibrationAssumption ==
    /\ MinSample \in Nat \ {0} /\ HistoryMax \in Nat \ {0}
    /\ IsFiniteSet(Requests)
    /\ MaxFeedback \in Nat /\ MaxCalibrations \in Nat /\ MaxFaults \in Nat

VARIABLES
    feedback,   \* rows of ai_feedback, by what the rates look at
    redis,      \* the threshold, its timestamp, the history (newest first)
    requests,   \* per request: the handler
    started,    \* calibrations that have taken their timestamp
    faults,     \* commands that failed so far
    busiest,    \* history: the most calibrations that were writing at the same time
    current     \* history: no row was added since the last calibration read them

calibrationVars == <<feedback, redis, requests, started, faults, busiest, current>>

None == 0   \* no value, among thresholds and timestamps

Idle == [pc |-> "idle", stamp |-> None, old |-> None, new |-> None]

CalibrationInit ==
    /\ feedback = [agree |-> 0, disagree |-> 0, unsure |-> 0]
    /\ redis = [threshold |-> None, stamp |-> None, history |-> <<>>]
    /\ requests = [q \in Requests |-> Idle]
    /\ started = 0 /\ faults = 0
    /\ busiest = 0 /\ current = FALSE

-----------------------------------------------------------------------------
(* Feedback. *)

\* _log_ai_feedback: one row in the transaction of each verification, rejection and
\* severity override.  kind: the AI was sure (above 0.7) and agreed with the analyst,
\* was sure and did not, or was not sure.
Decide(kind) ==
    /\ feedback.agree + feedback.disagree + feedback.unsure < MaxFeedback
    /\ feedback' = [feedback EXCEPT ![kind] = @ + 1]
    /\ current' = FALSE
    /\ UNCHANGED <<redis, requests, started, faults, busiest>>

\* Mutant of Sure: the rows below 0.7 count as well.
SureAny(f) == f.agree + f.disagree + f.unsure

\* Only these rows count for a calibration.
Sure(f) == f.agree + f.disagree

\* The threshold for the rate of agreement among them.
Recommended(f) ==
    CASE 100 * f.agree >= 85 * Sure(f) -> 70
      [] 100 * f.agree < 85 * Sure(f) /\ 100 * f.agree >= 70 * Sure(f) -> 60
      [] 100 * f.agree < 70 * Sure(f) -> 50

-----------------------------------------------------------------------------
(* A calibration. *)

AtStep(q, step) == requests[q].pc = step
Proceed(q, step) == requests' = [requests EXCEPT ![q].pc = step]
Writing == {q \in Requests : ~AtStep(q, "idle")}
Unwritten == UNCHANGED <<feedback, started, faults, busiest, current>>

\* The rows are read and the timestamp is taken.  With too few rows there is nothing
\* to write.
Start(q) ==
    /\ AtStep(q, "idle") /\ started < MaxCalibrations
    /\ Sure(feedback) >= MinSample
    /\ requests' = [requests EXCEPT ![q] =
           [pc |-> "prev", stamp |-> started + 1, old |-> None, new |-> Recommended(feedback)]]
    /\ started' = started + 1
    /\ busiest' = IF Cardinality(Writing) >= busiest THEN Cardinality(Writing) + 1 ELSE busiest
    /\ current' = TRUE
    /\ UNCHANGED <<feedback, redis, faults>>

\* The threshold before, for the record; without an answer it is not known.
ReadPrevious(q) ==
    /\ AtStep(q, "prev")
    /\ \/ /\ requests' = [requests EXCEPT ![q] =
                 [pc |-> "threshold", stamp |-> requests[q].stamp,
                  old |-> redis.threshold, new |-> requests[q].new]]
          /\ UNCHANGED faults
       \/ /\ faults < MaxFaults /\ faults' = faults + 1
          /\ Proceed(q, "threshold")
    /\ UNCHANGED <<feedback, redis, started, busiest, current>>

SetThreshold(q) ==
    /\ AtStep(q, "threshold")
    /\ redis' = [redis EXCEPT !.threshold = requests[q].new]
    /\ Proceed(q, "stamp")
    /\ Unwritten

SetStamp(q) ==
    /\ AtStep(q, "stamp")
    /\ redis' = [redis EXCEPT !.stamp = requests[q].stamp]
    /\ Proceed(q, "push")
    /\ Unwritten

\* Mutant of Push: the threshold before is read only now.
PushReadsNow(q) ==
    /\ AtStep(q, "push")
    /\ redis' = [redis EXCEPT !.history =
           <<[stamp |-> requests[q].stamp, old |-> redis.threshold, new |-> requests[q].new]>> \o @]
    /\ Proceed(q, "trim")
    /\ Unwritten

\* LPUSH.
Push(q) ==
    /\ AtStep(q, "push")
    /\ redis' = [redis EXCEPT !.history =
           <<[stamp |-> requests[q].stamp, old |-> requests[q].old, new |-> requests[q].new]>> \o @]
    /\ Proceed(q, "trim")
    /\ Unwritten

\* Mutant of Kept: one entry less.
KeptOneLess(history) == SubSeq(history, 1, IF Len(history) >= HistoryMax THEN HistoryMax - 1 ELSE Len(history))

\* LTRIM 0 to _AI_CALIBRATION_HISTORY_MAX - 1.
Kept(history) == SubSeq(history, 1, IF Len(history) > HistoryMax THEN HistoryMax ELSE Len(history))

Trim(q) ==
    /\ AtStep(q, "trim")
    /\ redis' = [redis EXCEPT !.history = Kept(@)]
    /\ requests' = [requests EXCEPT ![q] = Idle]
    /\ Unwritten

\* Any of the four writes raises: it is logged, and what was written stays.
WriteFails(q) ==
    /\ requests[q].pc \in {"threshold", "stamp", "push", "trim"} /\ faults < MaxFaults
    /\ faults' = faults + 1
    /\ requests' = [requests EXCEPT ![q] = Idle]
    /\ UNCHANGED <<feedback, redis, started, busiest, current>>

CalibrationNext ==
    \/ \E kind \in {"agree", "disagree", "unsure"} : Decide(kind)
    \/ \E q \in Requests :
        Start(q) \/ ReadPrevious(q) \/ SetThreshold(q) \/ SetStamp(q) \/ Push(q) \/ Trim(q)
        \/ WriteFails(q)

CalibrationSpec == CalibrationInit /\ [][CalibrationNext]_calibrationVars

-----------------------------------------------------------------------------
(* Properties. *)

Quiet == \A q \in Requests : AtStep(q, "idle")
Clean == Quiet /\ faults = 0 /\ busiest <= 1

\* "Appended to a capped history list for accountability": after calibrations one at
\* a time the newest entry is the threshold and timestamp in force, every entry starts
\* where the one before ended, and the list is within its cap.
HistoryTellsThreshold ==
    Clean /\ started > 0 =>
        /\ Len(redis.history) \in 1..HistoryMax
        /\ redis.history[1].new = redis.threshold /\ redis.history[1].stamp = redis.stamp
        /\ \A i \in 1..(Len(redis.history) - 1) : redis.history[i].old = redis.history[i + 1].new

\* No threshold is in force that the history does not account for, as long as there
\* were never more calibrations at once than the history has entries (100): whoever
\* wrote it has appended it, is about to, or failed.  With more, the ones that append
\* later can push its entry out.
AppliedIsRecorded ==
    redis.threshold # None /\ faults = 0 /\ busiest <= HistoryMax =>
        \/ \E i \in DOMAIN redis.history : redis.history[i].new = redis.threshold
        \/ \E q \in Requests : requests[q].pc \in {"stamp", "push"} /\ requests[q].new = redis.threshold

\* The threshold in force is the one the docstring's table gives for the feedback there
\* is, once a calibration has seen all of it and none overlapped or failed: 70 for an
\* agreement of 85 percent among the sure predictions, 60 for 70, else 50.
ThresholdFitsFeedback ==
    Clean /\ current =>
        LET n == feedback.agree + feedback.disagree
        IN  redis.threshold = IF 100 * feedback.agree >= 85 * n THEN 70
                              ELSE IF 100 * feedback.agree >= 70 * n THEN 60 ELSE 50
=============================================================================
