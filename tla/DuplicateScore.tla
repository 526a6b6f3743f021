----------------------------- MODULE DuplicateScore -----------------------------
(***************************************************************************)
(* The duplicate score of two reports (duplicate_service.DuplicateScorer): *)
(* a weighted mean of the signals that both reports have data for.  A      *)
(* report is seen as [building, fix, hash, kind], None where it has no     *)
(* data; a place is a point on a line in metres, a hash a number whose     *)
(* distance to another is the number of differing bits, and a kind a pair  *)
(* of crisis and infrastructure.  Signals are in percent, and a score is   *)
(* kept as numerator and denominator.                                      *)
(***************************************************************************)
EXTENDS Integers

CONSTANT None   \* a column without data

Apart(x, y) == IF x < y THEN y - x ELSE x - y
Both(x, y) == x # None /\ y # None

BuildingSignal(a, b) == IF a.building = b.building THEN 100 ELSE 0

\* Full at 0 m, none from 50 m.
GpsSignal(a, b) == IF Apart(a.fix, b.fix) >= 50 THEN 0 ELSE 100 - 2 * Apart(a.fix, b.fix)

\* Full below 10 bits, none from 30.
ImageSignal(a, b) ==
    LET bits == Apart(a.hash, b.hash)
    IN  CASE bits < 10 -> 100 [] bits >= 30 -> 0 [] OTHER -> 100 - 5 * (bits - 10)

CategorySignal(a, b) == (IF a.kind[1] = b.kind[1] THEN 50 ELSE 0) + (IF a.kind[2] = b.kind[2] THEN 50 ELSE 0)

\* The weight of each signal, 0 if a report has no data for it.
Weights(a, b) ==
    [building |-> IF Both(a.building, b.building) THEN 4 ELSE 0,
     gps      |-> IF Both(a.fix, b.fix) THEN 3 ELSE 0,
     image    |-> IF Both(a.hash, b.hash) THEN 2 ELSE 0,
     category |-> 1]

Total(weights) == weights.building + weights.gps + weights.image + weights.category

\* Without a building on both or coordinates on both the score is 0.
Score(a, b) ==
    LET w == Weights(a, b)
    IN  [num |-> IF w.building = 0 /\ w.gps = 0 THEN 0
                 ELSE (IF w.building = 0 THEN 0 ELSE 4 * BuildingSignal(a, b))
                    + (IF w.gps = 0 THEN 0 ELSE 3 * GpsSignal(a, b))
                    + (IF w.image = 0 THEN 0 ELSE 2 * ImageSignal(a, b))
                    + CategorySignal(a, b),
         den |-> Total(w)]

AtLeastPercent(score, percent) == score.num >= percent * score.den

\* Mutant of StrongLocation: coordinates are enough.
FixIsStrong(a, b) == Both(a.fix, b.fix)

\* Merge review needs a building and coordinates on both.
StrongLocation(a, b) == Both(a.building, b.building) /\ Both(a.fix, b.fix)

Action(a, b) ==
    LET score == Score(a, b)
    IN  CASE AtLeastPercent(score, 90) /\ StrongLocation(a, b) -> "auto_merge"
          [] AtLeastPercent(score, 60) /\ ~(AtLeastPercent(score, 90) /\ StrongLocation(a, b)) -> "analyst_flag"
          [] ~AtLeastPercent(score, 60) -> "independent"
=============================================================================
