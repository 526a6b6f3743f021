-------------------------------- MODULE Matching --------------------------------
(***************************************************************************)
(* Which building a report is about.  The form asks for the buildings near *)
(* its fix (GET /gis/building/match, through a cache), the reporter picks  *)
(* one, or none, or says that theirs is missing, and after the submission  *)
(* a GIS worker decides (gis_tasks._match_building_impl, gis_service).     *)
(* Meanwhile an operator imports footprints, a batch per transaction       *)
(* (cli/import_footprints), and a task may run twice.                      *)
(*                                                                         *)
(* Places lie on a line, in metres; a footprint is an interval.  The       *)
(* queries of one match are one step.                                      *)
(***************************************************************************)
EXTENDS Integers, FiniteSets, Geocoding, DuplicateScore

CONSTANTS
    Reports,
    Forms,      \* what forms hold: [fix, accuracy, landmark], None where empty
    Sources,    \* the sources to import: name -> building -> [lo, hi]
    Places,     \* where landmarks may be
    OtherFixes, \* fixes of other reports, None for none
    MaxImports, \* bound on the runs of the import
    MaxTasks,   \* bound on the tasks, redeliveries included
    MaxWork     \* bound on the runs of the import and the tasks together

ASSUME MatchingAssumption ==
    /\ Forms \subseteq [fix : Nat \cup {None}, accuracy : Nat \cup {None}, landmark : Landmarks \cup {None}]
    /\ \A d \in DOMAIN Sources : \A b \in DOMAIN Sources[d] :
           Sources[d][b] \in [lo : Int, hi : Int] /\ Sources[d][b].lo < Sources[d][b].hi
    /\ \A d \in DOMAIN Sources : {None, "missing"} \cap DOMAIN Sources[d] = {}
    /\ Places \subseteq Int /\ OtherFixes \subseteq Nat \cup {None}
    /\ MaxImports \in Nat /\ MaxTasks \in Nat /\ MaxWork \in Nat

VARIABLES
    buildings,  \* the table: building -> footprint
    import,     \* the running import, and the source the last one brought in whole
    imports, tasks,  \* runs and tasks so far
    offers,     \* the cache of the endpoint: fix -> [candidates, radius, fresh]
    report,     \* per report: the form, then the row
    worker      \* per worker: the task

matchingVars == <<buildings, import, imports, tasks, offers, report, worker, geoVars>>

Names == UNION {DOMAIN Sources[d] : d \in DOMAIN Sources}
Gps == {form.fix : form \in Forms} \ {None}
Picks == Names \cup {None, "missing"}
Unmatched == [building |-> None, confidence |-> "zero", by |-> "nothing"]

-----------------------------------------------------------------------------
(* gis_service. *)

\* BUILDING_FOOTPRINT_SEARCH_RADIUS_M, and what a poor fix widens it to.
DefaultRadius == 30

\* Mutant of Widened: no upper bound.
WidenedUncapped(accuracy) == (3 * accuracy) \div 2

Widened(accuracy) == IF 3 * accuracy > 200 THEN 100 ELSE (3 * accuracy) \div 2

Radius(accuracy) ==
    IF accuracy # None /\ accuracy > 50 THEN Widened(accuracy) ELSE DefaultRadius

Dist(b, p) ==
    CASE p < buildings[b].lo -> buildings[b].lo - p
      [] p > buildings[b].hi -> p - buildings[b].hi
      [] OTHER -> 0

Within(p, radius) == {b \in DOMAIN buildings : Dist(b, p) <= radius}
Containing(p) == {b \in DOMAIN buildings : buildings[b].lo < p /\ p < buildings[b].hi}

\* Mutant of Nearest: the first within the radius.
NearestAny(p, radius) == Within(p, radius)

\* Nearest edge; a building at the radius itself has no confidence and is no match.
Nearest(p, radius) ==
    {b \in Within(p, radius) :
        Dist(b, p) < radius /\ \A c \in Within(p, radius) : Dist(b, p) <= Dist(c, p)}

\* LIMIT 1 without an order among those that contain the point.
Matches(p, radius) == IF Containing(p) # {} THEN Containing(p) ELSE Nearest(p, radius)

\* The MAX_CANDIDATES nearest, if there is a match.
Candidates(p, radius) ==
    IF Matches(p, radius) = {} THEN {}
    ELSE {b \in Within(p, radius) :
             Cardinality({c \in Within(p, radius) : Dist(c, p) < Dist(b, p)}) < 3}

\* The share of the probability that the match holds: all of it or a part.
Share(p, radius) == IF Cardinality(Within(p, radius)) = 1 THEN "sole" ELSE "shared"

\* Mutant of Confirms: the radius of a good fix.
ConfirmsNearby(b, form) == b \in DOMAIN buildings /\ Dist(b, form.fix) <= DefaultRadius

\* confirm_building.
Confirms(b, form) == b \in DOMAIN buildings /\ Dist(b, form.fix) <= Radius(form.accuracy)

-----------------------------------------------------------------------------
(* State. *)

NoRow == [pc |-> "none"]
NoTask == [pc |-> "none"]

MatchingInit ==
    /\ buildings = [b \in {} |-> None]
    /\ import = [source |-> None, left |-> {}, applied |-> None]
    /\ imports = 0 /\ tasks = 0
    /\ offers = [p \in {} |-> None]
    /\ report = [r \in Reports |-> NoRow]
    /\ worker = [w \in Workers |-> NoTask]
    /\ GeoInit(Places)

Submitted(r) == report[r].pc = "row"

MatchingTypeOK ==
    /\ DOMAIN buildings \subseteq Names
    /\ {import.source, import.applied} \subseteq DOMAIN Sources \cup {None} /\ import.left \subseteq Names
    /\ imports \in 0..MaxImports /\ tasks \in 0..MaxTasks
    /\ DOMAIN offers \subseteq Gps
    /\ \A p \in DOMAIN offers : offers[p].candidates \subseteq Names /\ offers[p].radius \in 30..100
    /\ \A r \in Reports : report[r].pc # "none" =>
           /\ report[r].pc \in {"form", "row"} /\ report[r].form \in Forms
           /\ report[r].offered \subseteq Names /\ report[r].live \in BOOLEAN
           /\ report[r].choice \in Picks /\ report[r].fresh \in BOOLEAN
           /\ report[r].match \in [building : Names \cup {None},
                                   confidence : {"zero", "confirmed", "sole", "shared", "capped"},
                                   by : {"nothing", "fix", "landmark"}]
    /\ \A w \in Workers : worker[w].pc # "none" =>
           /\ worker[w].pc \in {"geocode", "write"} /\ worker[w].report \in Reports
    /\ GeoTypeOK

-----------------------------------------------------------------------------
(* The form. *)

NewRow(form, offered, live) ==
    [pc |-> "form", form |-> form, offered |-> offered, live |-> live, choice |-> None,
     match |-> Unmatched, done |-> FALSE, fresh |-> FALSE]

\* The endpoint: from the cache whatever the accuracy, else queried and cached (_cache_key
\* rounds to 5 decimals, about a metre, within which all fixes are one fix here).  The
\* form may ask again, when the fix gets better or the reporter moves the pin.
AskOffer(r, form) ==
    LET p == form.fix  radius == Radius(form.accuracy)
        offer == IF p \in DOMAIN offers THEN offers[p]
                 ELSE [candidates |-> Candidates(p, radius), radius |-> radius, fresh |-> TRUE]
    IN  /\ report[r].pc # "row" /\ p # None
        /\ offers' = [q \in DOMAIN offers \cup {p} |-> IF q = p THEN offer ELSE offers[q]]
        /\ report' = [report EXCEPT ![r] =
               NewRow(form, offer.candidates, offer.fresh /\ offer.radius = radius)]
        /\ UNCHANGED <<buildings, import, imports, tasks, worker, geoVars>>

\* Without a connection the form offers the footprints saved for the area, however far
\* and however old; without a fix it offers nothing.
OpenOffline(r, form) ==
    /\ report[r] = NoRow
    /\ report' = [report EXCEPT ![r] =
           NewRow(form, IF form.fix = None THEN {} ELSE DOMAIN buildings, FALSE)]
    /\ UNCHANGED <<buildings, import, imports, tasks, offers, worker, geoVars>>

Submit(r, choice) ==
    /\ report[r].pc = "form"
    /\ choice \in report[r].offered \cup {None, "missing"}
    /\ report' = [report EXCEPT ![r] = [@ EXCEPT !.pc = "row", !.choice = choice]]
    /\ UNCHANGED <<buildings, import, imports, tasks, offers, worker, geoVars>>

OfferExpires(p) ==
    /\ p \in DOMAIN offers
    /\ offers' = [q \in DOMAIN offers \ {p} |-> offers[q]]
    /\ UNCHANGED <<buildings, import, imports, tasks, report, worker, geoVars>>

-----------------------------------------------------------------------------
(* The task. *)

\* By fix, or nothing: the outcomes of the GPS steps.
ByFix(form) ==
    LET radius == Radius(form.accuracy)
    IN  IF form.fix = None THEN {}
        ELSE {[building |-> b, confidence |-> Share(form.fix, radius), by |-> "fix"] :
                 b \in Matches(form.fix, radius)}

\* What a task decides without the geocoder; nothing leaves it to the landmark.
Decided(row) ==
    IF row.choice = "missing" THEN {Unmatched}
    ELSE IF row.choice # None /\ row.form.fix # None /\ Confirms(row.choice, row.form)
    THEN {[building |-> row.choice, confidence |-> "confirmed", by |-> "fix"]}
    ELSE ByFix(row.form)

\* A delivery, the first or another.  GPS first, then the landmark if there is one.
Start(w, r) ==
    /\ worker[w] = NoTask /\ Submitted(r)
    /\ tasks < MaxTasks /\ imports + tasks < MaxWork
    /\ tasks' = tasks + 1
    /\ IF Decided(report[r]) # {}
       THEN /\ \E m \in Decided(report[r]) :
                  worker' = [worker EXCEPT ![w] = [pc |-> "write", report |-> r, match |-> m, fresh |-> TRUE]]
            /\ UNCHANGED geoVars
       ELSE IF report[r].form.landmark = None
       THEN /\ worker' = [worker EXCEPT ![w] = [pc |-> "write", report |-> r, match |-> Unmatched, fresh |-> TRUE]]
            /\ UNCHANGED geoVars
       ELSE /\ worker' = [worker EXCEPT ![w] = [pc |-> "geocode", report |-> r, match |-> Unmatched, fresh |-> TRUE]]
            /\ Lookup(w, report[r].form.landmark)
    /\ UNCHANGED <<buildings, import, imports, offers, report>>

LandmarkRadius == 100

\* The building nearest to where the landmark is, with a share of at most a half.
ByLandmark(p) ==
    {[building |-> b, confidence |-> "capped", by |-> "landmark"] : b \in Nearest(p, LandmarkRadius)}

\* The answer is in: no place, or an error, is no match.
FromLandmark(w) ==
    LET place == calls[w].answer
        found == IF place \in {Nowhere, Failed} THEN {} ELSE ByLandmark(place)
    IN  /\ worker[w].pc = "geocode" /\ calls[w].pc = "answered"
        /\ \E m \in IF found = {} THEN {Unmatched} ELSE found :
               worker' = [worker EXCEPT ![w] = [pc |-> "write", report |-> worker[w].report, match |-> m, fresh |-> TRUE]]
        /\ calls' = [calls EXCEPT ![w] = NoCall]
        /\ UNCHANGED <<buildings, import, imports, tasks, offers, report, provider, truth, answers, slot, burst>>

\* Without a match only the confidence is written: a building of an earlier task stays.
Written(row, m) ==
    IF m.building # None THEN m ELSE [row.match EXCEPT !.confidence = "zero"]

Finish(w) ==
    LET r == worker[w].report
    IN  /\ worker[w].pc = "write"
        /\ report' = [report EXCEPT ![r] =
               [@ EXCEPT !.match = Written(report[r], worker[w].match), !.done = TRUE,
                         !.fresh = worker[w].fresh /\ (worker[w].match.building = None => report[r].fresh)]]
        /\ worker' = [worker EXCEPT ![w] = NoTask]
        /\ UNCHANGED <<buildings, import, imports, tasks, offers, geoVars>>

\* It raises or dies before the commit, and is delivered again by Start.
Dies(w) ==
    /\ worker[w].pc = "write"
    /\ worker' = [worker EXCEPT ![w] = NoTask]
    /\ UNCHANGED <<buildings, import, imports, tasks, offers, report, geoVars>>

-----------------------------------------------------------------------------
(* The import. *)

Importing == import.source # None

\* One import at a time, which is the operator's part: _run takes no lock.
StartImport(d) ==
    /\ ~Importing /\ imports < MaxImports /\ imports + tasks < MaxWork
    /\ imports' = imports + 1
    /\ import' = [source |-> d, left |-> DOMAIN Sources[d], applied |-> None]
    /\ UNCHANGED <<buildings, tasks, offers, report, worker, geoVars>>

\* Mutant of Upserted: ON CONFLICT DO NOTHING.
UpsertedNew(b) == IF b \in DOMAIN buildings THEN buildings[b] ELSE Sources[import.source][b]

\* ON CONFLICT (external_id) DO UPDATE: the row, and its id, stay.
Upserted(b) == Sources[import.source][b]

\* A batch commits.  What was offered or matched before it may be out of date.
ImportBatch(b) ==
    /\ Importing /\ b \in import.left
    /\ buildings' = [n \in DOMAIN buildings \cup {b} |-> IF n = b THEN Upserted(b) ELSE buildings[n]]
    /\ import' = [import EXCEPT !.left = @ \ {b}]
    /\ offers' = [p \in DOMAIN offers |-> [offers[p] EXCEPT !.fresh = FALSE]]
    /\ report' = [r \in Reports |-> IF report[r] = NoRow THEN NoRow
                                    ELSE [report[r] EXCEPT !.live = FALSE, !.fresh = FALSE]]
    /\ worker' = [w \in Workers |-> IF worker[w] = NoTask THEN NoTask
                                    ELSE [worker[w] EXCEPT !.fresh = FALSE]]
    /\ UNCHANGED <<imports, tasks, geoVars>>

\* All batches are in, or one raises: what was committed before it stays.
EndImport ==
    /\ Importing
    /\ import' = [source |-> None, left |-> {},
                  applied |-> IF import.left = {} THEN import.source ELSE None]
    /\ UNCHANGED <<buildings, imports, tasks, offers, report, worker, geoVars>>

MatchingNext ==
    \/ \E r \in Reports, form \in Forms : AskOffer(r, form) \/ OpenOffline(r, form)
    \/ \E r \in Reports, choice \in Picks : Submit(r, choice)
    \/ \E p \in Gps : OfferExpires(p)
    \/ \E w \in Workers : (\E r \in Reports : Start(w, r)) \/ FromLandmark(w) \/ Finish(w) \/ Dies(w)
    \/ (\E d \in DOMAIN Sources : StartImport(d)) \/ (\E b \in Names : ImportBatch(b)) \/ EndImport
    \/ GeoNext /\ UNCHANGED <<buildings, import, imports, tasks, offers, report, worker>>

MatchingSpec == MatchingInit /\ [][MatchingNext]_matchingVars

-----------------------------------------------------------------------------
(* Properties. *)

Linked(r) == report[r].pc = "row" /\ report[r].match.building # None

\* The footprints may have changed since a report was matched; if they have not, it is
\* linked to a building within the radius its accuracy allows, 100 m at most, and to
\* the nearest unless the reporter picked it; by a landmark, to one within 100 m of
\* where the service puts it, and at half confidence at most.
LinkIsNear ==
    \A r \in Reports : Linked(r) /\ report[r].fresh =>
        LET row == report[r]  b == row.match.building  fix == row.form.fix
        IN  IF row.match.by = "fix"
            THEN /\ 2 * Dist(b, fix) <= IF row.form.accuracy \in {None} \cup 0..50 THEN 60
                                        ELSE IF row.form.accuracy >= 67 THEN 200 ELSE 3 * row.form.accuracy
                 /\ b = row.choice \/ \A c \in DOMAIN buildings : Dist(b, fix) <= Dist(c, fix)
            ELSE /\ Dist(b, truth[row.form.landmark]) < 100
                 /\ row.match.confidence \in {"capped", "zero"}

\* The reporter has the last word: a building of the offer made for this fix and
\* accuracy is the one the report is linked to ("the same set the candidates were drawn
\* from", confirm_building), as long as no import came between; and a report whose
\* building is missing from the map is never snapped to a neighbour.
ReporterDecides ==
    \A r \in Reports : report[r].pc = "row" /\ report[r].done =>
        LET row == report[r]
        IN  /\ row.live /\ row.choice \in Names =>
                   row.match.building = row.choice /\ row.match.confidence = "confirmed"
            /\ row.choice = "missing" => row.match.building = None

\* An import that ends without an error leaves every footprint of its source in the
\* table, whatever an import before it left behind when it failed between batches.
ImportConverges ==
    import.applied # None =>
        \A b \in DOMAIN Sources[import.applied] :
            b \in DOMAIN buildings /\ buildings[b] = Sources[import.applied][b]

-----------------------------------------------------------------------------
(* What the scoring that follows makes of two matched reports. *)

AsScored(r) ==
    [building |-> report[r].match.building, fix |-> report[r].form.fix, hash |-> 0, kind |-> <<1, 1>>]

Done(r) == report[r].pc = "row" /\ report[r].done

Scored == [building : Names \cup {None}, fix : {form.fix : form \in Forms}, hash : {0}, kind : {<<1, 1>>}]
Others == [building : Names \cup {None}, fix : OtherFixes, hash : {None, 0, 30}, kind : {<<1, 1>>, <<1, 2>>}]

\* A matched report, and one that is held for merge review with it.
MergeReview == {pair \in {<<a, b>> : a \in Scored, b \in Others} : Action(pair[1], pair[2]) = "auto_merge"}

\* Whatever other report a matched one is scored against: the weights let the two into
\* merge review only with one building, and with fixes within 16 m of each other,
\* whatever their photos and categories say.  (Fixes are whole metres here; with the
\* code's floats the bound is 16 2/3 m.)
MergeIsSamePlace ==
    \A r \in Reports, pair \in MergeReview : Done(r) /\ pair[1] = AsScored(r) =>
        LET a == pair[1]  b == pair[2]
        IN  a.building = b.building /\ a.building # None /\ Apart(a.fix, b.fix) <= 16

=============================================================================
