---------------------------- MODULE ExportContent ----------------------------
(***************************************************************************)
(* What an export contains (app/services/export_service.py), and how its   *)
(* filters travel to the Celery task and back (routes/export.py,           *)
(* export_tasks.py).  A report is reduced to the columns the filters and   *)
(* the privacy rules look at; coordinates are integers in units of 10^-4   *)
(* degrees.                                                                *)
(***************************************************************************)
EXTENDS Integers, FiniteSets

None == -1      \* SQL NULL and Python None, among numbers

Statuses   == {"pending", "verified"}

\* A report, and an ExportRecord: its fields.
ExportRecord == [id : Int, status : Statuses, confidence : Int, missing : BOOLEAN,
                 lat : Int, accuracy : Int]

Precisions == {"exact", "reduced", "coarse"}

\* What _build_filters leaves: one list of values stands for the four that are
\* treated alike, and an empty one selects like none.  The pattern on
\* location_precision has refused every other value.
ExportFilters == [status : {{}, {"verified"}}, confidence : {None, 0, 50},
                  missingOnly : BOOLEAN, precision : Precisions]

-----------------------------------------------------------------------------
(* From the request to the task: a dict without the entries that are not set. *)

\* Mutant of FiltersToDict: "if filters.min_ai_confidence", as for the lists.
FiltersToDictTruthy(f) ==
    [k \in {"precision", "missingOnly"}
           \cup (IF f.status # {} THEN {"status"} ELSE {})
           \cup (IF f.confidence > 0 THEN {"confidence"} ELSE {}) |-> f[k]]

\* Mutant of FiltersToDict: the precision is left to its default.
FiltersToDictNoPrecision(f) ==
    [k \in {"missingOnly"}
           \cup (IF f.status # {} THEN {"status"} ELSE {})
           \cup (IF f.confidence # None THEN {"confidence"} ELSE {}) |-> f[k]]

FiltersToDict(f) ==
    [k \in {"precision", "missingOnly"}
           \cup (IF f.status # {} THEN {"status"} ELSE {})
           \cup (IF f.confidence # None THEN {"confidence"} ELSE {}) |-> f[k]]

Get(d, k, default) == IF k \in DOMAIN d THEN d[k] ELSE default

FiltersFromDict(d) ==
    [status |-> Get(d, "status", {}), confidence |-> Get(d, "confidence", None),
     missingOnly |-> Get(d, "missingOnly", FALSE), precision |-> Get(d, "precision", "exact")]

-----------------------------------------------------------------------------
(* Selection and anonymisation. *)

\* _build_query; a comparison with NULL is not true.
Selected(f, table) ==
    {r \in table :
        /\ f.status # {} => r.status \in f.status
        /\ f.confidence # None => r.confidence # None /\ r.confidence >= f.confidence
        /\ f.missingOnly => r.missing}

\* One unit of the last decimal place that is kept (_PRECISION_DP).
Grain == [exact |-> 1, reduced |-> 10, coarse |-> 100]

Coord(x, precision) ==
    IF x = None THEN None ELSE ((x + Grain[precision] \div 2) \div Grain[precision]) * Grain[precision]

\* An ExportRecord: only these fields leave the service.  The free text, which is
\* scrubbed, and the polygons that include_footprints adds are left out.
Anonymise(r, precision) ==
    [id |-> r.id, status |-> r.status, confidence |-> r.confidence, missing |-> r.missing,
     lat |-> Coord(r.lat, precision),
     accuracy |-> IF precision = "exact" THEN r.accuracy ELSE None]

Content(f, table) == {Anonymise(r, f.precision) : r \in Selected(f, table)}
=============================================================================
