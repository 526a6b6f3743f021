---------------------------- MODULE PhotoRetention ----------------------------
(***************************************************************************)
(* Photos in the object store and the rows that name them: requests that   *)
(* upload, merges that copy a key to a second row, and the daily sweep     *)
(* that deletes what is past its retention.                                *)
(*                                                                         *)
(*   app/services/submission_service.py   PutPhoto, CommitPhoto            *)
(*   app/services/analyst_service.py      MergeLoad, MergeCommit           *)
(*   app/workers/retention_tasks.py       SweepList, SweepDelete, SweepClear *)
(*                                                                         *)
(* The store and the database share no transaction. A request puts the     *)
(* object first and the row second; the sweep takes the object first, too. *)
(***************************************************************************)
EXTENDS Integers, FiniteSets

CONSTANTS
    Reports,   \* report ids
    Keys,      \* bound: object keys, a new one for each upload
    NoKey,     \* NULL in photo_url
    Sweepers,  \* bound: sweeps that can run at once: beat, purge-photos, a redelivery
    Limit,     \* LIMIT of the sweep's query, 500 in the code
    MaxFaults  \* bound: crashes and storage errors

ASSUME RetentionAssumption ==
    /\ NoKey \notin Keys /\ IsFiniteSet(Keys)
    /\ Limit \in Nat \ {0} /\ MaxFaults \in Nat

VARIABLES
    row,      \* photo_url and created_at of each report; 0 is not created yet
    store,    \* keys of the objects in the store
    used,     \* keys given out so far: a key is a fresh UUID
    request,  \* the key a reporter's request has put and not yet committed
    merge,    \* the key a merge is going to write to its primary
    sweep,    \* each sweep's keys still to delete, and the one to clear from the rows
    clock,    \* created_at of the newest report; reports are counted, not timed
    cutoff,   \* the sweep's cutoff on that scale: now - retention
    late,     \* history: keys a merge wrote while a sweep had them, or after
    faults    \* history: faults so far, bounded by MaxFaults

vars == <<row, store, used, request, merge, sweep, clock, cutoff, late, faults>>

NoKeys == [r \in Reports |-> NoKey]
Asleep == [todo |-> {}, clearing |-> NoKey]

Init ==
    /\ row = [r \in Reports |-> [photo |-> NoKey, created |-> 0]]
    /\ store = {} /\ used = {}
    /\ request = NoKeys /\ merge = NoKeys
    /\ sweep = [s \in Sweepers |-> Asleep]
    /\ clock = 0 /\ cutoff = 0
    /\ late = {} /\ faults = 0

Exists(r) == row[r].created # 0

Holders(k) == {r \in Reports : row[r].photo = k}

Named(k) == Holders(k) # {}

Fault == faults < MaxFaults /\ faults' = faults + 1

-----------------------------------------------------------------------------
(* Reporters.                                                              *)

\* create_report without a photo, up to its commit.
SubmitBare(r) ==
    /\ ~Exists(r) /\ request[r] = NoKey
    /\ row' = [row EXCEPT ![r].created = clock + 1]
    /\ clock' = clock + 1
    /\ UNCHANGED <<store, used, request, merge, sweep, cutoff, late, faults>>

\* create_report or add_photo_to_report, up to upload_image.
PutPhoto(r, k) ==
    /\ request[r] = NoKey
    /\ k \notin used
    /\ used' = used \cup {k}
    /\ store' = store \cup {k}
    /\ request' = [request EXCEPT ![r] = k]
    /\ UNCHANGED <<row, merge, sweep, clock, cutoff, late, faults>>

\* created_at is set by the INSERT and never again.
CreatedAt(r) == IF Exists(r) THEN row[r].created ELSE clock + 1

\* The commit. A photo the row named before is not deleted.
CommitPhoto(r) ==
    /\ request[r] # NoKey
    /\ row' = [row EXCEPT ![r] = [photo |-> request[r], created |-> CreatedAt(r)]]
    /\ clock' = IF Exists(r) THEN clock ELSE clock + 1
    /\ request' = [request EXCEPT ![r] = NoKey]
    /\ UNCHANGED <<store, used, merge, sweep, cutoff, late, faults>>

\* The commit raises, or the process dies: the row is rolled back, the object stays.
RequestFails(r) ==
    /\ request[r] # NoKey
    /\ Fault
    /\ request' = [request EXCEPT ![r] = NoKey]
    /\ UNCHANGED <<row, store, used, merge, sweep, clock, cutoff, late>>

-----------------------------------------------------------------------------
(* Analysts: merge_reports and confirm_pending_merge, as far as photos go. *)

\* The duplicate's photo goes to a primary that has none.
MergeLoad(p, d) ==
    /\ p # d /\ Exists(p) /\ merge[p] = NoKey
    /\ row[p].photo = NoKey /\ row[d].photo # NoKey
    /\ merge' = [merge EXCEPT ![p] = row[d].photo]
    /\ UNCHANGED <<row, store, used, request, sweep, clock, cutoff, late, faults>>

InSweep(k) == \E s \in Sweepers : k \in sweep[s].todo \/ k = sweep[s].clearing

MergeCommit(p) ==
    /\ merge[p] # NoKey
    /\ row' = [row EXCEPT ![p].photo = merge[p]]
    /\ merge' = [merge EXCEPT ![p] = NoKey]
    /\ late' = IF InSweep(merge[p]) \/ merge[p] \notin store
                 THEN late \cup {merge[p]} ELSE late
    /\ UNCHANGED <<store, used, request, sweep, clock, cutoff, faults>>

\* Another duplicate of the request is not found: LookupError, rolled back.
MergeAborts(p) ==
    /\ merge[p] # NoKey
    /\ merge' = [merge EXCEPT ![p] = NoKey]
    /\ UNCHANGED <<row, store, used, request, sweep, clock, cutoff, late, faults>>

-----------------------------------------------------------------------------
(* The retention sweep.                                                    *)

\* Days go by.
TimePasses ==
    /\ cutoff <= clock
    /\ cutoff' = cutoff + 1
    /\ UNCHANGED <<row, store, used, request, merge, sweep, clock, late, faults>>

\* Mutant of ExpiredKey: WHERE created_at < cutoff, before the keys are grouped.
ExpiredByAnyReport(k) == \E r \in Holders(k) : row[r].created < cutoff

\* HAVING MAX(created_at) < cutoff: every report that names the key is older.
ExpiredKey(k) == Named(k) /\ \A r \in Holders(k) : row[r].created < cutoff

Expired == {k \in Keys : ExpiredKey(k)}

\* ORDER BY MAX(created_at): the newest report of j is no older than that of k.
NoOlder(j, k) ==
    \A r \in Holders(k) : \E q \in Holders(j) : row[r].created <= row[q].created

\* What the query may return: at most Limit expired keys, the oldest first.
Batches ==
    {b \in SUBSET Expired :
        /\ Cardinality(b) <= Limit
        /\ b # Expired => Cardinality(b) = Limit
        /\ \A k \in b, j \in Expired \ b : NoOlder(j, k)}

SweepList(s) ==
    /\ sweep[s] = Asleep
    /\ \E b \in Batches :
        /\ b # {}
        /\ sweep' = [sweep EXCEPT ![s].todo = b]
    /\ UNCHANGED <<row, store, used, request, merge, clock, cutoff, late, faults>>

\* Mutant of SweepDelete: a missing object is an error like any other.
SweepDeleteMissing(s, k) ==
    /\ sweep[s].clearing = NoKey /\ k \in sweep[s].todo
    /\ store' = store \ {k}
    /\ sweep' = [sweep EXCEPT ![s].todo = @ \ {k},
                              ![s].clearing = IF k \in store THEN k ELSE NoKey]
    /\ UNCHANGED <<row, used, request, merge, clock, cutoff, late, faults>>

\* delete_image: an object that is already gone counts as deleted.
SweepDelete(s, k) ==
    /\ sweep[s].clearing = NoKey /\ k \in sweep[s].todo
    /\ store' = store \ {k}
    /\ sweep' = [sweep EXCEPT ![s] = [todo |-> sweep[s].todo \ {k}, clearing |-> k]]
    /\ UNCHANGED <<row, used, request, merge, clock, cutoff, late, faults>>

\* Mutant of SweepDeleteFails: the row is cleared all the same.
SweepDeleteIgnored(s, k) ==
    /\ sweep[s].clearing = NoKey /\ k \in sweep[s].todo
    /\ Fault
    /\ sweep' = [sweep EXCEPT ![s].todo = @ \ {k}, ![s].clearing = k]
    /\ UNCHANGED <<row, store, used, request, merge, clock, cutoff, late>>

\* StorageError, whatever the store did: on to the next key, the rows keep this one.
SweepDeleteFails(s, k) ==
    /\ sweep[s].clearing = NoKey /\ k \in sweep[s].todo
    /\ Fault
    /\ \/ UNCHANGED store
       \/ store' = store \ {k}
    /\ sweep' = [sweep EXCEPT ![s].todo = @ \ {k}]
    /\ UNCHANGED <<row, used, request, merge, clock, cutoff, late>>

\* The rows an UPDATE ... SET photo_url = NULL WHERE photo_url = key leaves.
Cleared(k) == [r \in Reports |-> IF row[r].photo = k
                                   THEN [row[r] EXCEPT !.photo = NoKey] ELSE row[r]]

SweepClear(s) ==
    /\ sweep[s].clearing # NoKey
    /\ row' = Cleared(sweep[s].clearing)
    /\ sweep' = [sweep EXCEPT ![s].clearing = NoKey]
    /\ UNCHANGED <<store, used, request, merge, clock, cutoff, late, faults>>

\* The database fails or the worker dies. max_retries is 0; a redelivery lists again.
SweepDies(s) ==
    /\ sweep[s] # Asleep
    /\ Fault
    /\ sweep' = [sweep EXCEPT ![s] = Asleep]
    /\ UNCHANGED <<row, store, used, request, merge, clock, cutoff, late>>

-----------------------------------------------------------------------------

RequestStep(r) == SubmitBare(r) \/ (\E k \in Keys : PutPhoto(r, k)) \/ RequestFails(r)

SweepStep(s) ==
    SweepList(s) \/ (\E k \in Keys : SweepDelete(s, k)) \/ SweepClear(s)

SweepFails(s) == (\E k \in Keys : SweepDeleteFails(s, k)) \/ SweepDies(s)

Next ==
    \/ \E r \in Reports : RequestStep(r) \/ CommitPhoto(r)
    \/ \E p \in Reports : MergeCommit(p) \/ MergeAborts(p)
    \/ \E p, d \in Reports : MergeLoad(p, d)
    \/ \E s \in Sweepers : SweepStep(s) \/ SweepFails(s)
    \/ TimePasses

Spec == Init /\ [][Next]_vars

\* Time goes on, beat starts a sweep every day, a sweep and a transaction run on.
FairSpec ==
    /\ Spec
    /\ WF_vars(TimePasses)
    /\ \A s \in Sweepers : WF_vars(SweepStep(s))
    /\ \A r \in Reports : WF_vars(CommitPhoto(r)) /\ WF_vars(MergeCommit(r))

-----------------------------------------------------------------------------
(* Properties.                                                             *)

\* The shape of every variable; a sweep never takes more than LIMIT keys.
TypeOK ==
    /\ row \in [Reports -> [photo : Keys \cup {NoKey}, created : Nat]]
    /\ store \subseteq used /\ used \subseteq Keys
    /\ request \in [Reports -> Keys \cup {NoKey}]
    /\ merge \in [Reports -> Keys \cup {NoKey}]
    /\ sweep \in [Sweepers -> [todo : SUBSET Keys, clearing : Keys \cup {NoKey}]]
    /\ \A s \in Sweepers : Cardinality(sweep[s].todo) <= Limit
    /\ clock \in Nat /\ cutoff \in 0 .. clock + 1
    /\ late \subseteq Keys /\ faults \in 0..MaxFaults

\* "A photo is never deleted while a newer report still relies on it", for the keys that
\* no merge wrote while a sweep was at them: when the object of a key is gone, every
\* report that names the key is past its retention, so the next sweep clears it.
GoneMeansExpired ==
    \A r \in Reports :
        row[r].photo # NoKey /\ row[r].photo \notin store \cup late
            => row[r].created < cutoff

\* "Never clear a row whose object may still exist": whatever upload, failure or second
\* sweep came in between, a row loses its photo only when the object is gone.
ClearedOnlyWhenGone ==
    [][\A r \in Reports :
         row[r].photo # NoKey /\ row'[r].photo = NoKey => row[r].photo \notin store]_vars

\* An object that nothing in the database leads to.
Orphan(k) == k \in store /\ ~Named(k)

\* Analysts do not merge for ever. One that did could hand a deleted photo from report to
\* report just ahead of the sweep, and a sweep that takes Limit keys would get to no other.
MergesEnd == <>[](merge = NoKeys)

\* Retention is kept: a photo that a report names is in the end deleted and named by no
\* report, however merges pass it on and sweeps fail, or else was replaced in its last row.
PhotosGo ==
    MergesEnd =>
        \A k \in Keys : Named(k) ~> (~Named(k) /\ k \notin store) \/ Orphan(k)
=============================================================================
