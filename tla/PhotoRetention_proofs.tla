------------------------- MODULE PhotoRetention_proofs -------------------------
(***************************************************************************)
(* For any number of reports, keys, sweeps and faults: the types, that the *)
(* object of a photo only goes when every report that names it is past its *)
(* retention (or a merge overlapped the sweep), and that a row loses its   *)
(* photo only when the object is gone.                                     *)
(***************************************************************************)
EXTENDS PhotoRetention, FiniteSetTheorems, TLAPS

\* The keys sweep s is at: those it will delete and the one it will clear.
AtWork(s) == sweep[s].todo \cup ({sweep[s].clearing} \ {NoKey})

\* Only a report that exists names a photo or is the primary of a merge.
Existing ==
    \A r \in Reports : row[r].created = 0 => row[r].photo = NoKey /\ merge[r] = NoKey

\* A key is known to one request at first, which nothing else uses, whose object is there.
RequestPrivate ==
    \A r \in Reports : request[r] # NoKey =>
        /\ request[r] \in store
        /\ \A q \in Reports : row[q].photo # request[r] /\ merge[q] # request[r]
        /\ \A q \in Reports \ {r} : request[q] # request[r]
        /\ \A s \in Sweepers : request[r] \notin AtWork(s)

\* Keys that rows, merges and sweeps hold have been given out.
HeldUsed ==
    /\ \A r \in Reports : row[r].photo # NoKey => row[r].photo \in used
    /\ \A r \in Reports : merge[r] # NoKey => merge[r] \in used
    /\ \A s \in Sweepers : AtWork(s) \subseteq used

\* A key that a sweep is at is named by reports past their retention only.
WorkExpired ==
    \A s \in Sweepers, r \in Reports :
        row[r].photo \in AtWork(s) \ late => row[r].created < cutoff

\* The object of the key that a sweep is about to clear is gone.
ClearingGone == \A s \in Sweepers : sweep[s].clearing # NoKey => sweep[s].clearing \notin store

IInv == /\ TypeOK /\ Existing /\ RequestPrivate /\ HeldUsed
        /\ WorkExpired /\ ClearingGone /\ GoneMeansExpired

-----------------------------------------------------------------------------

\* A batch is a set of expired keys that fits the LIMIT.
LEMMA BatchFits ==
    ASSUME NEW b \in Batches
    PROVE  b \subseteq Expired /\ Cardinality(b) <= Limit
  BY DEF Batches

\* A set of keys that fits the LIMIT still does without one of them.
LEMMA Fewer ==
    ASSUME NEW S \in SUBSET Keys, NEW k, Cardinality(S) <= Limit
    PROVE  Cardinality(S \ {k}) <= Limit
  <1>1. IsFiniteSet(S)
    BY FS_Subset, RetentionAssumption DEF RetentionAssumption
  <1>2. IsFiniteSet(S \ {k}) /\ Cardinality(S \ {k}) <= Cardinality(S)
    BY <1>1, FS_Subset
  <1>3. Cardinality(S) \in Nat /\ Cardinality(S \ {k}) \in Nat
    BY <1>1, <1>2, FS_CardinalityType
  <1> QED  BY <1>2, <1>3, RetentionAssumption DEF RetentionAssumption

LEMMA NoneIsZero == Cardinality({}) = 0 /\ 0 <= Limit
  BY FS_EmptySet, RetentionAssumption DEF RetentionAssumption

LEMMA InitIInv == Init => IInv
  <1> SUFFICES ASSUME Init PROVE IInv
    OBVIOUS
  <1>a. /\ sweep \in [Sweepers -> [todo : SUBSET Keys, clearing : Keys \cup {NoKey}]]
        /\ \A s \in Sweepers : Cardinality(sweep[s].todo) <= Limit
    BY NoneIsZero DEF Init, Asleep
  <1>b. faults \in 0..MaxFaults
    BY RetentionAssumption DEF Init, RetentionAssumption
  <1>1. TypeOK
    BY <1>a, <1>b DEF Init, TypeOK, NoKeys
  <1>2. Existing /\ RequestPrivate /\ HeldUsed /\ WorkExpired /\ ClearingGone
    BY DEF Init, Existing, RequestPrivate, HeldUsed, WorkExpired, ClearingGone, AtWork,
           NoKeys, Asleep
  <1>3. GoneMeansExpired
    BY DEF Init, GoneMeansExpired
  <1> QED  BY <1>1, <1>2, <1>3 DEF IInv

-----------------------------------------------------------------------------
(* The steps.                                                              *)

LEMMA SubmitBareStep ==
    ASSUME IInv, NEW r \in Reports, SubmitBare(r)
    PROVE  IInv'
  <1> USE DEF IInv, SubmitBare, Exists
  <1>1. TypeOK'
    BY DEF TypeOK
  <1>2. (Existing /\ RequestPrivate /\ HeldUsed)'
    BY DEF TypeOK, Existing, RequestPrivate, HeldUsed, AtWork
  <1>3. (WorkExpired /\ ClearingGone)'
    BY RetentionAssumption
    DEF TypeOK, Existing, WorkExpired, ClearingGone, AtWork, RetentionAssumption
  <1>4. GoneMeansExpired'
    BY DEF TypeOK, Existing, GoneMeansExpired
  <1> QED  BY <1>1, <1>2, <1>3, <1>4

LEMMA PutPhotoStep ==
    ASSUME IInv, NEW r \in Reports, NEW k \in Keys, PutPhoto(r, k)
    PROVE  IInv'
  <1> USE DEF IInv, PutPhoto
  <1>0. k # NoKey
    BY RetentionAssumption DEF RetentionAssumption
  <1>1. TypeOK'
    BY DEF TypeOK
  <1>2. (Existing /\ HeldUsed /\ WorkExpired)'
    BY DEF Existing, HeldUsed, WorkExpired, AtWork
  <1>3. RequestPrivate'
    BY <1>0 DEF TypeOK, RequestPrivate, HeldUsed, AtWork
  <1>4. ClearingGone'
    BY DEF ClearingGone, HeldUsed, AtWork
  <1>5. GoneMeansExpired'
    BY DEF GoneMeansExpired
  <1> QED  BY <1>1, <1>2, <1>3, <1>4, <1>5

LEMMA CommitPhotoStep ==
    ASSUME IInv, NEW r \in Reports, CommitPhoto(r)
    PROVE  IInv'
  <1> USE DEF IInv, CommitPhoto, Exists
  <1>a. CreatedAt(r) \in Nat
    BY DEF TypeOK, CreatedAt
  <1>b. row' \in [Reports -> [photo : Keys \cup {NoKey}, created : Nat]]
    BY <1>a DEF TypeOK
  <1>c. clock' \in Nat /\ cutoff' \in 0 .. clock' + 1
    BY DEF TypeOK
  <1>1. TypeOK'
    BY <1>b, <1>c DEF TypeOK
  <1>2. Existing'
    BY DEF TypeOK, Existing, CreatedAt
  <1>3. RequestPrivate'
    BY DEF TypeOK, RequestPrivate, AtWork
  <1>4. HeldUsed'
    BY DEF TypeOK, RequestPrivate, HeldUsed, AtWork
  <1>5. WorkExpired'
    BY DEF TypeOK, RequestPrivate, WorkExpired, AtWork, CreatedAt
  <1>6. ClearingGone'
    BY DEF ClearingGone
  <1>7. GoneMeansExpired'
    BY DEF TypeOK, RequestPrivate, GoneMeansExpired, CreatedAt
  <1> QED  BY <1>1, <1>2, <1>3, <1>4, <1>5, <1>6, <1>7

LEMMA RequestFailsStep ==
    ASSUME IInv, NEW r \in Reports, RequestFails(r)
    PROVE  IInv'
  <1> USE DEF IInv, RequestFails, Fault
  <1>1. TypeOK'
    BY RetentionAssumption DEF TypeOK, RetentionAssumption
  <1>2. RequestPrivate'
    BY DEF TypeOK, RequestPrivate, AtWork
  <1>3. (Existing /\ HeldUsed /\ WorkExpired /\ ClearingGone /\ GoneMeansExpired)'
    BY DEF Existing, HeldUsed, WorkExpired, ClearingGone, GoneMeansExpired, AtWork
  <1> QED  BY <1>1, <1>2, <1>3

LEMMA MergeLoadStep ==
    ASSUME IInv, NEW p \in Reports, NEW d \in Reports, MergeLoad(p, d)
    PROVE  IInv'
  <1> USE DEF IInv, MergeLoad, Exists
  <1>1. TypeOK'
    BY DEF TypeOK
  <1>2. (Existing /\ RequestPrivate /\ HeldUsed)'
    BY DEF TypeOK, Existing, RequestPrivate, HeldUsed, AtWork
  <1>3. (WorkExpired /\ ClearingGone /\ GoneMeansExpired)'
    BY DEF WorkExpired, ClearingGone, GoneMeansExpired, AtWork
  <1> QED  BY <1>1, <1>2, <1>3

\* The key a merge writes is late when a sweep has it, and safe otherwise.
LEMMA MergeCommitStep ==
    ASSUME IInv, NEW p \in Reports, MergeCommit(p)
    PROVE  IInv'
  <1> USE DEF IInv, MergeCommit
  <1>1. TypeOK'
    BY DEF TypeOK
  <1>2. (Existing /\ RequestPrivate /\ HeldUsed)'
    BY DEF TypeOK, Existing, RequestPrivate, HeldUsed, AtWork
  <1>3. WorkExpired'
    BY DEF TypeOK, WorkExpired, AtWork, InSweep
  <1>4. ClearingGone'
    BY DEF ClearingGone
  <1>5. GoneMeansExpired'
    BY DEF TypeOK, GoneMeansExpired
  <1> QED  BY <1>1, <1>2, <1>3, <1>4, <1>5

LEMMA MergeAbortsStep ==
    ASSUME IInv, NEW p \in Reports, MergeAborts(p)
    PROVE  IInv'
  <1> USE DEF IInv, MergeAborts
  <1>1. TypeOK'
    BY DEF TypeOK
  <1>2. (Existing /\ RequestPrivate /\ HeldUsed)'
    BY RetentionAssumption
    DEF TypeOK, Existing, RequestPrivate, HeldUsed, AtWork, RetentionAssumption
  <1>3. (WorkExpired /\ ClearingGone /\ GoneMeansExpired)'
    BY DEF WorkExpired, ClearingGone, GoneMeansExpired, AtWork
  <1> QED  BY <1>1, <1>2, <1>3

\* The cutoff only moves on.
LEMMA TimePassesStep ==
    ASSUME IInv, TimePasses
    PROVE  IInv'
  <1> USE DEF IInv, TimePasses
  <1>1. TypeOK'
    BY DEF TypeOK
  <1>2. (Existing /\ RequestPrivate /\ HeldUsed /\ ClearingGone)'
    BY DEF Existing, RequestPrivate, HeldUsed, ClearingGone, AtWork
  <1>3. (WorkExpired /\ GoneMeansExpired)'
    BY DEF TypeOK, WorkExpired, GoneMeansExpired, AtWork
  <1> QED  BY <1>1, <1>2, <1>3

\* What a sweep lists is named, and by reports past their retention only.
LEMMA SweepListStep ==
    ASSUME IInv, NEW s \in Sweepers, SweepList(s)
    PROVE  IInv'
  <1> USE DEF IInv, SweepList
  <1>0. PICK b \in Batches : sweep' = [sweep EXCEPT ![s].todo = b]
    OBVIOUS
  <1>a. /\ b \subseteq Keys /\ Cardinality(b) <= Limit
        /\ \A k \in b : \E r \in Reports : row[r].photo = k
        /\ \A k \in b, r \in Reports : row[r].photo = k => row[r].created < cutoff
    BY BatchFits DEF Expired, ExpiredKey, Named, Holders
  <1>b. /\ \A q \in Sweepers \ {s} : sweep'[q] = sweep[q]
        /\ sweep'[s].todo = b /\ sweep'[s].clearing = NoKey
    BY <1>0 DEF TypeOK, Asleep
  <1>1. TypeOK'
    BY <1>0, <1>a, <1>b DEF TypeOK
  <1>2. b \subseteq used
    BY <1>a, RetentionAssumption DEF HeldUsed, RetentionAssumption
  <1>3. (Existing /\ HeldUsed)'
    BY <1>b, <1>2 DEF Existing, HeldUsed, AtWork
  <1>4. RequestPrivate'
    BY <1>a, <1>b DEF RequestPrivate, AtWork
  <1>5. WorkExpired'
    BY <1>a, <1>b DEF WorkExpired, AtWork
  <1>6. (ClearingGone /\ GoneMeansExpired)'
    BY <1>b DEF ClearingGone, GoneMeansExpired
  <1> QED  BY <1>1, <1>3, <1>4, <1>5, <1>6

\* The object of a key goes when only expired reports name it, and comes back never.
LEMMA SweepDeleteStep ==
    ASSUME IInv, NEW s \in Sweepers, NEW k \in Keys, SweepDelete(s, k)
    PROVE  IInv'
  <1> USE DEF IInv, SweepDelete
  <1>0. k # NoKey
    BY RetentionAssumption DEF RetentionAssumption
  <1>a. /\ \A q \in Sweepers \ {s} : sweep'[q] = sweep[q]
        /\ sweep'[s].todo = sweep[s].todo \ {k} /\ sweep'[s].clearing = k
    BY DEF TypeOK
  <1>b. k \in AtWork(s) /\ \A q \in Sweepers : AtWork(q)' \subseteq AtWork(q)
    BY <1>a DEF AtWork
  <1>c. \A q \in Sweepers : Cardinality(sweep'[q].todo) <= Limit
    BY <1>a, Fewer DEF TypeOK
  <1>e. sweep' \in [Sweepers -> [todo : SUBSET Keys, clearing : Keys \cup {NoKey}]]
    BY DEF TypeOK
  <1>1. TypeOK'
    BY <1>c, <1>e DEF TypeOK
  <1>2. Existing'
    BY DEF Existing
  <1>3. RequestPrivate'
    BY <1>b DEF RequestPrivate
  <1>4. HeldUsed'
    BY <1>b DEF HeldUsed
  <1>5. WorkExpired'
    BY <1>b DEF WorkExpired
  <1>d. \A q \in Sweepers : sweep'[q].clearing \in {sweep[q].clearing, k}
    BY <1>a
  <1>6. ClearingGone'
    <2>1. store' = store \ {k} /\ ClearingGone
      OBVIOUS
    <2> SUFFICES ASSUME NEW q \in Sweepers, sweep'[q].clearing # NoKey
                 PROVE  sweep'[q].clearing \notin store'
      BY DEF ClearingGone
    <2> QED  BY <1>d, <2>1 DEF ClearingGone
  <1>7. GoneMeansExpired'
    BY <1>b DEF GoneMeansExpired, WorkExpired
  <1> QED  BY <1>1, <1>2, <1>3, <1>4, <1>5, <1>6, <1>7

LEMMA SweepDeleteFailsStep ==
    ASSUME IInv, NEW s \in Sweepers, NEW k \in Keys, SweepDeleteFails(s, k)
    PROVE  IInv'
  <1> USE DEF IInv, SweepDeleteFails, Fault
  <1>0. k # NoKey /\ (store' = store \/ store' = store \ {k})
    BY RetentionAssumption DEF RetentionAssumption
  <1>a. /\ \A q \in Sweepers \ {s} : sweep'[q] = sweep[q]
        /\ sweep'[s].todo = sweep[s].todo \ {k} /\ sweep'[s].clearing = NoKey
    BY DEF TypeOK
  <1>b. k \in AtWork(s) /\ \A q \in Sweepers : AtWork(q)' \subseteq AtWork(q)
    BY <1>0, <1>a DEF AtWork
  <1>c. \A q \in Sweepers : Cardinality(sweep'[q].todo) <= Limit
    BY <1>a, Fewer DEF TypeOK
  <1>e. sweep' \in [Sweepers -> [todo : SUBSET Keys, clearing : Keys \cup {NoKey}]]
    BY DEF TypeOK
  <1>f. store' \subseteq used' /\ faults' \in 0..MaxFaults
    BY <1>0, RetentionAssumption DEF TypeOK, RetentionAssumption
  <1>1. TypeOK'
    BY <1>c, <1>e, <1>f DEF TypeOK
  <1>2. Existing'
    BY DEF Existing
  <1>3. RequestPrivate'
    BY <1>0, <1>b DEF RequestPrivate
  <1>4. HeldUsed'
    BY <1>b DEF HeldUsed
  <1>5. WorkExpired'
    BY <1>b DEF WorkExpired
  <1>6. ClearingGone'
    BY <1>0, <1>a DEF ClearingGone
  <1>7. GoneMeansExpired'
    BY <1>0, <1>b DEF GoneMeansExpired, WorkExpired
  <1> QED  BY <1>1, <1>2, <1>3, <1>4, <1>5, <1>6, <1>7

LEMMA SweepClearStep ==
    ASSUME IInv, NEW s \in Sweepers, SweepClear(s)
    PROVE  IInv'
  <1> USE DEF IInv, SweepClear
  <1>a. /\ \A q \in Sweepers \ {s} : sweep'[q] = sweep[q]
        /\ sweep'[s].todo = sweep[s].todo /\ sweep'[s].clearing = NoKey
    BY DEF TypeOK
  <1>b. \A q \in Sweepers : AtWork(q)' \subseteq AtWork(q)
    BY <1>a DEF AtWork
  <1>c. \A r \in Reports : /\ row'[r].photo \in {row[r].photo, NoKey}
                           /\ row'[r].created = row[r].created
    BY DEF TypeOK, Cleared
  <1>d. NoKey \notin used /\ \A q \in Sweepers : NoKey \notin AtWork(q)
    BY RetentionAssumption DEF TypeOK, AtWork, RetentionAssumption
  <1>1. TypeOK'
    BY DEF TypeOK, Cleared
  <1>2. Existing'
    BY <1>c DEF Existing
  <1>3. RequestPrivate'
    BY <1>b, <1>c DEF RequestPrivate
  <1>4. HeldUsed'
    BY <1>b, <1>c DEF HeldUsed
  <1>5. WorkExpired'
    BY <1>b, <1>c, <1>d DEF WorkExpired
  <1>6. ClearingGone'
    BY <1>a DEF ClearingGone
  <1>7. GoneMeansExpired'
    BY <1>c DEF GoneMeansExpired
  <1> QED  BY <1>1, <1>2, <1>3, <1>4, <1>5, <1>6, <1>7

LEMMA SweepDiesStep ==
    ASSUME IInv, NEW s \in Sweepers, SweepDies(s)
    PROVE  IInv'
  <1> USE DEF IInv, SweepDies, Fault
  <1>a. /\ \A q \in Sweepers \ {s} : sweep'[q] = sweep[q]
        /\ sweep'[s].todo = {} /\ sweep'[s].clearing = NoKey
    BY DEF TypeOK, Asleep
  <1>b. \A q \in Sweepers : AtWork(q)' \subseteq AtWork(q)
    BY <1>a DEF AtWork
  <1>1. TypeOK'
    BY NoneIsZero, RetentionAssumption DEF TypeOK, Asleep, RetentionAssumption
  <1>2. (Existing /\ RequestPrivate /\ HeldUsed)'
    BY <1>b DEF Existing, RequestPrivate, HeldUsed
  <1>3. WorkExpired'
    BY <1>b DEF WorkExpired
  <1>4. (ClearingGone /\ GoneMeansExpired)'
    BY <1>a DEF ClearingGone, GoneMeansExpired
  <1> QED  BY <1>1, <1>2, <1>3, <1>4

\* Every step keeps the invariant.
LEMMA NextIInv == IInv /\ [Next]_vars => IInv'
  <1> SUFFICES ASSUME IInv, [Next]_vars PROVE IInv'
    OBVIOUS
  <1>1. ASSUME NEW r \in Reports, RequestStep(r) \/ CommitPhoto(r) PROVE IInv'
    BY <1>1, SubmitBareStep, PutPhotoStep, RequestFailsStep, CommitPhotoStep DEF RequestStep
  <1>2. ASSUME NEW p \in Reports, MergeCommit(p) \/ MergeAborts(p) PROVE IInv'
    BY <1>2, MergeCommitStep, MergeAbortsStep
  <1>3. ASSUME NEW p \in Reports, NEW d \in Reports, MergeLoad(p, d) PROVE IInv'
    BY <1>3, MergeLoadStep
  <1>4. ASSUME NEW s \in Sweepers, SweepStep(s) \/ SweepFails(s) PROVE IInv'
    BY <1>4, SweepListStep, SweepDeleteStep, SweepClearStep, SweepDeleteFailsStep,
       SweepDiesStep DEF SweepStep, SweepFails
  <1>5. CASE TimePasses
    BY <1>5, TimePassesStep
  <1>6. CASE UNCHANGED vars
    BY <1>6 DEF vars, IInv, TypeOK, Existing, RequestPrivate, HeldUsed, WorkExpired,
                ClearingGone, GoneMeansExpired, AtWork
  <1> QED  BY <1>1, <1>2, <1>3, <1>4, <1>5, <1>6 DEF Next

LEMMA Invariance == Spec => []IInv
  BY InitIInv, NextIInv, PTL DEF Spec

-----------------------------------------------------------------------------

\* Type correctness of the photo store, its rows and its sweeps, and the LIMIT of a sweep.
THEOREM TypeCorrect == Spec => []TypeOK
  <1>1. IInv => TypeOK
    BY DEF IInv
  <1> QED  BY <1>1, Invariance, PTL

\* No photo of a report inside its retention is deleted, except one that a merge passed on
\* while a sweep had it: MAX(created_at) over the rows of a key is enough for the rest.
THEOREM RetentionSound == Spec => []GoneMeansExpired
  <1>1. IInv => GoneMeansExpired
    BY DEF IInv
  <1> QED  BY <1>1, Invariance, PTL

\* A row loses its photo only after the object has gone: delete first, clear second, and a
\* key whose object is gone is never put again.
THEOREM DeleteBeforeClear == Spec => ClearedOnlyWhenGone
  <1> DEFINE Gone == \A r \in Reports :
                row[r].photo # NoKey /\ row'[r].photo = NoKey => row[r].photo \notin store
  <1>1. IInv /\ [Next]_vars => [Gone]_vars
    <2> SUFFICES ASSUME IInv, Next, NEW r \in Reports,
                        row[r].photo # NoKey, row'[r].photo = NoKey
                 PROVE  row[r].photo \notin store
      BY DEF Gone
    <2>1. ASSUME NEW q \in Reports, RequestStep(q) \/ CommitPhoto(q)
          PROVE  FALSE
      BY <2>1 DEF RequestStep, SubmitBare, PutPhoto, RequestFails, CommitPhoto, IInv, TypeOK
    <2>2. ASSUME NEW p \in Reports, MergeCommit(p) \/ MergeAborts(p)
          PROVE  FALSE
      BY <2>2 DEF MergeCommit, MergeAborts, IInv, TypeOK
    <2>3. ASSUME NEW p \in Reports, NEW d \in Reports, MergeLoad(p, d)
          PROVE  FALSE
      BY <2>3 DEF MergeLoad
    <2>4. ASSUME NEW s \in Sweepers, SweepStep(s) \/ SweepFails(s)
          PROVE  row[r].photo \notin store
      <3>1. SweepClear(s)
        BY <2>4 DEF SweepStep, SweepFails, SweepList, SweepDelete, SweepDeleteFails, SweepDies
      <3>2. row[r].photo = sweep[s].clearing
        BY <3>1 DEF SweepClear, Cleared
      <3> QED  BY <3>1, <3>2 DEF SweepClear, IInv, ClearingGone
    <2>5. CASE TimePasses
      BY <2>5 DEF TimePasses
    <2> QED  BY <2>1, <2>2, <2>3, <2>4, <2>5 DEF Next
  <1> QED  BY <1>1, Invariance, PTL DEF Spec, ClearedOnlyWhenGone
=============================================================================
