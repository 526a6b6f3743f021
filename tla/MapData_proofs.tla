---------------------------- MODULE MapData_proofs ----------------------------
(***************************************************************************)
(* What TLAPS proves of the map's data, in two parts that share nothing.   *)
(*                                                                         *)
(* CachedReads, for any number of requests, reports, questions and writes  *)
(* and any time to live: the types, that an entry is stale for at most its *)
(* time to live, that nearby reports are near, and that the counts of a    *)
(* summary fit together.                                                   *)
(*                                                                         *)
(* Matching and the Geocoding it extends, for any footprints, forms,       *)
(* landmarks, reports, workers, imports and retries: the types, and every  *)
(* property of the matching run.                                           *)
(***************************************************************************)
EXTENDS CachedReads, Matching, FiniteSetTheorems, TLAPS

\* What a statement may return, a request that is under way, and an entry.
Values == Nat \cup [Severities -> Nat] \cup (SUBSET (Ids \X Severities)) \cup (SUBSET Ids)
Requests == [pc : {"reading", "done"}, ask : Asks, answer : Seq(Values), torn : BOOLEAN]
Entries == [answer : Seq(Values), age : 0..(Ttl - 1), torn : BOOLEAN]

\* The answer, as far as it goes, is what the table says now.
Fresh(answer, ask) == \A i \in 1..Len(answer) : answer[i] = Result(Statements[i], ask)

\* Its reports are within reach of some question with this key.
WithinReach(reached, ask) ==
    reached \subseteq Ids /\ \A r \in reached :
        Distance(ask.point, r) <= (IF ask.radius > 1000 THEN 1000 ELSE ask.radius)
Reachable(answer, key) ==
    view = "nearby" /\ Len(answer) >= 1 =>
        \E ask \in Asks : Key(ask) = key /\ WithinReach(answer[1], ask)

\* The summary's counts fit together, unless they are torn.
AddsUp(answer) ==
    answer[1] = answer[2]["minimal"] + answer[2]["destroyed"] /\ answer[3] <= answer[1]
Consistent(answer, torn) == view = "summary" => torn \/ AddsUp(answer)

\* A request reads what the table says, or is torn; an entry is current, or torn, or
\* has been there since before the last write.
RequestFits(t) ==
    \/ t = Free
    \/ /\ t \in Requests /\ Len(t.answer) <= Len(Statements)
       /\ t.pc = "done" => Len(t.answer) = Len(Statements) /\ Consistent(t.answer, t.torn)
       /\ t.pc = "reading" => t.torn \/ Fresh(t.answer, t.ask)
       /\ Reachable(t.answer, Key(t.ask))

EntryFits(k, e) ==
    /\ \E ask \in Asks : Key(ask) = k
    /\ e \in Entries /\ Len(e.answer) = Len(Statements)
    /\ \/ e.torn \/ e.age >= quiet
       \/ \E ask \in Asks : Key(ask) = k /\ Fresh(e.answer, ask)
    /\ Reachable(e.answer, k) /\ Consistent(e.answer, e.torn)

IInv ==
    /\ view \in Views /\ reports \in [Ids -> Rows]
    /\ changes \in 0..MaxChanges /\ quiet \in 0..Ttl
    /\ DOMAIN readers = Readers
    /\ \A q \in Readers : RequestFits(readers[q])
    /\ \A k \in DOMAIN cache : EntryFits(k, cache[k])

-----------------------------------------------------------------------------
(* The endpoints and their queries. *)

LEMMA StatementsFit ==
    ASSUME view \in Views
    PROVE  /\ Len(Statements) \in {1, 3}
           /\ \A i \in 1..Len(Statements) :
                  Statements[i] \in {"total", "severities", "pending", "points", "near"}
           /\ view = "nearby" => Len(Statements) = 1 /\ Statements[1] = "near"
           /\ view # "nearby" => \A i \in 1..Len(Statements) : Statements[i] # "near"
<1>1. CASE view = "summary"
  BY <1>1 DEF Statements
<1>2. CASE view = "heatmap"
  BY <1>2 DEF Statements
<1>3. CASE view = "nearby"
  BY <1>3 DEF Statements
<1> QED
  BY <1>1, <1>2, <1>3, CachedReadsAssumption

\* Counts are numbers: there are finitely many reports.
LEMMA Counts == \A S : S \subseteq Ids => Cardinality(S) \in Nat
<1>1. Ids = 1..Len(Place) /\ Len(Place) \in Nat
  BY CachedReadsAssumption DEF Ids
<1>2. IsFiniteSet(Ids)
  BY <1>1, FS_Interval
<1> QED
  BY <1>2, FS_Subset, FS_CardinalityType

\* The reports that are not rejected are those of the one severity and those of the
\* other, and the merge backlog is among them.
LEMMA CountsFit ==
    ASSUME reports \in [Ids -> Rows], view = "summary", NEW answer, NEW ask,
           Len(answer) = Len(Statements), Fresh(answer, ask)
    PROVE  AddsUp(answer)
<1>1. /\ Len(Statements) = 3 /\ Statements[1] = "total"
      /\ Statements[2] = "severities" /\ Statements[3] = "pending"
  BY DEF Statements
<1>2. /\ answer[1] = Result("total", ask) /\ answer[2] = Result("severities", ask)
      /\ answer[3] = Result("pending", ask)
  BY <1>1 DEF Fresh
<1> DEFINE merging == {r \in Present : reports[r].status = "pending_merge_review"}
<1>3. IsFiniteSet(NotRejected)
  <2>1. Ids = 1..Len(Place) /\ Len(Place) \in Nat
    BY CachedReadsAssumption DEF Ids
  <2>2. IsFiniteSet(Ids) /\ NotRejected \subseteq Ids
    BY <2>1, FS_Interval DEF NotRejected, Present
  <2> QED
    BY <2>2, FS_Subset
<1>4. merging \subseteq NotRejected
  BY DEF NotRejected
<1>5. Cardinality(merging) <= Cardinality(NotRejected)
  BY <1>3, <1>4, FS_Subset
<1>6. /\ BySeverity("minimal") \cup BySeverity("destroyed") = NotRejected
      /\ BySeverity("minimal") \cap BySeverity("destroyed") = {}
  BY DEF BySeverity, NotRejected, Present, Rows, Severities
<1>7. IsFiniteSet(BySeverity("minimal")) /\ IsFiniteSet(BySeverity("destroyed"))
  BY <1>3, <1>6, FS_Subset
<1>8. Cardinality(NotRejected) =
          Cardinality(BySeverity("minimal")) + Cardinality(BySeverity("destroyed"))
  <2> DEFINE m == BySeverity("minimal")
             d == BySeverity("destroyed")
  <2>1. Cardinality(m \cup d) = Cardinality(m) + Cardinality(d) - Cardinality(m \cap d)
    BY <1>7, FS_Union
  <2>2. Cardinality({}) = 0 /\ Cardinality(m) \in Nat /\ Cardinality(d) \in Nat
    BY <1>7, FS_EmptySet, FS_CardinalityType
  <2>3. Cardinality(m \cap d) = 0 /\ m \cup d = NotRejected
    BY <1>6, <2>2
  <2> HIDE DEF m, d
  <2>4. Cardinality(NotRejected) = Cardinality(m) + Cardinality(d) - 0
    BY <2>1, <2>3, Zenon
  <2> QED
    BY <2>2, <2>4 DEF m, d
<1>9. /\ answer[1] = Cardinality(NotRejected) /\ answer[3] = Cardinality(merging)
      /\ answer[2] = [s \in Severities |-> Cardinality(BySeverity(s))]
  BY <1>2 DEF Result
<1>10. /\ answer[2]["minimal"] = Cardinality(BySeverity("minimal"))
       /\ answer[2]["destroyed"] = Cardinality(BySeverity("destroyed"))
  BY <1>9 DEF Severities
<1> QED
  BY <1>5, <1>8, <1>9, <1>10 DEF AddsUp

LEMMA ResultFits ==
    ASSUME reports \in [Ids -> Rows], NEW ask, NEW st \in {"total", "severities", "pending", "points", "near"}
    PROVE  Result(st, ask) \in Values
<1>1. CASE st = "total"
  BY <1>1, Counts DEF Result, Values, NotRejected, Present
<1>2. CASE st = "severities"
  BY <1>2, Counts DEF Result, Values, BySeverity, NotRejected, Present
<1>3. CASE st = "pending"
  BY <1>3, Counts DEF Result, Values, Present
<1>4. CASE st = "points"
  <2>1. {<<r, reports[r].severity>> : r \in NotRejected} \subseteq Ids \X Severities
    BY DEF NotRejected, Present, Rows
  <2> QED
    BY <1>4, <2>1 DEF Result, Values
<1>5. CASE st = "near"
  <2>1. Near(ask) \subseteq Ids
    BY DEF Near, Present
  <2>2. Result(st, ask) = Near(ask)
    BY <1>5 DEF Result
  <2> QED
    BY <2>1, <2>2 DEF Values
<1> QED
  BY <1>1, <1>2, <1>3, <1>4, <1>5

\* Nobody's view changes, so the keys stay what they are.
LEMMA ViewStays ==
    ASSUME UNCHANGED view
    PROVE  /\ Asks' = Asks /\ Statements' = Statements /\ Requests' = Requests
           /\ \A ask : Key(ask)' = Key(ask)
           /\ \A a, k : Reachable(a, k)' = Reachable(a, k)
           /\ \A a, torn : Consistent(a, torn)' = Consistent(a, torn)
<1>1. Asks' = Asks /\ Statements' = Statements /\ \A ask : Key(ask)' = Key(ask)
  BY DEF Asks, Statements, Key
<1>2. Requests' = Requests
  BY <1>1 DEF Requests
<1>3. \A a, k : Reachable(a, k)' = Reachable(a, k)
  BY <1>1 DEF Reachable
<1>4. \A a, torn : Consistent(a, torn)' = Consistent(a, torn)
  BY DEF Consistent, AddsUp
<1> QED
  BY <1>1, <1>2, <1>3, <1>4

LEMMA TableStays ==
    ASSUME UNCHANGED <<view, reports>>
    PROVE  \A a, ask : Fresh(a, ask)' = Fresh(a, ask)
<1>1. \A st, ask : Result(st, ask)' = Result(st, ask)
  BY DEF Result, Near, NotRejected, BySeverity, Present, Distance
<1>2. Statements' = Statements
  BY ViewStays
<1> QED
  BY <1>1, <1>2 DEF Fresh

\* The rest of the invariant for a step that leaves the table and the quiet time alone.
LEMMA RequestsStay ==
    ASSUME UNCHANGED <<view, reports>>
    PROVE  \A t : RequestFits(t) => RequestFits(t)'
<1>1. \A ask : Key(ask)' = Key(ask)
  BY ViewStays
<1>2. \A a, k : Reachable(a, k)' = Reachable(a, k)
  BY ViewStays
<1>3. \A a, ask : Fresh(a, ask)' = Fresh(a, ask)
  BY TableStays
<1>4. Requests' = Requests /\ Statements' = Statements
  BY ViewStays
<1>5. \A a, torn : Consistent(a, torn)' = Consistent(a, torn)
  BY ViewStays
<1> QED
  BY <1>1, <1>2, <1>3, <1>4, <1>5 DEF RequestFits

LEMMA EntriesStay ==
    ASSUME UNCHANGED <<view, reports, quiet>>
    PROVE  \A k, e : EntryFits(k, e) => EntryFits(k, e)'
<1>1. Asks' = Asks /\ Statements' = Statements /\ \A ask : Key(ask)' = Key(ask)
  BY ViewStays
<1>2. \A a, k : Reachable(a, k)' = Reachable(a, k)
  BY ViewStays
<1>3. \A a, ask : Fresh(a, ask)' = Fresh(a, ask)
  BY TableStays
<1>4. \A a, torn : Consistent(a, torn)' = Consistent(a, torn)
  BY ViewStays
<1> QED
  BY <1>1, <1>2, <1>3, <1>4 DEF EntryFits, Entries

-----------------------------------------------------------------------------
(* The steps. *)

LEMMA InitInv == Init => IInv
<1> SUFFICES ASSUME Init PROVE IInv
  OBVIOUS
<1>1. reports \in [Ids -> Rows]
  BY DEF Init, Rows, Absent, Severities
<1>2. \A q \in Readers : RequestFits(readers[q])
  BY DEF Init, RequestFits
<1>3. DOMAIN cache = {}
  BY DEF Init
<1>4. changes \in 0..MaxChanges /\ quiet \in 0..Ttl
  BY CachedReadsAssumption DEF Init
<1> QED
  BY <1>1, <1>2, <1>3, <1>4 DEF Init, IInv

\* A step of one request that changes nothing else.
LEMMA OneRequest ==
    ASSUME IInv, UNCHANGED <<view, reports, cache, changes, quiet>>, NEW q \in Readers,
           NEW t, RequestFits(t), readers' = [readers EXCEPT ![q] = t]
    PROVE  IInv'
<1>1. \A p \in Readers : RequestFits(readers'[p])
  BY DEF IInv
<1>2. \A p \in Readers : RequestFits(readers[p])'
  BY <1>1, RequestsStay
<1>3. \A k \in DOMAIN cache : EntryFits(k, cache[k])'
  BY EntriesStay DEF IInv
<1> QED
  BY <1>2, <1>3 DEF IInv

LEMMA AskInv == ASSUME IInv, NEW q \in Readers, NEW ask \in Asks, Ask(q, ask) PROVE IInv'
<1>1. CASE Key(ask) \in DOMAIN cache
  <2> DEFINE e == cache[Key(ask)]
             t == [pc |-> "done", ask |-> ask, answer |-> e.answer, torn |-> e.torn]
  <2>1. /\ e \in Entries /\ Len(e.answer) = Len(Statements)
        /\ Reachable(e.answer, Key(ask)) /\ Consistent(e.answer, e.torn)
    BY <1>1 DEF IInv, EntryFits
  <2>2. Len(Statements) \in {1, 3}
    BY StatementsFit DEF IInv
  <2> HIDE DEF e
  <2>3. RequestFits(t)
    BY <2>1, <2>2 DEF RequestFits, Requests, Entries
  <2>4. readers' = [readers EXCEPT ![q] = t] /\ UNCHANGED <<view, reports, cache, changes, quiet>>
    BY <1>1 DEF Ask, e
  <2> HIDE DEF t
  <2> QED
    BY <2>3, <2>4, OneRequest
<1>2. CASE Key(ask) \notin DOMAIN cache
  <2> DEFINE t == [pc |-> "reading", ask |-> ask, answer |-> <<>>, torn |-> FALSE]
  <2>1. Len(Statements) \in {1, 3}
    BY StatementsFit DEF IInv
  <2>2. <<>> \in Seq(Values) /\ Len(<<>>) = 0
    OBVIOUS
  <2>3. Fresh(<<>>, ask) /\ Reachable(<<>>, Key(ask))
    BY <2>2 DEF Fresh, Reachable
  <2>4. RequestFits(t)
    BY <2>1, <2>2, <2>3 DEF RequestFits, Requests
  <2>5. readers' = [readers EXCEPT ![q] = t] /\ UNCHANGED <<view, reports, cache, changes, quiet>>
    BY <1>2 DEF Ask
  <2> HIDE DEF t
  <2> QED
    BY <2>4, <2>5, OneRequest
<1> QED
  BY <1>1, <1>2

LEMMA ReadInv == ASSUME IInv, NEW q \in Readers, Read(q) PROVE IInv'
<1> DEFINE a == readers[q].answer
           ask == readers[q].ask
           v == Result(Statements[Len(a) + 1], ask)
           t == [readers[q] EXCEPT !.answer = Append(a, v)]
<1>1. /\ readers[q] \in Requests /\ readers[q].pc = "reading"
      /\ Len(a) < Len(Statements) /\ Reachable(a, Key(ask))
      /\ readers[q].torn \/ Fresh(a, ask)
  BY DEF IInv, RequestFits, Read, Free
<1>2. a \in Seq(Values) /\ ask \in Asks /\ Len(a) \in Nat
  BY <1>1 DEF Requests
<1>3. Len(Statements) \in {1, 3} /\ v \in Values
  BY <1>1, <1>2, StatementsFit, ResultFits DEF IInv
<1>4. /\ Append(a, v) \in Seq(Values) /\ Len(Append(a, v)) = Len(a) + 1
      /\ \A i \in 1..Len(a) : Append(a, v)[i] = a[i]
      /\ Append(a, v)[Len(a) + 1] = v
  BY <1>2, <1>3
<1>5. Fresh(a, ask) => Fresh(Append(a, v), ask)
  BY <1>2, <1>4 DEF Fresh
<1>6. Reachable(Append(a, v), Key(ask))
  <2> SUFFICES ASSUME view = "nearby" PROVE \E b \in Asks : Key(b) = Key(ask) /\ WithinReach(Append(a, v)[1], b)
    BY DEF Reachable
  <2>1. Len(a) = 0 /\ Statements[1] = "near"
    <3>1. view \in Views /\ Len(Statements) = 1 /\ Statements[1] = "near"
      BY StatementsFit DEF IInv
    <3> QED
      BY <1>1, <1>2, <3>1
  <2>2. Append(a, v)[1] = Near(ask)
    BY <1>4, <2>1 DEF Result
  <2>3. WithinReach(Near(ask), ask)
    BY DEF WithinReach, Near, Present
  <2> QED
    BY <1>2, <2>2, <2>3
<1>7. readers' = [readers EXCEPT ![q] = t] /\ UNCHANGED <<view, reports, cache, changes, quiet>>
  BY DEF Read
<1> HIDE DEF v
<1>8. t \in Requests /\ t.answer = Append(a, v) /\ t.ask = ask /\ t.torn = readers[q].torn
      /\ t.pc = "reading"
  BY <1>1, <1>4 DEF Requests
<1>9. RequestFits(t)
  BY <1>1, <1>2, <1>3, <1>4, <1>5, <1>6, <1>8 DEF RequestFits
<1> HIDE DEF t
<1> QED
  BY <1>7, <1>9, OneRequest

LEMMA StoreInv == ASSUME IInv, NEW q \in Readers, Store(q) PROVE IInv'
<1> DEFINE r == readers[q]
           key == Key(r.ask)
           t == [r EXCEPT !.pc = "done"]
           e == [answer |-> r.answer, age |-> 0, torn |-> r.torn]
<1>1. /\ r \in Requests /\ r.pc = "reading" /\ Len(r.answer) = Len(Statements)
      /\ Reachable(r.answer, key) /\ (r.torn \/ Fresh(r.answer, r.ask))
  BY DEF IInv, RequestFits, Store, Free
<1>2. Len(Statements) \in {1, 3}
  BY StatementsFit DEF IInv
<1>3. /\ UNCHANGED <<view, reports, changes, quiet>> /\ readers' = [readers EXCEPT ![q] = t]
      /\ cache' = [k \in DOMAIN cache \cup {key} |-> IF k = key THEN e ELSE cache[k]]
  BY DEF Store
<1>4. Consistent(r.answer, r.torn)
  BY <1>1, CountsFit DEF Consistent, IInv, AddsUp
<1>5. RequestFits(t)
  BY <1>1, <1>2, <1>4 DEF RequestFits, Requests
<1>6. EntryFits(key, e)
  BY <1>1, <1>4, CachedReadsAssumption DEF EntryFits, Entries, Requests
<1> HIDE DEF t, e
<1>7. (\A p \in Readers : RequestFits(readers'[p])) /\ \A k \in DOMAIN cache' : EntryFits(k, cache'[k])
  BY <1>3, <1>5, <1>6 DEF IInv
<1>8. \A p \in Readers : RequestFits(readers[p])'
  BY <1>3, <1>7, RequestsStay
<1>9. \A k \in DOMAIN cache' : EntryFits(k, cache[k])'
  BY <1>3, <1>7, EntriesStay
<1> QED
  BY <1>3, <1>8, <1>9 DEF IInv

LEMMA RespondInv == ASSUME IInv, NEW q \in Readers, Respond(q) PROVE IInv'
<1>1. RequestFits(Free)
  BY DEF RequestFits
<1> QED
  BY <1>1, OneRequest DEF Respond

LEMMA WriteInv == ASSUME IInv, NEW r \in Ids, NEW new \in Rows, Write(r, new) PROVE IInv'
<1>1. UNCHANGED <<view, cache>> /\ quiet' = 0 /\ reports' \in [Ids -> Rows]
      /\ changes' \in 0..MaxChanges /\ DOMAIN readers' = Readers
  BY CachedReadsAssumption DEF Write, IInv
<1>2. Asks' = Asks /\ Statements' = Statements /\ Requests' = Requests
      /\ (\A ask : Key(ask)' = Key(ask)) /\ (\A a, k : Reachable(a, k)' = Reachable(a, k))
      /\ \A a, torn : Consistent(a, torn)' = Consistent(a, torn)
  BY <1>1, ViewStays
<1>3. ASSUME NEW q \in Readers PROVE RequestFits(readers[q])'
  <2>1. CASE readers[q] = Free
    BY <2>1 DEF Write, RequestFits, Free
  <2>2. CASE readers[q] \in Requests /\ readers[q].pc = "done"
    BY <1>2, <2>2 DEF Write, RequestFits, IInv, Free
  <2>3. CASE readers[q] \in Requests /\ readers[q].pc = "reading" /\ readers[q].answer # <<>>
    <3> DEFINE t == [readers[q] EXCEPT !.torn = TRUE]
    <3>1. readers'[q] = t
      BY <2>3 DEF Write
    <3>2. t \in Requests /\ t.pc = "reading" /\ t.torn /\ t.answer = readers[q].answer /\ t.ask = readers[q].ask
      BY <2>3 DEF Requests
    <3>3. Len(readers[q].answer) <= Len(Statements) /\ Reachable(readers[q].answer, Key(readers[q].ask))
      BY <2>3 DEF IInv, RequestFits, Free
    <3> HIDE DEF t
    <3> QED
      BY <1>2, <3>1, <3>2, <3>3 DEF RequestFits
  <2>4. CASE readers[q] \in Requests /\ readers[q].pc = "reading" /\ readers[q].answer = <<>>
    <3>1. readers'[q] = readers[q] /\ Len(readers[q].answer) = 0
      BY <2>4 DEF Write
    <3>2. Fresh(readers[q].answer, readers[q].ask)'
      BY <3>1 DEF Fresh
    <3>3. Len(readers[q].answer) <= Len(Statements) /\ Reachable(readers[q].answer, Key(readers[q].ask))
      BY <2>4 DEF IInv, RequestFits, Free
    <3> QED
      BY <1>2, <2>4, <3>1, <3>2, <3>3 DEF RequestFits
  <2> QED
    BY <2>1, <2>2, <2>3, <2>4 DEF IInv, RequestFits, Requests
<1>4. ASSUME NEW k \in DOMAIN cache PROVE EntryFits(k, cache[k])'
  <2>1. EntryFits(k, cache[k])
    BY DEF IInv
  <2>2. cache[k].age >= 0
    BY <2>1 DEF EntryFits, Entries
  <2> QED
    BY <1>1, <1>2, <2>1, <2>2 DEF EntryFits, Entries
<1>5. quiet' \in 0..Ttl
  BY <1>1, CachedReadsAssumption
<1> QED
  BY <1>1, <1>3, <1>4, <1>5 DEF IInv

LEMMA TickInv == ASSUME IInv, Tick PROVE IInv'
<1>1. UNCHANGED <<view, reports, readers, changes>> /\ quiet \in 0..Ttl /\ quiet' \in 0..Ttl
      /\ quiet' <= quiet + 1
  BY CachedReadsAssumption DEF Tick, IInv
<1>2. \A q \in Readers : RequestFits(readers[q])'
  BY <1>1, RequestsStay DEF IInv
<1>3. Asks' = Asks /\ Statements' = Statements
      /\ (\A ask : Key(ask)' = Key(ask)) /\ (\A a, k : Reachable(a, k)' = Reachable(a, k))
      /\ \A a, torn : Consistent(a, torn)' = Consistent(a, torn)
  BY <1>1, ViewStays
<1>4. \A a, ask : Fresh(a, ask)' = Fresh(a, ask)
  BY <1>1, TableStays
<1>5. ASSUME NEW k \in DOMAIN cache' PROVE EntryFits(k, cache[k])'
  <2>1. k \in DOMAIN cache /\ Kept(k) /\ cache'[k] = [cache[k] EXCEPT !.age = cache[k].age + 1]
    BY DEF Tick
  <2>2. EntryFits(k, cache[k])
    BY <2>1 DEF IInv
  <2>3. cache[k] \in Entries /\ cache[k].age + 1 < Ttl
    BY <2>1, <2>2 DEF EntryFits, Kept
  <2>4. /\ cache'[k] \in Entries /\ cache'[k].answer = cache[k].answer
        /\ cache'[k].torn = cache[k].torn /\ cache'[k].age = cache[k].age + 1
    <3> DEFINE n == cache[k].age + 1
    <3>1. n \in 0..(Ttl - 1)
      BY <2>3, CachedReadsAssumption DEF Entries
    <3>2. cache'[k] = [cache[k] EXCEPT !.age = n]
      BY <2>1
    <3> HIDE DEF n
    <3>3. cache'[k] \in Entries /\ cache'[k].answer = cache[k].answer
          /\ cache'[k].torn = cache[k].torn /\ cache'[k].age = n
      BY <2>3, <3>1, <3>2 DEF Entries
    <3> QED
      BY <3>3 DEF n
  <2>5. cache[k].age >= quiet => cache'[k].age >= quiet'
    BY <1>1, <2>3, <2>4 DEF Entries
  <2> QED
    BY <1>3, <1>4, <2>2, <2>4, <2>5 DEF EntryFits, Entries
<1> QED
  BY <1>1, <1>2, <1>5 DEF IInv

LEMMA StepInv == ASSUME IInv, [Next]_vars PROVE IInv'
<1>1. CASE UNCHANGED vars
  <2>1. UNCHANGED <<view, reports, cache, readers, changes, quiet>>
    BY <1>1 DEF vars
  <2>2. (\A q \in Readers : RequestFits(readers[q])') /\ \A k \in DOMAIN cache : EntryFits(k, cache[k])'
    BY <2>1, RequestsStay, EntriesStay DEF IInv
  <2> QED
    BY <2>1, <2>2 DEF IInv
<1> QED
  BY <1>1, AskInv, ReadInv, StoreInv, RespondInv, WriteInv, TickInv DEF Next

LEMMA Invariance == Spec => []IInv
  BY InitInv, StepInv, PTL DEF Spec

-----------------------------------------------------------------------------
(* The theorems. *)

\* Type correctness: requests and entries hold answers of their endpoint's length, for
\* questions of that endpoint, and no entry outlives its time to live.
THEOREM TypeCorrect == Spec => []TypeOK
<1>1. IInv => TypeOK
  <2> SUFFICES ASSUME IInv PROVE TypeOK
    OBVIOUS
  <2>1. DOMAIN cache \subseteq {Key(ask) : ask \in Asks}
    BY DEF IInv, EntryFits
  <2>2. ASSUME NEW k \in DOMAIN cache
        PROVE  DOMAIN cache[k].answer = 1..Len(Statements)
               /\ cache[k].age \in 0..(Ttl - 1) /\ cache[k].torn \in BOOLEAN
    BY DEF IInv, EntryFits, Entries
  <2>3. ASSUME NEW q \in Readers
        PROVE  \/ readers[q] = Free
               \/ /\ readers[q].pc \in {"reading", "done"} /\ readers[q].ask \in Asks
                  /\ Len(readers[q].answer) <= Len(Statements) /\ readers[q].torn \in BOOLEAN
    BY DEF IInv, RequestFits, Requests
  <2> QED
    BY <2>1, <2>2, <2>3 DEF IInv, TypeOK
<1> QED
  BY <1>1, Invariance, PTL

\* When nobody has written for a time to live, an entry is what the table says, unless
\* a request stored what it had read before a write ("cached 60 s", with no invalidation).
THEOREM StaleNoLonger == Spec => []StaleAtMostTtl
<1>1. IInv => StaleAtMostTtl
  <2> SUFFICES ASSUME IInv, quiet = Ttl, NEW k \in DOMAIN cache, ~cache[k].torn
               PROVE  \E ask \in Asks : Key(ask) = k
                          /\ cache[k].answer = [i \in 1..Len(Statements) |-> Result(Statements[i], ask)]
    BY DEF StaleAtMostTtl
  <2>1. cache[k] \in Entries /\ Len(cache[k].answer) = Len(Statements)
    BY DEF IInv, EntryFits
  <2>2. ~(cache[k].age >= quiet)
    BY <2>1, CachedReadsAssumption DEF Entries
  <2>3. PICK ask \in Asks : Key(ask) = k /\ Fresh(cache[k].answer, ask)
    BY <2>2 DEF IInv, EntryFits
  <2>4. cache[k].answer \in [1..Len(Statements) -> Values]
    BY <2>1 DEF Entries
  <2> QED
    BY <2>1, <2>3, <2>4 DEF Fresh
<1> QED
  BY <1>1, Invariance, PTL

\* The total of a summary is the sum of its severities and covers the merge backlog,
\* although a request counts them in three statements and other requests answer from
\* what it stored, unless a write came between the statements.
THEOREM CountsOfASummaryAddUp == Spec => []CountsAddUp
<1>1. IInv => CountsAddUp
  <2> SUFFICES ASSUME IInv, view = "summary", NEW q \in Answered, ~readers[q].torn
               PROVE  AddsUp(readers[q].answer)
    BY DEF CountsAddUp, AddsUp
  <2>1. q \in Readers /\ readers[q] # Free /\ readers[q].pc = "done"
    BY DEF Answered, Free
  <2>2. Consistent(readers[q].answer, readers[q].torn)
    BY <2>1 DEF IInv, RequestFits
  <2> QED
    BY <2>2 DEF Consistent
<1> QED
  BY <1>1, Invariance, PTL

\* Two questions with one key: their points are in one cell, their radii round to one
\* number of metres (get_nearby_reports' cache key).
LEMMA SameCell ==
    ASSUME NEW p \in Nat, NEW q \in Nat, (p + 55) \div 111 = (q + 55) \div 111
    PROVE  q - p <= 110 /\ p - q <= 110
  OBVIOUS

LEMMA SameReach ==
    ASSUME NEW p \in Nat, NEW q \in Nat,
           (IF p > 1000 THEN 1000 ELSE p) \div 10 = (IF q > 1000 THEN 1000 ELSE q) \div 10
    PROVE  (IF q > 1000 THEN 1000 ELSE q) <= p + 9
  OBVIOUS

\* Whoever asks for nearby reports gets none farther than the radius asked for and the
\* width of a cell, for every question and place, even from another reporter's entry.
THEOREM NearbyReportsAreNear == Spec => []NearbyIsNear
<1>1. IInv => NearbyIsNear
  <2> SUFFICES ASSUME IInv, view = "nearby", NEW q \in Answered, NEW r \in readers[q].answer[1]
               PROVE  Distance(readers[q].ask.point, r) <= readers[q].ask.radius + 9 + 110
    BY DEF NearbyIsNear
  <2> DEFINE mine == readers[q].ask
  <2>1. /\ readers[q] \in Requests /\ Len(readers[q].answer) = Len(Statements)
        /\ Reachable(readers[q].answer, Key(mine)) /\ q \in Readers
    BY DEF IInv, RequestFits, Answered, Free
  <2>2. Len(Statements) = 1
    BY StatementsFit DEF IInv
  <2>3. PICK other \in Asks : Key(other) = Key(mine) /\ WithinReach(readers[q].answer[1], other)
    BY <2>1, <2>2 DEF Reachable
  <2>4. r \in Ids /\ Distance(other.point, r) <= (IF other.radius > 1000 THEN 1000 ELSE other.radius)
    BY <2>3 DEF WithinReach
  <2>5. mine \in [point : Nat, radius : Nat] /\ other \in [point : Nat, radius : Nat]
    BY <2>1, CachedReadsAssumption DEF Requests, Asks
  <2>6. /\ (other.point + 55) \div 111 = (mine.point + 55) \div 111
        /\ (IF mine.radius > 1000 THEN 1000 ELSE mine.radius) \div 10
               = (IF other.radius > 1000 THEN 1000 ELSE other.radius) \div 10
    BY <2>3 DEF Key
  <2>7. /\ other.point - mine.point <= 110 /\ mine.point - other.point <= 110
        /\ (IF other.radius > 1000 THEN 1000 ELSE other.radius) <= mine.radius + 9
    BY <2>5, <2>6, SameCell, SameReach
  <2>8. Place[r] \in Nat
    BY <2>4, CachedReadsAssumption DEF Ids
  <2> HIDE DEF mine
  <2> QED
    BY <2>4, <2>5, <2>7, <2>8 DEF Distance, mine
<1> QED
  BY <1>1, Invariance, PTL

-----------------------------------------------------------------------------
(* Matching: what the invariant says of the geocoder. *)

Footprints == [lo : Int, hi : Int]
Calls == [pc : {"slot", "ask", "unpaced", "store", "answered"}, query : Landmarks, direct : BOOLEAN,
          answer : Places \cup {Nowhere, Failed}]

\* What the service says, or what Google's quota makes of it.
Told(q, answer) == answer = truth[q] \/ (provider = "google" /\ answer = Nowhere)

CallFits(c) ==
    \/ c = NoCall
    \/ /\ c \in Calls
       /\ c.pc = "store" => Told(c.query, c.answer)
       /\ c.pc = "answered" => c.answer = Failed \/ Told(c.query, c.answer)

GeoInv ==
    /\ provider \in Providers /\ truth \in [Landmarks -> Places \cup {Nowhere}]
    /\ \A q \in DOMAIN answers : q \in Landmarks /\ Told(q, answers[q])
    /\ slot \in BOOLEAN /\ burst \in Nat
    /\ DOMAIN calls = Workers
    /\ \A w \in Workers : CallFits(calls[w])

(* Of the buildings and the import. *)

IsIn(b, d) == b \in DOMAIN buildings /\ buildings[b] = Sources[d][b]

BuildingsFit == \A b \in DOMAIN buildings : b \in Names /\ buildings[b] \in Footprints

ImportFits ==
    /\ import \in [source : DOMAIN Sources \cup {None}, left : SUBSET Names, applied : DOMAIN Sources \cup {None}]
    /\ import.source # None =>
           /\ import.applied = None /\ import.left \subseteq DOMAIN Sources[import.source]
           /\ \A b \in DOMAIN Sources[import.source] \ import.left : IsIn(b, import.source)
    /\ import.applied # None => \A b \in DOMAIN Sources[import.applied] : IsIn(b, import.applied)

OfferType == [candidates : SUBSET Names, radius : 30..100, fresh : BOOLEAN]
OfferFits(p, offer) ==
    /\ p \in Gps /\ offer \in OfferType
    /\ offer.fresh => offer.candidates \subseteq Within(p, offer.radius)

(* Of the reports and the tasks. *)

MatchType == [building : Names \cup {None},
              confidence : {"zero", "confirmed", "sole", "shared", "capped"},
              by : {"nothing", "fix", "landmark"}]
RowType == [pc : {"form", "row"}, form : Forms, offered : SUBSET Names, live : BOOLEAN,
            choice : Picks, match : MatchType, done : BOOLEAN, fresh : BOOLEAN]
TaskType == [pc : {"geocode", "write"}, report : Reports, match : MatchType, fresh : BOOLEAN]

\* Twice the radius an accuracy allows.
Allowed(accuracy) ==
    IF accuracy \in {None} \cup 0..50 THEN 60 ELSE IF accuracy >= 67 THEN 200 ELSE 3 * accuracy

\* What LinkIsNear says of a match that was made from the footprints there are.
LinkFits(row, m) ==
    IF m.by = "fix"
    THEN /\ 2 * Dist(m.building, row.form.fix) <= Allowed(row.form.accuracy)
         /\ m.building = row.choice
            \/ \A c \in DOMAIN buildings : Dist(m.building, row.form.fix) <= Dist(c, row.form.fix)
    ELSE /\ Dist(m.building, truth[row.form.landmark]) < 100
         /\ m.confidence \in {"capped", "zero"}

\* The reporter's word: with a live offer theirs it is, and a missing one is no other.
Obeys(row, m) ==
    /\ row.live /\ row.choice \in Names => m.building = row.choice /\ m.confidence = "confirmed"
    /\ row.choice = "missing" => m.building = None

RowFits(row) ==
    \/ row = NoRow
    \/ /\ row \in RowType
       /\ row.choice \in row.offered \cup {None, "missing"}
       /\ row.live => row.form.fix # None /\ \A b \in row.offered : Confirms(b, row.form)
       /\ row.pc = "form" => row.match = Unmatched /\ ~row.done
       /\ row.done => Obeys(row, row.match)
       /\ row.pc = "row" /\ row.choice = "missing" => row.match.building = None
       /\ row.fresh /\ row.match.building # None => LinkFits(row, row.match)

TaskFits(w, t) ==
    \/ t = NoTask
    \/ /\ t \in TaskType
       /\ report[t.report].pc = "row"
       /\ Obeys(report[t.report], t.match)
       /\ t.pc = "geocode" => /\ t.match = Unmatched /\ report[t.report].choice # "missing"
                              /\ calls[w] # NoCall
                              /\ calls[w].query = report[t.report].form.landmark
       /\ t.fresh /\ t.match.building # None => LinkFits(report[t.report], t.match)

MatchingInv ==
    /\ GeoInv
    /\ BuildingsFit /\ ImportFits
    /\ imports \in 0..MaxImports /\ tasks \in 0..MaxTasks
    /\ \A p \in DOMAIN offers : OfferFits(p, offers[p])
    /\ DOMAIN report = Reports /\ \A r \in Reports : RowFits(report[r])
    /\ DOMAIN worker = Workers /\ \A w \in Workers : TaskFits(w, worker[w])

-----------------------------------------------------------------------------
(* The geometry. *)

\* What the constants are.
LEMMA FormsFit ==
    ASSUME NEW form \in Forms
    PROVE  /\ form.fix \in Nat \cup {None} /\ form.accuracy \in Nat \cup {None}
           /\ form.landmark \in Landmarks \cup {None}
           /\ form.fix # None => form.fix \in Nat /\ form.fix \in Gps
  BY MatchingAssumption DEF Gps

LEMMA NamesFit == None \notin Names /\ "missing" \notin Names
  BY MatchingAssumption DEF Names

LEMMA SourcesFit ==
    ASSUME NEW d \in DOMAIN Sources, NEW b \in DOMAIN Sources[d]
    PROVE  b \in Names /\ Sources[d][b] \in Footprints
  BY MatchingAssumption DEF Names, Footprints

\* A radius is within its limits, and so is twice the radius.
LEMMA RadiusFits ==
    ASSUME NEW accuracy \in Nat \cup {None}
    PROVE  /\ Radius(accuracy) \in 30..100
           /\ 2 * Radius(accuracy) <= Allowed(accuracy)
           /\ Allowed(accuracy) \in Int
<1>1. CASE accuracy = None \/ ~(accuracy > 50)
  <2>1. Radius(accuracy) = 30
    BY <1>1 DEF Radius, DefaultRadius
  <2>2. Allowed(accuracy) = 60
    BY <1>1 DEF Allowed
  <2> QED
    BY <2>1, <2>2
<1>2. CASE accuracy # None /\ accuracy > 50
  <2>1. accuracy \in Nat /\ accuracy >= 51
    BY <1>2
  <2>2. Radius(accuracy) = IF 3 * accuracy > 200 THEN 100 ELSE (3 * accuracy) \div 2
    BY <1>2 DEF Radius, Widened
  <2>3. Allowed(accuracy) = IF accuracy >= 67 THEN 200 ELSE 3 * accuracy
    BY <1>2, <2>1 DEF Allowed
  <2> HIDE <1>2
  <2> QED
    BY <2>1, <2>2, <2>3
<1> QED
  BY <1>1, <1>2

LEMMA DistFits ==
    ASSUME BuildingsFit, NEW b \in DOMAIN buildings, NEW p \in Int
    PROVE  Dist(b, p) \in Nat
  BY DEF BuildingsFit, Footprints, Dist

\* A building that contains the point or is the nearest within the radius is within it,
\* and none is nearer.
LEMMA MatchesFit ==
    ASSUME BuildingsFit, NEW p \in Int, NEW radius \in Nat, NEW b \in Matches(p, radius)
    PROVE  /\ b \in DOMAIN buildings /\ Dist(b, p) <= radius
           /\ \A c \in DOMAIN buildings : Dist(b, p) <= Dist(c, p)
<1>1. CASE b \in Containing(p)
  <2>1. b \in DOMAIN buildings /\ Dist(b, p) = 0
    BY <1>1 DEF Containing, Dist, BuildingsFit, Footprints
  <2> QED
    BY <2>1, DistFits
<1>2. CASE b \in Nearest(p, radius)
  <2>1. /\ b \in DOMAIN buildings /\ Dist(b, p) < radius
        /\ \A c \in Within(p, radius) : Dist(b, p) <= Dist(c, p)
    BY <1>2 DEF Nearest, Within
  <2>2. ASSUME NEW c \in DOMAIN buildings, c \notin Within(p, radius) PROVE Dist(b, p) <= Dist(c, p)
    <3>1. ~(Dist(c, p) <= radius)
      BY <2>2 DEF Within
    <3>2. Dist(b, p) \in Nat /\ Dist(c, p) \in Nat
      BY <2>1, DistFits
    <3> QED
      BY <2>1, <3>1, <3>2
  <2> QED
    BY <2>1, <2>2, DistFits
<1> QED
  BY <1>1, <1>2 DEF Matches

LEMMA ByFixFits ==
    ASSUME BuildingsFit, NEW row, row.form \in Forms, NEW m \in ByFix(row.form)
    PROVE  m \in MatchType /\ m.building \in Names /\ LinkFits(row, m)
<1> DEFINE p == row.form.fix
           radius == Radius(row.form.accuracy)
<1>1. p # None /\ p \in Nat /\ radius \in 30..100 /\ 2 * radius <= Allowed(row.form.accuracy)
  BY FormsFit, RadiusFits DEF ByFix
<1>2. PICK b \in Matches(p, radius) : m = [building |-> b, confidence |-> Share(p, radius), by |-> "fix"]
  BY <1>1 DEF ByFix
<1>3. Share(p, radius) \in {"sole", "shared"}
  BY DEF Share
<1>4. /\ b \in DOMAIN buildings /\ Dist(b, p) <= radius /\ Dist(b, p) \in Nat
      /\ \A c \in DOMAIN buildings : Dist(b, p) <= Dist(c, p)
  <2>1. p \in Int /\ radius \in Nat
    BY <1>1
  <2> HIDE DEF radius, p
  <2> QED
    BY <2>1, MatchesFit, DistFits
<1>5. m.building = b /\ m.by = "fix" /\ m.building \in Names
  BY <1>2, <1>4 DEF BuildingsFit
<1>6. m \in MatchType
  BY <1>2, <1>3, <1>5 DEF MatchType
<1>7. Allowed(row.form.accuracy) \in Int
  BY FormsFit, RadiusFits
<1>8. 2 * Dist(b, p) <= Allowed(row.form.accuracy)
  <2> HIDE DEF radius, p
  <2> QED
    BY <1>1, <1>4, <1>7
<1> HIDE DEF radius
<1> QED
  BY <1>4, <1>5, <1>6, <1>8 DEF LinkFits

-----------------------------------------------------------------------------
(* What a task decides. *)

LEMMA UnmatchedFits ==
    /\ Unmatched \in MatchType /\ Unmatched.building = None
    /\ Unmatched.by = "nothing" /\ Unmatched.confidence = "zero"
  BY DEF Unmatched, MatchType

\* Without the geocoder: the reporter's building if it is near enough, none for a
\* missing one, else the match of the fix; and nothing is left to the landmark only if
\* the reporter has not decided.
LEMMA DecidedFits ==
    ASSUME BuildingsFit, NEW row, RowFits(row), row # NoRow
    PROVE  /\ \A m \in Decided(row) :
                  m \in MatchType /\ Obeys(row, m) /\ (m.building # None => LinkFits(row, m))
           /\ Decided(row) = {} => row.choice # "missing" /\ Obeys(row, Unmatched)
<1>1. /\ row \in RowType /\ row.form \in Forms /\ row.choice \in Picks
      /\ row.choice \in row.offered \cup {None, "missing"}
      /\ row.live => row.form.fix # None /\ \A b \in row.offered : Confirms(b, row.form)
  BY DEF RowFits, RowType
<1>2. None \notin Names /\ "missing" \notin Names
  BY NamesFit
<1>3. CASE row.choice = "missing"
  <2>1. Decided(row) = {Unmatched}
    BY <1>3 DEF Decided
  <2> QED
    BY <1>2, <1>3, <2>1, UnmatchedFits DEF Obeys
<1>4. CASE row.choice # "missing" /\ row.choice # None /\ row.form.fix # None /\ Confirms(row.choice, row.form)
  <2> DEFINE m == [building |-> row.choice, confidence |-> "confirmed", by |-> "fix"]
  <2>1. Decided(row) = {m}
    BY <1>4 DEF Decided
  <2>2. row.choice \in DOMAIN buildings /\ row.choice \in Names
        /\ Dist(row.choice, row.form.fix) <= Radius(row.form.accuracy)
    BY <1>4 DEF Confirms, BuildingsFit
  <2>3. m \in MatchType /\ m.building = row.choice /\ m.by = "fix" /\ m.confidence = "confirmed"
    BY <2>2 DEF MatchType
  <2>4. Obeys(row, m)
    BY <1>4, <2>3 DEF Obeys
  <2>5. 2 * Dist(row.choice, row.form.fix) <= Allowed(row.form.accuracy)
    <3> DEFINE d == Dist(row.choice, row.form.fix)
               radius == Radius(row.form.accuracy)
               allowed == Allowed(row.form.accuracy)
    <3>1. row.form.fix \in Nat /\ row.form.accuracy \in Nat \cup {None}
      BY <1>1, <1>4, FormsFit
    <3>2. d \in Nat /\ d <= radius
      BY <2>2, <3>1, DistFits
    <3>3. radius \in 30..100 /\ 2 * radius <= allowed /\ allowed \in Int
      BY <3>1, RadiusFits
    <3> HIDE DEF d, radius, allowed
    <3>4. 2 * d <= allowed
      BY <3>2, <3>3
    <3> QED
      BY <3>4 DEF d, allowed
  <2>6. LinkFits(row, m)
    BY <2>3, <2>5 DEF LinkFits
  <2> HIDE DEF m
  <2> QED
    BY <2>1, <2>3, <2>4, <2>6
<1>5. CASE /\ row.choice # "missing"
           /\ ~(row.choice # None /\ row.form.fix # None /\ Confirms(row.choice, row.form))
  <2>1. Decided(row) = ByFix(row.form)
    BY <1>5 DEF Decided
  <2>2. ~(row.live /\ row.choice \in Names)
    BY <1>1, <1>2, <1>5
  <2>3. \A m : Obeys(row, m)
    BY <1>5, <2>2 DEF Obeys
  <2>4. \A m \in ByFix(row.form) : m \in MatchType /\ LinkFits(row, m)
    BY <1>1, ByFixFits
  <2> QED
    BY <1>5, <2>1, <2>3, <2>4
<1> QED
  BY <1>3, <1>4, <1>5

LEMMA ByLandmarkFits ==
    ASSUME BuildingsFit, NEW row, truth[row.form.landmark] \in Int,
           NEW m \in ByLandmark(truth[row.form.landmark])
    PROVE  m \in MatchType /\ m.building \in Names /\ LinkFits(row, m)
<1> DEFINE p == truth[row.form.landmark]
<1>1. PICK b \in Nearest(p, LandmarkRadius) : m = [building |-> b, confidence |-> "capped", by |-> "landmark"]
  BY DEF ByLandmark
<1>2. b \in DOMAIN buildings /\ b \in Names /\ Dist(b, p) < 100
  BY DEF Nearest, Within, LandmarkRadius, BuildingsFit
<1>3. m \in MatchType /\ m.building = b /\ m.by = "landmark" /\ m.confidence = "capped"
  BY <1>1, <1>2 DEF MatchType
<1> QED
  BY <1>2, <1>3 DEF LinkFits

\* A match that a task writes: without a building only the confidence changes.
LEMMA WrittenFits ==
    ASSUME NEW row, row \in RowType, NEW m \in MatchType
    PROVE  /\ Written(row, m) \in MatchType
           /\ m.building # None => Written(row, m) = m
           /\ m.building = None => /\ Written(row, m).building = row.match.building
                                   /\ Written(row, m).by = row.match.by
                                   /\ Written(row, m).confidence = "zero"
<1>1. row.match \in MatchType
  BY DEF RowType
<1>2. CASE m.building # None
  BY <1>2 DEF Written
<1>3. CASE m.building = None
  BY <1>1, <1>3 DEF Written, MatchType
<1> QED
  BY <1>2, <1>3

-----------------------------------------------------------------------------
(* The geocoder's steps. *)

LEMMA TruthStays ==
    ASSUME UNCHANGED <<provider, truth>>
    PROVE  /\ \A q, a : Told(q, a)' = Told(q, a)
           /\ \A c : CallFits(c)' = CallFits(c)
  BY DEF Told, CallFits

\* A worker's call becomes another; the cache may have changed with it.
LEMMA OneCall ==
    ASSUME GeoInv, UNCHANGED <<provider, truth>>, NEW w \in Workers, NEW c, CallFits(c),
           calls' = [calls EXCEPT ![w] = c],
           \A q \in DOMAIN answers' : q \in Landmarks /\ Told(q, answers'[q]),
           slot' \in BOOLEAN, burst' \in Nat
    PROVE  GeoInv'
<1>1. DOMAIN calls' = Workers /\ \A v \in Workers : CallFits(calls'[v])
  BY DEF GeoInv
<1>2. \A v \in Workers : CallFits(calls[v])'
  BY <1>1, TruthStays
<1>3. \A q \in DOMAIN answers' : (q \in Landmarks /\ Told(q, answers[q]))'
  BY TruthStays
<1>4. provider' \in Providers /\ truth' \in [Landmarks -> Places \cup {Nowhere}]
  BY DEF GeoInv
<1> QED
  BY <1>1, <1>2, <1>3, <1>4 DEF GeoInv

\* A call keeps its query until the worker is done with it.
CallsKeepQueries ==
    \A v \in Workers : calls[v] # NoCall => calls'[v] # NoCall /\ calls'[v].query = calls[v].query

LEMMA LookupFits ==
    ASSUME GeoInv, NEW w \in Workers, NEW q \in Landmarks, Lookup(w, q)
    PROVE  /\ GeoInv' /\ UNCHANGED <<provider, truth>>
           /\ calls'[w] # NoCall /\ calls'[w].query = q
           /\ \A v \in Workers \ {w} : calls'[v] = calls[v]
<1>1. UNCHANGED <<provider, truth, answers, slot, burst>>
  BY DEF Lookup
<1>2. PICK c : /\ calls' = [calls EXCEPT ![w] = c]
               /\ c.pc # "none" /\ c.query = q /\ CallFits(c)
  <2>1. CASE /\ q \in DOMAIN answers
             /\ calls' = [calls EXCEPT ![w] = [pc |-> "answered", query |-> q, direct |-> FALSE, answer |-> answers[q]]]
    <3> DEFINE c == [pc |-> "answered", query |-> q, direct |-> FALSE, answer |-> answers[q]]
    <3>1. Told(q, answers[q]) /\ truth[q] \in Places \cup {Nowhere}
      BY <2>1 DEF GeoInv
    <3>2. answers[q] \in Places \cup {Nowhere, Failed}
      BY <3>1 DEF Told
    <3>3. c \in Calls /\ c.pc = "answered" /\ c.query = q /\ c.answer = answers[q]
      BY <3>2 DEF Calls
    <3>4. CallFits(c)
      BY <3>1, <3>3 DEF CallFits
    <3> QED
      BY <2>1, <3>3, <3>4
  <2>2. ASSUME NEW direct \in BOOLEAN,
               calls' = [calls EXCEPT ![w] = [pc |-> IF provider = "google" THEN "ask" ELSE "slot",
                                              query |-> q, direct |-> direct, answer |-> Nowhere]]
        PROVE  \E c : /\ calls' = [calls EXCEPT ![w] = c]
                      /\ c.pc # "none" /\ c.query = q /\ CallFits(c)
    <3> DEFINE step == IF provider = "google" THEN "ask" ELSE "slot"
               c == [pc |-> step, query |-> q, direct |-> direct, answer |-> Nowhere]
    <3>1. step \in {"ask", "slot"}
      OBVIOUS
    <3> HIDE DEF step
    <3>2. c \in Calls /\ c.pc = step /\ c.query = q
      BY <3>1 DEF Calls
    <3>3. CallFits(c)
      BY <3>1, <3>2 DEF CallFits
    <3> QED
      BY <2>2, <3>1, <3>2, <3>3 DEF step
  <2> QED
    BY <2>1, <2>2 DEF Lookup
<1>3. GeoInv'
  BY <1>1, <1>2, OneCall DEF GeoInv
<1> QED
  BY <1>1, <1>2, <1>3 DEF GeoInv, NoCall

LEMMA GeoStep ==
    ASSUME GeoInv, GeoNext
    PROVE  GeoInv' /\ UNCHANGED <<provider, truth>> /\ CallsKeepQueries
<1>1. ASSUME NEW w \in Workers, calls[w].pc # "none", UNCHANGED <<provider, truth>>, NEW c, c \in Calls,
             c.query = calls[w].query, c.pc = "store" => Told(c.query, c.answer),
             c.pc = "answered" => c.answer = Failed \/ Told(c.query, c.answer),
             calls' = [calls EXCEPT ![w] = c],
             \A q \in DOMAIN answers' : q \in Landmarks /\ Told(q, answers'[q]),
             slot' \in BOOLEAN, burst' \in Nat
      PROVE  GeoInv' /\ UNCHANGED <<provider, truth>> /\ CallsKeepQueries
  <2>1. CallFits(c)
    BY <1>1 DEF CallFits
  <2>2. GeoInv'
    BY <1>1, <2>1, OneCall
  <2>3. c # NoCall /\ calls'[w] = c /\ \A v \in Workers : v # w => calls'[v] = calls[v]
    <3>1. c.pc \in {"slot", "ask", "unpaced", "store", "answered"}
      BY <1>1 DEF Calls
    <3>2. NoCall.pc = "none"
      BY DEF NoCall
    <3>3. DOMAIN calls = Workers
      BY DEF GeoInv
    <3> QED
      BY <1>1, <3>1, <3>2, <3>3
  <2>4. CallsKeepQueries
    BY <1>1, <2>3 DEF CallsKeepQueries
  <2> QED
    BY <1>1, <2>2, <2>4
<1>2. ASSUME NEW w \in Workers, calls[w].pc # "none"
      PROVE  /\ calls[w] \in Calls
             /\ calls[w].pc = "store" => Told(calls[w].query, calls[w].answer)
             /\ truth[calls[w].query] \in Places \cup {Nowhere}
             /\ \A q \in DOMAIN answers : q \in Landmarks /\ Told(q, answers[q])
             /\ slot \in BOOLEAN /\ burst \in Nat
  BY <1>2 DEF GeoInv, CallFits, NoCall, Calls
<1>3. ASSUME NEW w \in Workers, TakeSlot(w)
      PROVE  GeoInv' /\ UNCHANGED <<provider, truth>> /\ CallsKeepQueries
  <2> DEFINE c == [calls[w] EXCEPT !.pc = "ask"]
  <2>1. calls[w].pc # "none" /\ UNCHANGED <<provider, truth, answers, burst>>
        /\ slot' = TRUE /\ calls' = [calls EXCEPT ![w] = c]
    BY <1>3 DEF TakeSlot, SlotIsFree, Goto, At
  <2>2. c \in Calls /\ c.pc = "ask" /\ c.query = calls[w].query
    BY <1>2, <2>1 DEF Calls
  <2> HIDE DEF c
  <2>3. \A q \in DOMAIN answers' : q \in Landmarks /\ Told(q, answers'[q])
    BY <1>2, <2>1
  <2> QED
    BY <1>1, <1>2, <2>1, <2>2, <2>3
<1>4. ASSUME NEW w \in Workers, SleepInstead(w)
      PROVE  GeoInv' /\ UNCHANGED <<provider, truth>> /\ CallsKeepQueries
  <2> DEFINE c == [calls[w] EXCEPT !.pc = "unpaced"]
  <2>1. calls[w].pc # "none" /\ UNCHANGED <<provider, truth, answers, slot, burst>> /\ calls' = [calls EXCEPT ![w] = c]
    BY <1>4 DEF SleepInstead, Goto, At
  <2>2. c \in Calls /\ c.pc = "unpaced" /\ c.query = calls[w].query
    BY <1>2, <2>1 DEF Calls
  <2> HIDE DEF c
  <2> QED
    BY <1>1, <1>2, <2>1, <2>2
<1>5. ASSUME NEW w \in Workers, calls[w].pc # "none", NEW answer, answer = Failed \/ Told(calls[w].query, answer),
             Returns(w, answer), UNCHANGED <<provider, truth, slot>>, burst' \in Nat,
             \A q \in DOMAIN answers' : q \in Landmarks /\ Told(q, answers'[q])
      PROVE  GeoInv' /\ UNCHANGED <<provider, truth>> /\ CallsKeepQueries
  <2> DEFINE c == [pc |-> "answered", query |-> calls[w].query, direct |-> FALSE, answer |-> answer]
  <2>1. answer \in Places \cup {Nowhere, Failed}
    BY <1>2, <1>5 DEF Told
  <2>2. calls[w].query \in Landmarks
    BY <1>2, <1>5 DEF Calls
  <2>3. c \in Calls /\ c.pc = "answered" /\ c.query = calls[w].query /\ c.answer = answer
    BY <2>1, <2>2 DEF Calls
  <2>4. calls' = [calls EXCEPT ![w] = c]
    BY <1>5 DEF Returns
  <2> HIDE DEF c
  <2> QED
    BY <1>1, <1>2, <1>5, <2>3, <2>4
<1>6. ASSUME NEW w \in Workers, SlotTimesOut(w)
      PROVE  GeoInv' /\ UNCHANGED <<provider, truth>> /\ CallsKeepQueries
  <2>1. calls[w].pc # "none" /\ Returns(w, Failed) /\ UNCHANGED <<provider, truth, answers, slot, burst>>
    BY <1>6 DEF SlotTimesOut, At
  <2> QED
    BY <1>2, <1>5, <2>1
<1>7. ASSUME NEW w \in Workers, calls[w].pc # "none", NEW answer, Told(calls[w].query, answer),
             calls' = [calls EXCEPT ![w] = [calls[w] EXCEPT !.pc = "store", !.answer = answer]],
             UNCHANGED <<provider, truth, answers, slot>>, burst' \in Nat
      PROVE  GeoInv' /\ UNCHANGED <<provider, truth>> /\ CallsKeepQueries
  <2> DEFINE c == [calls[w] EXCEPT !.pc = "store", !.answer = answer]
  <2>1. calls[w] \in Calls /\ answer \in Places \cup {Nowhere, Failed}
    BY <1>2, <1>7 DEF Told
  <2>2. c \in Calls /\ c.pc = "store" /\ c.query = calls[w].query /\ c.answer = answer
    BY <2>1 DEF Calls
  <2>3. calls' = [calls EXCEPT ![w] = c]
    BY <1>7
  <2> HIDE DEF c
  <2> QED
    BY <1>1, <1>2, <1>7, <2>2, <2>3
<1>8. ASSUME NEW w \in Workers, Answer(w)
      PROVE  GeoInv' /\ UNCHANGED <<provider, truth>> /\ CallsKeepQueries
  <2>1. PICK answer \in {truth[calls[w].query], Failed} :
            IF Stored(answer) /\ ~calls[w].direct
            THEN calls' = [calls EXCEPT ![w] = [@ EXCEPT !.pc = "store", !.answer = IF answer = Failed THEN Nowhere ELSE answer]]
            ELSE Returns(w, answer)
    BY <1>8 DEF Answer
  <2>2. calls[w].pc # "none" /\ UNCHANGED <<provider, truth, answers, slot>> /\ burst' \in Nat
    BY <1>2, <1>8 DEF Answer, Sends
  <2>3. CASE Stored(answer) /\ ~calls[w].direct
    <3>1. answer # Failed /\ Told(calls[w].query, answer)
      BY <2>1, <2>3 DEF Stored, Told
    <3>2. calls' = [calls EXCEPT ![w] = [calls[w] EXCEPT !.pc = "store", !.answer = answer]]
      BY <2>1, <2>3, <3>1
    <3> QED
      BY <1>7, <2>2, <3>1, <3>2
  <2>4. CASE ~(Stored(answer) /\ ~calls[w].direct)
    <3>1. Returns(w, answer)
      BY <2>1, <2>4
    <3>2. answer = Failed \/ Told(calls[w].query, answer)
      BY DEF Told
    <3> QED
      BY <1>2, <1>5, <2>2, <3>1, <3>2
  <2> QED
    BY <2>3, <2>4
<1>9. ASSUME NEW w \in Workers, StoreAnswer(w)
      PROVE  GeoInv' /\ UNCHANGED <<provider, truth>> /\ CallsKeepQueries
  <2>1. calls[w].pc = "store" /\ Returns(w, calls[w].answer) /\ UNCHANGED <<provider, truth, slot, burst>>
    BY <1>9 DEF StoreAnswer, At
  <2>2. Told(calls[w].query, calls[w].answer) /\ calls[w].query \in Landmarks
    BY <1>2, <2>1 DEF Calls
  <2>3. \A q \in DOMAIN answers' : q \in Landmarks /\ Told(q, answers'[q])
    BY <1>2, <1>9, <2>1, <2>2 DEF StoreAnswer
  <2> QED
    BY <1>2, <1>5, <2>1, <2>2, <2>3
<1>10. ASSUME NEW w \in Workers, QuotaUsedUp(w)
       PROVE  GeoInv' /\ UNCHANGED <<provider, truth>> /\ CallsKeepQueries
  <2>1. /\ calls[w].pc = "ask" /\ UNCHANGED <<provider, truth, answers, slot, burst>>
        /\ Told(calls[w].query, Nowhere)
        /\ \/ Returns(w, Nowhere)
           \/ calls' = [calls EXCEPT ![w] = [calls[w] EXCEPT !.pc = "store", !.answer = Nowhere]]
    BY <1>10 DEF QuotaUsedUp, Told, At
  <2> QED
    BY <1>2, <1>5, <1>7, <2>1
<1>11. ASSUME SlotExpires
       PROVE  GeoInv' /\ UNCHANGED <<provider, truth>> /\ CallsKeepQueries
  <2>0. burst \in Nat /\ burst' = (IF burst = 0 THEN 0 ELSE burst - 1) /\ slot' = FALSE
    BY <1>11 DEF SlotExpires, GeoInv
  <2>1. UNCHANGED <<provider, truth, answers, calls>> /\ slot' \in BOOLEAN /\ burst' \in Nat
    <3>1. burst' \in Nat
      BY <2>0
    <3>2. UNCHANGED <<provider, truth, answers, calls>>
      BY <1>11 DEF SlotExpires
    <3> QED
      BY <2>0, <3>1, <3>2, Zenon
  <2>2. \A v \in Workers : CallFits(calls[v])'
    BY <2>1, TruthStays DEF GeoInv
  <2>3. \A q \in DOMAIN answers' : (q \in Landmarks /\ Told(q, answers[q]))'
    BY <2>1, TruthStays DEF GeoInv
  <2> QED
    BY <2>1, <2>2, <2>3 DEF GeoInv, CallsKeepQueries
<1>12. ASSUME NEW q \in Landmarks, AnswerExpires(q)
       PROVE  GeoInv' /\ UNCHANGED <<provider, truth>> /\ CallsKeepQueries
  <2>1. UNCHANGED <<provider, truth, slot, burst, calls>>
        /\ \A p \in DOMAIN answers' : p \in DOMAIN answers /\ answers'[p] = answers[p]
    BY <1>12 DEF AnswerExpires
  <2>2. \A p \in DOMAIN answers' : (p \in Landmarks /\ Told(p, answers[p]))'
    BY <2>1 DEF GeoInv, Told
  <2> QED
    BY <2>1, <2>2 DEF GeoInv, CallsKeepQueries, Told, CallFits
<1> QED
  BY <1>3, <1>4, <1>6, <1>8, <1>9, <1>10, <1>11, <1>12 DEF GeoNext

-----------------------------------------------------------------------------
(* Matching: the form and the tasks. *)

\* What the footprints and the places do not change does not change.
LEMMA FootprintsStay ==
    ASSUME UNCHANGED <<buildings, truth>>
    PROVE  /\ \A row, m : LinkFits(row, m)' = LinkFits(row, m)
           /\ \A row : RowFits(row) => RowFits(row)'
           /\ \A p, offer : OfferFits(p, offer) => OfferFits(p, offer)'
           /\ BuildingsFit => BuildingsFit'
           /\ UNCHANGED import /\ ImportFits => ImportFits'
<1>1. \A b, p : Dist(b, p)' = Dist(b, p)
  BY DEF Dist
<1>2. \A row, m : LinkFits(row, m)' = LinkFits(row, m)
  BY <1>1 DEF LinkFits
<1>3. \A b, form : Confirms(b, form)' = Confirms(b, form)
  BY <1>1 DEF Confirms
<1>4. \A row : RowFits(row) => RowFits(row)'
  BY <1>2, <1>3 DEF RowFits
<1>5. \A p, radius : Within(p, radius)' = Within(p, radius)
  BY <1>1 DEF Within
<1>6. \A p, offer : OfferFits(p, offer) => OfferFits(p, offer)'
  BY <1>5 DEF OfferFits
<1>7. BuildingsFit => BuildingsFit'
  BY DEF BuildingsFit
<1>8. UNCHANGED import /\ ImportFits => ImportFits'
  BY DEF ImportFits, IsIn
<1> QED
  BY <1>2, <1>4, <1>6, <1>7, <1>8

\* A task stays a fit for its report while the report keeps what it was decided by,
\* and, if it waits for the geocoder, while its worker keeps its question.
LEMMA TaskStays ==
    ASSUME UNCHANGED <<buildings, truth>>
    PROVE  \A w, t : /\ TaskFits(w, t)
                     /\ t # NoTask => /\ report'[t.report].pc = "row"
                                      /\ report'[t.report].form = report[t.report].form
                                      /\ report'[t.report].choice = report[t.report].choice
                                      /\ report'[t.report].live = report[t.report].live
                     /\ t # NoTask /\ t.pc = "geocode" /\ calls[w] # NoCall =>
                            calls'[w] # NoCall /\ calls'[w].query = calls[w].query
                     => TaskFits(w, t)'
<1> SUFFICES ASSUME NEW w, NEW t, TaskFits(w, t), t # NoTask,
                    report'[t.report].pc = "row",
                    report'[t.report].form = report[t.report].form,
                    report'[t.report].choice = report[t.report].choice,
                    report'[t.report].live = report[t.report].live,
                    t.pc = "geocode" /\ calls[w] # NoCall => calls'[w] # NoCall /\ calls'[w].query = calls[w].query
             PROVE  TaskFits(w, t)'
  BY DEF TaskFits
<1>1. \A row, m : LinkFits(row, m)' = LinkFits(row, m)
  BY FootprintsStay
<1>2. LinkFits(report[t.report], t.match) => LinkFits(report'[t.report], t.match)
  BY DEF LinkFits
<1>3. Obeys(report[t.report], t.match) => Obeys(report'[t.report], t.match)
  BY DEF Obeys
<1>4. LinkFits(report'[t.report], t.match) => LinkFits(report[t.report], t.match)'
  BY <1>1
<1>5. Obeys(report'[t.report], t.match) => Obeys(report[t.report], t.match)'
  BY DEF Obeys
<1> QED
  BY <1>2, <1>3, <1>4, <1>5 DEF TaskFits

\* The call of a task whose report is a row.
LEMMA TaskOfRow ==
    ASSUME MatchingInv, NEW w \in Workers, worker[w] # NoTask
    PROVE  /\ worker[w] \in TaskType /\ worker[w].report \in Reports
           /\ report[worker[w].report].pc = "row" /\ report[worker[w].report] # NoRow
           /\ RowFits(report[worker[w].report]) /\ report[worker[w].report] \in RowType
  BY DEF MatchingInv, TaskFits, TaskType, NoRow, RowFits

LEMMA MatchingInitInv == MatchingInit => MatchingInv
<1> SUFFICES ASSUME MatchingInit PROVE MatchingInv
  OBVIOUS
<1>1. GeoInv
  <2>1. DOMAIN answers = {} /\ DOMAIN calls = Workers /\ \A w \in Workers : CallFits(calls[w])
    BY DEF MatchingInit, GeoInit, CallFits
  <2>2. slot = FALSE /\ burst = 0 /\ provider \in Providers /\ truth \in [Landmarks -> Places \cup {Nowhere}]
    BY DEF MatchingInit, GeoInit
  <2>3. slot \in BOOLEAN
    BY <2>2, Zenon
  <2>4. burst \in Nat
    BY <2>2
  <2> QED
    BY <2>1, <2>2, <2>3, <2>4 DEF GeoInv
<1>2. BuildingsFit /\ (\A p \in DOMAIN offers : OfferFits(p, offers[p]))
  BY DEF MatchingInit, BuildingsFit
<1>3. ImportFits
  BY DEF MatchingInit, ImportFits
<1>4. imports \in 0..MaxImports /\ tasks \in 0..MaxTasks
  BY MatchingAssumption DEF MatchingInit
<1>5. DOMAIN report = Reports /\ \A r \in Reports : RowFits(report[r])
  BY DEF MatchingInit, RowFits
<1>6. DOMAIN worker = Workers /\ \A w \in Workers : TaskFits(w, worker[w])
  BY DEF MatchingInit, TaskFits
<1> QED
  BY <1>1, <1>2, <1>3, <1>4, <1>5, <1>6 DEF MatchingInv

\* All but the offers, when nothing changes there.
LEMMA NothingMoves ==
    ASSUME MatchingInv,
           UNCHANGED <<buildings, import, imports, tasks, report, worker, provider, truth, answers, slot, burst, calls>>
    PROVE  /\ GeoInv' /\ BuildingsFit' /\ ImportFits' /\ imports' \in 0..MaxImports /\ tasks' \in 0..MaxTasks
           /\ DOMAIN report' = Reports /\ \A r \in Reports : RowFits(report[r])'
           /\ DOMAIN worker' = Workers /\ \A w \in Workers : TaskFits(w, worker[w])'
<1>1. GeoInv'
  BY DEF MatchingInv, GeoInv, Told, CallFits
<1>2. \A r \in Reports : RowFits(report[r])'
  BY FootprintsStay DEF MatchingInv
<1>3. ASSUME NEW w \in Workers PROVE TaskFits(w, worker[w])'
  <2>1. TaskFits(w, worker[w]) /\ worker' = worker /\ calls' = calls /\ report' = report
    BY DEF MatchingInv
  <2>2. worker[w] # NoTask => report[worker[w].report].pc = "row"
    BY TaskOfRow
  <2> QED
    BY <2>1, <2>2, TaskStays
<1> QED
  BY <1>1, <1>2, <1>3, FootprintsStay DEF MatchingInv

\* Nothing but one report's form and the offers change, and nobody works on the report.
LEMMA FormStep ==
    ASSUME MatchingInv, UNCHANGED <<buildings, import, imports, tasks, worker, geoVars>>,
           NEW r \in Reports, report[r].pc # "row", NEW row, RowFits(row), report' = [report EXCEPT ![r] = row],
           \A p \in DOMAIN offers' : OfferFits(p, offers'[p])
    PROVE  MatchingInv'
<1>1. UNCHANGED <<buildings, import, imports, tasks, worker, provider, truth, answers, slot, burst, calls>>
  BY DEF geoVars
<1>2. DOMAIN report' = Reports /\ \A s \in Reports : RowFits(report'[s])
  BY DEF MatchingInv
<1>3. \A s \in Reports : RowFits(report[s])'
  BY <1>1, <1>2, FootprintsStay
<1>4. \A p \in DOMAIN offers' : OfferFits(p, offers[p])'
  BY <1>1, FootprintsStay
<1>5. ASSUME NEW w \in Workers PROVE TaskFits(w, worker[w])'
  <2>1. TaskFits(w, worker[w]) /\ worker' = worker /\ calls' = calls
    BY <1>1 DEF MatchingInv
  <2>2. worker[w] # NoTask => report'[worker[w].report] = report[worker[w].report] /\ report[worker[w].report].pc = "row"
    BY TaskOfRow
  <2> QED
    BY <1>1, <2>1, <2>2, TaskStays
<1>6. GeoInv' /\ BuildingsFit' /\ ImportFits'
  <2>1. GeoInv'
    BY <1>1 DEF MatchingInv, GeoInv, Told, CallFits
  <2> QED
    BY <1>1, <2>1, FootprintsStay DEF MatchingInv
<1> QED
  BY <1>1, <1>2, <1>3, <1>4, <1>5, <1>6 DEF MatchingInv

\* A form with what it is offered: near enough all of them, if it is live.
LEMMA NewRowFits ==
    ASSUME NEW form \in Forms, NEW offered \in SUBSET Names, NEW live \in BOOLEAN,
           live => form.fix # None /\ \A b \in offered : Confirms(b, form)
    PROVE  RowFits(NewRow(form, offered, live))
<1> DEFINE row == NewRow(form, offered, live)
<1>1. None \in Picks /\ Unmatched \in MatchType
  BY UnmatchedFits DEF Picks
<1>2. row \in RowType
  BY <1>1 DEF RowType, NewRow
<1>3. /\ row.pc = "form" /\ row.form = form /\ row.offered = offered /\ row.choice = None
      /\ row.match = Unmatched
  BY DEF NewRow
<1>4. row.live = live /\ row.done = FALSE /\ row.fresh = FALSE
  BY DEF NewRow
<1>5. row.live => row.form.fix # None /\ \A b \in row.offered : Confirms(b, row.form)
  BY <1>3, <1>4, Zenon
<1>6. ~row.done /\ ~row.fresh
  BY <1>4, Zenon
<1> HIDE DEF row
<1>7. row.choice \in row.offered \cup {None, "missing"} /\ row.pc # "row"
  BY <1>3
<1>8. row.pc = "form" => row.match = Unmatched /\ ~row.done
  BY <1>3, <1>6, Zenon
<1>9. /\ row.done => Obeys(row, row.match)
      /\ row.fresh /\ row.match.building # None => LinkFits(row, row.match)
  BY <1>6, Zenon
<1>10. row.pc = "row" /\ row.choice = "missing" => row.match.building = None
  BY <1>7
<1>11. RowFits(row)
  BY <1>2, <1>5, <1>7, <1>8, <1>9, <1>10, Zenon DEF RowFits
<1> QED
  BY <1>11 DEF row

LEMMA AskOfferInv ==
    ASSUME MatchingInv, NEW r \in Reports, NEW form \in Forms, AskOffer(r, form) PROVE MatchingInv'
<1> DEFINE p == form.fix
           radius == Radius(form.accuracy)
           offer == IF p \in DOMAIN offers THEN offers[p]
                    ELSE [candidates |-> Candidates(p, radius), radius |-> radius, fresh |-> TRUE]
           live == offer.fresh /\ offer.radius = radius
<1>1. /\ report[r].pc # "row" /\ p # None
      /\ offers' = [q \in DOMAIN offers \cup {p} |-> IF q = p THEN offer ELSE offers[q]]
      /\ report' = [report EXCEPT ![r] = NewRow(form, offer.candidates, live)]
      /\ UNCHANGED <<buildings, import, imports, tasks, worker, geoVars>>
  BY DEF AskOffer
<1>2. p \in Nat /\ p \in Gps /\ radius \in 30..100
  BY <1>1, FormsFit, RadiusFits
<1>3. OfferFits(p, offer)
  <2>1. CASE p \in DOMAIN offers
    BY <2>1 DEF MatchingInv
  <2>2. CASE p \notin DOMAIN offers
    <3> DEFINE new == [candidates |-> Candidates(p, radius), radius |-> radius, fresh |-> TRUE]
    <3>1. Candidates(p, radius) \subseteq Within(p, radius) /\ Within(p, radius) \subseteq Names
      BY DEF Candidates, Within, MatchingInv, BuildingsFit
    <3>2. new \in OfferType /\ new.candidates = Candidates(p, radius) /\ new.radius = radius
      BY <1>2, <3>1 DEF OfferType
    <3> HIDE DEF new
    <3>3. OfferFits(p, new)
      BY <1>2, <3>1, <3>2 DEF OfferFits
    <3> QED
      BY <2>2, <3>3 DEF new
  <2> QED
    BY <2>1, <2>2
<1>4. offer.candidates \in SUBSET Names /\ live \in BOOLEAN
  <2>1. offer \in OfferType
    BY <1>3 DEF OfferFits
  <2> HIDE DEF offer
  <2> QED
    BY <2>1 DEF OfferType
<1>5. live => form.fix # None /\ \A b \in offer.candidates : Confirms(b, form)
  <2>1. live => offer.candidates \subseteq Within(p, radius)
    BY <1>3 DEF OfferFits
  <2> HIDE DEF offer
  <2> QED
    BY <1>1, <2>1 DEF Within, Confirms
<1> HIDE DEF live, offer, radius
<1>6. RowFits(NewRow(form, offer.candidates, live))
  BY <1>4, <1>5, NewRowFits
<1>7. \A q \in DOMAIN offers' : OfferFits(q, offers'[q])
  BY <1>1, <1>3 DEF MatchingInv
<1> QED
  BY <1>1, <1>6, <1>7, FormStep

LEMMA OpenOfflineInv ==
    ASSUME MatchingInv, NEW r \in Reports, NEW form \in Forms, OpenOffline(r, form) PROVE MatchingInv'
<1> DEFINE offered == IF form.fix = None THEN {} ELSE DOMAIN buildings
<1>1. offered \in SUBSET Names
  BY DEF MatchingInv, BuildingsFit
<1>2. /\ report' = [report EXCEPT ![r] = NewRow(form, offered, FALSE)] /\ report[r].pc # "row"
      /\ UNCHANGED <<buildings, import, imports, tasks, offers, worker, geoVars>>
  BY DEF OpenOffline, NoRow
<1> HIDE DEF offered
<1>3. RowFits(NewRow(form, offered, FALSE))
  BY <1>1, NewRowFits
<1> QED
  BY <1>2, <1>3, FormStep DEF MatchingInv

LEMMA SubmitInv ==
    ASSUME MatchingInv, NEW r \in Reports, NEW choice \in Picks, Submit(r, choice) PROVE MatchingInv'
<1> DEFINE row == report[r]
           new == [row EXCEPT !.pc = "row", !.choice = choice]
<1>1. /\ row.pc = "form" /\ choice \in row.offered \cup {None, "missing"}
      /\ report' = [report EXCEPT ![r] = new]
      /\ UNCHANGED <<buildings, import, imports, tasks, offers, worker, geoVars>>
  BY DEF Submit
<1>2. RowFits(row) /\ row # NoRow
  BY <1>1 DEF MatchingInv, NoRow
<1>3. /\ row \in RowType /\ row.match = Unmatched /\ ~row.done
      /\ row.live => row.form.fix # None /\ \A b \in row.offered : Confirms(b, row.form)
  BY <1>1, <1>2 DEF RowFits
<1>4. /\ new \in RowType /\ new.pc = "row" /\ new.choice = choice /\ new.offered = row.offered
      /\ new.match = Unmatched /\ new.form = row.form /\ new.match.building = None
  BY <1>3, UnmatchedFits DEF RowType
<1>5. new.live = row.live /\ new.done = row.done
  BY <1>3, Zenon DEF RowType
<1> HIDE DEF new
<1>6. /\ ~new.done
      /\ new.live => new.form.fix # None /\ \A b \in new.offered : Confirms(b, new.form)
  <2>1. ~new.done
    BY <1>3, <1>5, Zenon
  <2>2. ASSUME new.live PROVE new.form.fix # None /\ \A b \in new.offered : Confirms(b, new.form)
    <3>1. row.live
      BY <1>5, <2>2, Zenon
    <3> QED
      BY <1>3, <1>4, <3>1
  <2> QED
    BY <2>1, <2>2
<1>7. RowFits(new)
  BY <1>1, <1>4, <1>6 DEF RowFits
<1> QED
  BY <1>1, <1>7, FormStep DEF MatchingInv

LEMMA OfferExpiresInv == ASSUME MatchingInv, NEW p \in Gps, OfferExpires(p) PROVE MatchingInv'
<1>1. /\ UNCHANGED <<buildings, import, imports, tasks, report, worker, provider, truth, answers, slot, burst, calls>>
      /\ \A q \in DOMAIN offers' : q \in DOMAIN offers /\ offers'[q] = offers[q]
  BY DEF OfferExpires, geoVars
<1>2. \A q \in DOMAIN offers' : OfferFits(q, offers[q])'
  BY <1>1, FootprintsStay DEF MatchingInv
<1> QED
  BY <1>1, <1>2, NothingMoves DEF MatchingInv

\* A task that fits the footprints, its report and its call.
LEMMA TaskMade ==
    ASSUME UNCHANGED <<buildings, truth, report>>, NEW w, NEW t, t \in TaskType,
           report[t.report].pc = "row", Obeys(report[t.report], t.match),
           t.pc = "geocode" => /\ t.match = Unmatched /\ report[t.report].choice # "missing"
                               /\ calls'[w] # NoCall /\ calls'[w].query = report[t.report].form.landmark,
           t.fresh /\ t.match.building # None => LinkFits(report[t.report], t.match)
    PROVE  TaskFits(w, t)'
<1>1. LinkFits(report[t.report], t.match) => LinkFits(report[t.report], t.match)'
  BY FootprintsStay
<1>2. Obeys(report[t.report], t.match)'
  BY DEF Obeys
<1> QED
  BY <1>1, <1>2 DEF TaskFits

LEMMA TaskStep ==
    ASSUME MatchingInv, UNCHANGED <<buildings, import, imports, offers, report, provider, truth>>,
           tasks' \in 0..MaxTasks, GeoInv', NEW w \in Workers, NEW t, TaskFits(w, t)',
           worker' = [worker EXCEPT ![w] = t], \A v \in Workers \ {w} : calls'[v] = calls[v]
    PROVE  MatchingInv'
<1>1. DOMAIN report' = Reports /\ \A r \in Reports : RowFits(report[r])'
  BY FootprintsStay DEF MatchingInv
<1>2. \A p \in DOMAIN offers' : OfferFits(p, offers[p])'
  BY FootprintsStay DEF MatchingInv
<1>3. BuildingsFit' /\ ImportFits' /\ imports' \in 0..MaxImports
  BY FootprintsStay DEF MatchingInv
<1>4. ASSUME NEW v \in Workers PROVE TaskFits(v, worker[v])'
  <2>1. CASE v = w
    <3>1. worker'[v] = t
      BY <2>1 DEF MatchingInv
    <3> QED
      BY <2>1, <3>1
  <2>2. CASE v # w
    <3>1. worker'[v] = worker[v] /\ calls'[v] = calls[v] /\ TaskFits(v, worker[v])
      BY <2>2 DEF MatchingInv
    <3>2. worker[v] # NoTask => report[worker[v].report].pc = "row"
      BY TaskOfRow
    <3> QED
      BY <3>1, <3>2, TaskStays
  <2> QED
    BY <2>1, <2>2
<1>5. DOMAIN worker' = Workers
  BY DEF MatchingInv
<1> QED
  BY <1>1, <1>2, <1>3, <1>4, <1>5 DEF MatchingInv

LEMMA StartInv ==
    ASSUME MatchingInv, NEW w \in Workers, NEW r \in Reports, Start(w, r) PROVE MatchingInv'
<1> DEFINE row == report[r]
           task(pc, m) == [pc |-> pc, report |-> r, match |-> m, fresh |-> TRUE]
<1>1. /\ row.pc = "row" /\ tasks' = tasks + 1 /\ tasks < MaxTasks
      /\ UNCHANGED <<buildings, import, imports, offers, report>>
  BY DEF Start, Submitted
<1>2. RowFits(row) /\ row # NoRow /\ row.form \in Forms /\ BuildingsFit /\ GeoInv
  BY <1>1 DEF MatchingInv, NoRow, RowFits, RowType
<1>3. /\ \A m \in Decided(row) : m \in MatchType /\ Obeys(row, m) /\ (m.building # None => LinkFits(row, m))
      /\ Decided(row) = {} => row.choice # "missing" /\ Obeys(row, Unmatched)
  BY <1>2, DecidedFits
<1>4. tasks' \in 0..MaxTasks
  BY <1>1, MatchingAssumption DEF MatchingInv
<1>5. ASSUME NEW m \in MatchType, Obeys(row, m), m.building # None => LinkFits(row, m),
             worker' = [worker EXCEPT ![w] = task("write", m)], UNCHANGED geoVars
      PROVE  MatchingInv'
  <2> DEFINE t == task("write", m)
  <2>1. t \in TaskType /\ t.report = r /\ t.match = m /\ t.pc = "write"
    BY <1>5 DEF TaskType
  <2>2. worker' = [worker EXCEPT ![w] = t] /\ UNCHANGED <<provider, truth, answers, slot, burst, calls>>
    BY <1>5 DEF geoVars
  <2> HIDE DEF t, task
  <2>3. TaskFits(w, t)'
    BY <1>1, <1>5, <2>1, <2>2, TaskMade
  <2>4. GeoInv'
    BY <1>2, <2>2 DEF GeoInv, Told, CallFits
  <2> QED
    BY <1>1, <1>4, <2>2, <2>3, <2>4, TaskStep
<1>6. CASE Decided(row) # {}
  <2>1. PICK m \in Decided(row) : worker' = [worker EXCEPT ![w] = task("write", m)] /\ UNCHANGED geoVars
    BY <1>6 DEF Start
  <2> HIDE DEF task
  <2> QED
    BY <1>3, <1>5, <2>1
<1>7. CASE Decided(row) = {} /\ row.form.landmark = None
  <2>1. worker' = [worker EXCEPT ![w] = task("write", Unmatched)] /\ UNCHANGED geoVars
    BY <1>7 DEF Start
  <2> HIDE DEF task
  <2> QED
    BY <1>3, <1>5, <1>7, <2>1, UnmatchedFits
<1>8. CASE Decided(row) = {} /\ row.form.landmark # None
  <2> DEFINE t == task("geocode", Unmatched)
  <2>1. worker' = [worker EXCEPT ![w] = t] /\ Lookup(w, row.form.landmark)
    BY <1>8 DEF Start
  <2>2. row.form.landmark \in Landmarks
    BY <1>2, <1>8, FormsFit
  <2>3. /\ GeoInv' /\ UNCHANGED <<provider, truth>>
        /\ calls'[w] # NoCall /\ calls'[w].query = row.form.landmark
        /\ \A v \in Workers \ {w} : calls'[v] = calls[v]
    BY <1>2, <2>1, <2>2, LookupFits
  <2>4. t \in TaskType /\ t.report = r /\ t.match = Unmatched /\ t.match.building = None
    BY UnmatchedFits DEF TaskType
  <2> HIDE DEF t, task
  <2>5. TaskFits(w, t)'
    BY <1>1, <1>3, <1>8, <2>3, <2>4, TaskMade
  <2> QED
    BY <1>1, <1>4, <2>1, <2>3, <2>5, TaskStep
<1> QED
  BY <1>6, <1>7, <1>8

LEMMA FromLandmarkInv ==
    ASSUME MatchingInv, NEW w \in Workers, FromLandmark(w) PROVE MatchingInv'
<1>0. PICK r \in Reports : worker[w].report = r
  <2>1. worker[w] # NoTask
    BY DEF FromLandmark, NoTask
  <2> QED
    BY <2>1, TaskOfRow
<1> DEFINE row == report[r]
           place == calls[w].answer
           found == IF place \in {Nowhere, Failed} THEN {} ELSE ByLandmark(place)
           task(m) == [pc |-> "write", report |-> r, match |-> m, fresh |-> TRUE]
<1>1. /\ worker[w].pc = "geocode" /\ calls[w].pc = "answered"
      /\ calls' = [calls EXCEPT ![w] = NoCall]
      /\ UNCHANGED <<buildings, import, imports, tasks, offers, report, provider, truth, answers, slot, burst>>
  BY DEF FromLandmark
<1>2. PICK m \in (IF found = {} THEN {Unmatched} ELSE found) : worker' = [worker EXCEPT ![w] = task(m)]
  BY <1>0 DEF FromLandmark
<1>3. worker[w] # NoTask /\ TaskFits(w, worker[w])
  BY <1>1 DEF NoTask, MatchingInv
<1>4. /\ row.pc = "row" /\ row # NoRow /\ row \in RowType /\ row.form \in Forms
  BY <1>0, <1>3, TaskOfRow DEF RowType
<1>5. /\ row.choice # "missing" /\ Obeys(row, Unmatched)
      /\ calls[w] # NoCall /\ calls[w].query = row.form.landmark
  BY <1>0, <1>1, <1>3 DEF TaskFits
<1>6. Obeys(row, m)
  BY <1>5, UnmatchedFits, NamesFit DEF Obeys
<1>7. calls[w] \in Calls /\ (place = Failed \/ Told(row.form.landmark, place))
      /\ truth \in [Landmarks -> Places \cup {Nowhere}]
  BY <1>1, <1>5 DEF MatchingInv, GeoInv, CallFits
<1>8. m \in MatchType /\ (m.building # None => LinkFits(row, m))
  <2>1. CASE m = Unmatched
    BY <2>1, UnmatchedFits
  <2>2. CASE m # Unmatched
    <3>1. m \in ByLandmark(place) /\ place \notin {Nowhere, Failed}
      BY <1>2, <2>2
    <3>2. place = truth[row.form.landmark] /\ row.form.landmark \in Landmarks
      BY <1>5, <1>7, <3>1 DEF Told, Calls
    <3>3. truth[row.form.landmark] \in Int
      BY <1>7, <3>1, <3>2, MatchingAssumption
    <3> HIDE DEF place
    <3> QED
      BY <3>1, <3>2, <3>3, ByLandmarkFits DEF MatchingInv
  <2> QED
    BY <2>1, <2>2
<1> DEFINE t == task(m)
<1>9. t \in TaskType /\ t.report = r /\ t.match = m /\ t.pc = "write"
  BY <1>4, <1>8 DEF TaskType
<1>10. worker' = [worker EXCEPT ![w] = t]
  BY <1>2
<1> HIDE DEF t, task, found
<1>11. TaskFits(w, t)'
  BY <1>1, <1>4, <1>6, <1>8, <1>9, TaskMade
<1>12. GeoInv'
  BY <1>1, OneCall DEF MatchingInv, GeoInv, CallFits
<1>13. \A v \in Workers \ {w} : calls'[v] = calls[v]
  BY <1>1
<1>14. tasks' \in 0..MaxTasks
  BY <1>1 DEF MatchingInv
<1> QED
  BY <1>1, <1>10, <1>11, <1>12, <1>13, <1>14, TaskStep

LEMMA DiesInv == ASSUME MatchingInv, NEW w \in Workers, Dies(w) PROVE MatchingInv'
<1>1. /\ worker' = [worker EXCEPT ![w] = NoTask]
      /\ UNCHANGED <<buildings, import, imports, tasks, offers, report, provider, truth, answers, slot, burst, calls>>
  BY DEF Dies, geoVars
<1>2. TaskFits(w, NoTask)'
  BY DEF TaskFits
<1>3. GeoInv' /\ tasks' \in 0..MaxTasks
  BY <1>1 DEF MatchingInv, GeoInv, Told, CallFits
<1> QED
  BY <1>1, <1>2, <1>3, TaskStep

\* A row after a task has written its match.
LEMMA FinishedRow ==
    ASSUME NEW row, RowFits(row), row # NoRow, row.pc = "row", NEW m \in MatchType, Obeys(row, m),
           NEW fresh \in BOOLEAN, fresh /\ m.building # None => LinkFits(row, m)
    PROVE  RowFits([row EXCEPT !.match = Written(row, m), !.done = TRUE,
                               !.fresh = fresh /\ (m.building = None => row.fresh)])
<1> DEFINE now == fresh /\ (m.building = None => row.fresh)
           written == Written(row, m)
           new == [row EXCEPT !.match = written, !.done = TRUE, !.fresh = now]
<1>1. /\ row \in RowType /\ row.choice \in row.offered \cup {None, "missing"}
      /\ row.live => row.form.fix # None /\ \A b \in row.offered : Confirms(b, row.form)
      /\ row.choice = "missing" => row.match.building = None
      /\ row.fresh /\ row.match.building # None => LinkFits(row, row.match)
  BY DEF RowFits
<1>2. /\ written \in MatchType
      /\ m.building # None => written = m
      /\ m.building = None => /\ written.building = row.match.building /\ written.by = row.match.by
                              /\ written.confidence = "zero"
  BY <1>1, WrittenFits
<1>3. now \in BOOLEAN
  OBVIOUS
<1> HIDE DEF now, written
<1>4. /\ new \in RowType /\ new.pc = "row" /\ new.form = row.form /\ new.offered = row.offered
      /\ new.choice = row.choice /\ new.match = written
  BY <1>1, <1>2, <1>3 DEF RowType
<1>5. new.live = row.live /\ new.fresh = now
  BY <1>1, Zenon DEF RowType
<1> HIDE DEF new
<1>6. new.live => new.form.fix # None /\ \A b \in new.offered : Confirms(b, new.form)
  <2> SUFFICES ASSUME new.live PROVE new.form.fix # None /\ \A b \in new.offered : Confirms(b, new.form)
    OBVIOUS
  <2>1. row.live
    BY <1>5, Zenon
  <2> QED
    BY <1>1, <1>4, <2>1
<1>7. Obeys(new, new.match)
  <2>1. ASSUME new.live, new.choice \in Names PROVE new.match.building = new.choice /\ new.match.confidence = "confirmed"
    <3>1. row.live
      BY <1>5, <2>1, Zenon
    <3>2. m.building = row.choice /\ m.confidence = "confirmed"
      BY <1>4, <2>1, <3>1 DEF Obeys
    <3> QED
      BY <1>2, <1>4, <2>1, <3>2, NamesFit
  <2>2. new.choice = "missing" => new.match.building = None
    BY <1>1, <1>2, <1>4 DEF Obeys
  <2> QED
    BY <2>1, <2>2 DEF Obeys
<1>8. ASSUME new.fresh, new.match.building # None PROVE LinkFits(new, new.match)
  <2>1. fresh /\ (m.building = None => row.fresh)
    BY <1>5, <1>8, Zenon DEF now
  <2>2. CASE m.building # None
    <3>1. LinkFits(row, m)
      BY <2>1, <2>2
    <3> QED
      BY <1>2, <1>4, <2>2, <3>1 DEF LinkFits
  <2>3. CASE m.building = None
    <3>1. LinkFits(row, row.match)
      BY <1>1, <1>2, <1>4, <1>8, <2>1, <2>3
    <3> QED
      BY <1>2, <1>4, <2>3, <3>1 DEF LinkFits
  <2> QED
    BY <2>2, <2>3
<1>9. new.choice \in new.offered \cup {None, "missing"}
  BY <1>1, <1>4
<1>10. new.choice = "missing" => new.match.building = None
  BY <1>7 DEF Obeys
<1>11. RowFits(new)
  BY <1>4, <1>6, <1>7, <1>8, <1>9, <1>10 DEF RowFits
<1> QED
  BY <1>11 DEF new, now, written

LEMMA FinishInv == ASSUME MatchingInv, NEW w \in Workers, Finish(w) PROVE MatchingInv'
<1> DEFINE r == worker[w].report
           row == report[r]
           m == worker[w].match
           new == [row EXCEPT !.match = Written(row, m), !.done = TRUE,
                              !.fresh = worker[w].fresh /\ (m.building = None => row.fresh)]
<1>1. /\ worker[w].pc = "write" /\ report' = [report EXCEPT ![r] = new] /\ worker' = [worker EXCEPT ![w] = NoTask]
      /\ UNCHANGED <<buildings, import, imports, tasks, offers, provider, truth, answers, slot, burst, calls>>
  BY DEF Finish, geoVars
<1>2. worker[w] # NoTask /\ TaskFits(w, worker[w])
  BY <1>1 DEF NoTask, MatchingInv
<1>3. /\ worker[w] \in TaskType /\ r \in Reports /\ row.pc = "row" /\ row # NoRow /\ RowFits(row) /\ row \in RowType
  BY <1>2, TaskOfRow
<1>4. /\ m \in MatchType /\ worker[w].fresh \in BOOLEAN /\ Obeys(row, m)
      /\ worker[w].fresh /\ m.building # None => LinkFits(row, m)
  BY <1>2, <1>3 DEF TaskFits, TaskType
<1>5. RowFits(new)
  BY <1>3, <1>4, FinishedRow
<1>6. new.pc = row.pc /\ new.form = row.form /\ new.choice = row.choice
  BY <1>3 DEF RowType
<1>7. new.live = row.live
  BY <1>3, Zenon DEF RowType
<1> HIDE DEF new
<1>8. DOMAIN report' = Reports /\ \A s \in Reports : RowFits(report'[s])
  BY <1>1, <1>3, <1>5 DEF MatchingInv
<1>9. \A s \in Reports : RowFits(report[s])'
  BY <1>1, <1>8, FootprintsStay
<1>10. /\ \A s \in Reports : report[s].pc = "row" => report'[s].pc = "row" /\ report'[s].form = report[s].form
                                                     /\ report'[s].choice = report[s].choice
       /\ \A s \in Reports : report'[s].live = report[s].live
  <2>1. \A s \in Reports : s # r => report'[s] = report[s]
    BY <1>1
  <2>2. report'[r] = new
    BY <1>1, <1>3 DEF MatchingInv
  <2>3. \A s \in Reports : report'[s].live = report[s].live
    BY <1>7, <2>1, <2>2, Zenon
  <2> QED
    BY <1>6, <2>1, <2>2, <2>3
<1>11. ASSUME NEW v \in Workers PROVE TaskFits(v, worker[v])'
  <2>1. CASE v = w
    <3>1. worker'[v] = NoTask
      BY <1>1, <2>1 DEF MatchingInv
    <3> QED
      BY <3>1 DEF TaskFits
  <2>2. CASE v # w
    <3>1. worker'[v] = worker[v] /\ calls'[v] = calls[v] /\ TaskFits(v, worker[v])
      BY <1>1, <2>2 DEF MatchingInv
    <3>2. worker[v] # NoTask => report[worker[v].report].pc = "row" /\ worker[v].report \in Reports
      BY TaskOfRow
    <3> QED
      BY <1>1, <1>10, <3>1, <3>2, TaskStays
  <2> QED
    BY <2>1, <2>2
<1>12. /\ GeoInv' /\ BuildingsFit' /\ ImportFits' /\ imports' \in 0..MaxImports /\ tasks' \in 0..MaxTasks
       /\ DOMAIN worker' = Workers
  <2>1. GeoInv'
    BY <1>1 DEF MatchingInv, GeoInv, Told, CallFits
  <2> QED
    BY <1>1, <2>1, FootprintsStay DEF MatchingInv
<1>13. \A p \in DOMAIN offers' : OfferFits(p, offers[p])'
  BY <1>1, FootprintsStay DEF MatchingInv
<1> QED
  BY <1>8, <1>9, <1>11, <1>12, <1>13 DEF MatchingInv

-----------------------------------------------------------------------------
(* Matching: the import. *)

\* Only the import moves, and leaves the table alone.
LEMMA ImportStep ==
    ASSUME MatchingInv, ImportFits', imports' \in 0..MaxImports,
           UNCHANGED <<buildings, tasks, offers, report, worker, geoVars>>
    PROVE  MatchingInv'
<1>1. UNCHANGED <<buildings, tasks, offers, report, worker, provider, truth, answers, slot, burst, calls>>
  BY DEF geoVars
<1>2. GeoInv'
  BY <1>1 DEF MatchingInv, GeoInv, Told, CallFits
<1>3. /\ \A r \in Reports : RowFits(report[r])'
      /\ \A p \in DOMAIN offers : OfferFits(p, offers[p])'
      /\ BuildingsFit'
  BY <1>1, FootprintsStay DEF MatchingInv
<1>4. ASSUME NEW w \in Workers PROVE TaskFits(w, worker[w])'
  <2>1. TaskFits(w, worker[w]) /\ worker' = worker /\ calls' = calls /\ report' = report
    BY <1>1 DEF MatchingInv
  <2>2. worker[w] # NoTask => report[worker[w].report].pc = "row"
    BY TaskOfRow
  <2> QED
    BY <1>1, <2>1, <2>2, TaskStays
<1> QED
  BY <1>1, <1>2, <1>3, <1>4 DEF MatchingInv

LEMMA StartImportInv ==
    ASSUME MatchingInv, NEW d \in DOMAIN Sources, StartImport(d) PROVE MatchingInv'
<1>1. /\ imports' = imports + 1 /\ imports < MaxImports
      /\ import' = [source |-> d, left |-> DOMAIN Sources[d], applied |-> None]
      /\ UNCHANGED <<buildings, tasks, offers, report, worker, geoVars>>
  BY DEF StartImport
<1>2. imports' \in 0..MaxImports
  BY <1>1, MatchingAssumption DEF MatchingInv
<1>3. DOMAIN Sources[d] \subseteq Names
  BY SourcesFit
<1>4. ImportFits'
  BY <1>1, <1>3 DEF ImportFits
<1> QED
  BY <1>1, <1>2, <1>4, ImportStep

LEMMA EndImportInv == ASSUME MatchingInv, EndImport PROVE MatchingInv'
<1>1. /\ import.source # None
      /\ import' = [source |-> None, left |-> {},
                    applied |-> IF import.left = {} THEN import.source ELSE None]
      /\ UNCHANGED <<buildings, imports, tasks, offers, report, worker, geoVars>>
  BY DEF EndImport, Importing
<1>2. ImportFits'
  <2>1. ImportFits /\ import.source \in DOMAIN Sources \cup {None}
    BY DEF MatchingInv, ImportFits
  <2>2. import.left = {} => \A b \in DOMAIN Sources[import.source] : IsIn(b, import.source)
    BY <1>1, <2>1 DEF ImportFits
  <2>3. \A b, d : IsIn(b, d)' = IsIn(b, d)
    BY <1>1 DEF IsIn
  <2>4. CASE import.left = {}
    <3>1. import'.source = None /\ import'.left = {} /\ import'.applied = import.source
      BY <1>1, <2>4
    <3>2. \A b \in DOMAIN Sources[import'.applied] : IsIn(b, import'.applied)
      BY <2>2, <2>4, <3>1
    <3>3. \A b \in DOMAIN Sources[import'.applied] : IsIn(b, import.applied)'
      BY <2>3, <3>2
    <3> QED
      BY <1>1, <2>1, <2>4, <3>1, <3>3 DEF ImportFits
  <2>5. CASE import.left # {}
    BY <1>1, <2>1, <2>5 DEF ImportFits
  <2> QED
    BY <2>4, <2>5
<1>3. imports' \in 0..MaxImports
  BY <1>1 DEF MatchingInv
<1> QED
  BY <1>1, <1>2, <1>3, ImportStep

\* What an import takes back of a row: that it is live, and that its match is current.
Imported(row) == [row EXCEPT !.live = FALSE, !.fresh = FALSE]

LEMMA ImportedRow ==
    ASSUME NEW row, RowFits(row), row # NoRow, NEW new, new = Imported(row)
    PROVE  /\ new \in RowType /\ new.pc = row.pc /\ new.form = row.form /\ new.choice = row.choice
           /\ ~new.live /\ ~new.fresh
           /\ new.choice \in new.offered \cup {None, "missing"}
           /\ new.pc = "form" => new.match = Unmatched /\ ~new.done
           /\ new.done => Obeys(new, new.match)
           /\ new.pc = "row" /\ new.choice = "missing" => new.match.building = None
<1>1. /\ row \in RowType /\ row.choice \in row.offered \cup {None, "missing"}
      /\ row.pc = "form" => row.match = Unmatched /\ ~row.done
      /\ row.pc = "row" /\ row.choice = "missing" => row.match.building = None
      /\ row.done => Obeys(row, row.match)
  BY DEF RowFits
<1>2. /\ new \in RowType /\ new.pc = row.pc /\ new.form = row.form /\ new.choice = row.choice
      /\ new.offered = row.offered /\ new.match = row.match
  BY <1>1 DEF RowType, Imported
<1>3. new.done = row.done /\ new.live = FALSE /\ new.fresh = FALSE
  BY <1>1, Zenon DEF RowType, Imported
<1>4. ~new.live /\ ~new.fresh
  BY <1>3, Zenon
<1>5. new.pc = "form" => new.match = Unmatched /\ ~new.done
  <2> SUFFICES ASSUME new.pc = "form" PROVE new.match = Unmatched /\ ~new.done
    OBVIOUS
  <2>1. new.match = Unmatched /\ ~row.done
    BY <1>1, <1>2
  <2> QED
    BY <1>3, <2>1, Zenon
<1>6. ASSUME new.done PROVE Obeys(new, new.match)
  <2>1. row.done
    BY <1>3, <1>6, Zenon
  <2> QED
    BY <1>1, <1>2, <1>4, <2>1 DEF Obeys
<1> QED
  BY <1>1, <1>2, <1>4, <1>5, <1>6

LEMMA ImportBatchInv ==
    ASSUME MatchingInv, NEW b \in Names, ImportBatch(b) PROVE MatchingInv'
<1> DEFINE d == import.source
<1>1. /\ d # None /\ b \in import.left
      /\ buildings' = [n \in DOMAIN buildings \cup {b} |-> IF n = b THEN Sources[d][b] ELSE buildings[n]]
      /\ import' = [import EXCEPT !.left = import.left \ {b}]
      /\ offers' = [p \in DOMAIN offers |-> [offers[p] EXCEPT !.fresh = FALSE]]
      /\ report' = [r \in Reports |-> IF report[r] = NoRow THEN NoRow ELSE Imported(report[r])]
      /\ worker' = [w \in Workers |-> IF worker[w] = NoTask THEN NoTask ELSE [worker[w] EXCEPT !.fresh = FALSE]]
      /\ UNCHANGED <<imports, tasks, provider, truth, answers, slot, burst, calls>>
  BY DEF ImportBatch, Importing, Upserted, Imported, geoVars
<1>2. /\ import \in [source : DOMAIN Sources \cup {None}, left : SUBSET Names, applied : DOMAIN Sources \cup {None}]
      /\ d \in DOMAIN Sources /\ b \in DOMAIN Sources[d] /\ import.applied = None
      /\ import.left \subseteq DOMAIN Sources[d]
      /\ \A c \in DOMAIN Sources[d] \ import.left : IsIn(c, d)
  BY <1>1 DEF MatchingInv, ImportFits
<1>3. BuildingsFit'
  <2>1. Sources[d][b] \in Footprints
    BY <1>2, SourcesFit
  <2>2. \A n \in DOMAIN buildings' : n \in Names /\ buildings'[n] \in Footprints
    BY <1>1, <2>1 DEF MatchingInv, BuildingsFit
  <2> QED
    BY <2>2 DEF BuildingsFit
<1>4. ImportFits'
  <2>1. import'.source = d /\ import'.left = import.left \ {b} /\ import'.applied = None
    BY <1>1, <1>2
  <2>2. import' \in [source : DOMAIN Sources \cup {None}, left : SUBSET Names, applied : DOMAIN Sources \cup {None}]
    BY <1>1, <1>2
  <2>3. ASSUME NEW c \in DOMAIN Sources[d] \ (import.left \ {b})
        PROVE  c \in DOMAIN buildings' /\ buildings'[c] = Sources[d][c]
    <3>1. CASE c = b
      BY <1>1, <3>1
    <3>2. CASE c # b
      <4>1. IsIn(c, d)
        BY <1>2, <3>2
      <4> QED
        BY <1>1, <3>2, <4>1 DEF IsIn
    <3> QED
      BY <3>1, <3>2
  <2>4. \A c \in DOMAIN Sources[import'.source] \ import'.left : IsIn(c, import.source)'
    BY <2>1, <2>3 DEF IsIn
  <2> QED
    BY <1>2, <2>1, <2>2, <2>4 DEF ImportFits
<1>5. ASSUME NEW p \in DOMAIN offers' PROVE OfferFits(p, offers[p])'
  <2>1. p \in DOMAIN offers /\ offers'[p] = [offers[p] EXCEPT !.fresh = FALSE]
    BY <1>1
  <2>2. p \in Gps /\ offers[p] \in OfferType
    BY <2>1 DEF MatchingInv, OfferFits
  <2>3. offers'[p] \in OfferType
    BY <2>1, <2>2 DEF OfferType
  <2>4. offers'[p].fresh = FALSE
    BY <2>1, <2>2, Zenon DEF OfferType
  <2>5. ~offers'[p].fresh
    BY <2>4, Zenon
  <2> QED
    BY <2>2, <2>3, <2>5 DEF OfferFits
<1>6. ASSUME NEW r \in Reports, report[r] # NoRow
      PROVE  /\ report'[r] = Imported(report[r]) /\ RowFits(report[r])
             /\ report'[r] \in RowType /\ report'[r].pc = report[r].pc
             /\ report'[r].form = report[r].form /\ report'[r].choice = report[r].choice
             /\ ~report'[r].live /\ ~report'[r].fresh
             /\ report'[r].choice \in report'[r].offered \cup {None, "missing"}
             /\ report'[r].pc = "form" => report'[r].match = Unmatched /\ ~report'[r].done
             /\ report'[r].done => Obeys(report'[r], report'[r].match)
             /\ report'[r].pc = "row" /\ report'[r].choice = "missing" => report'[r].match.building = None
  <2>1. report'[r] = Imported(report[r]) /\ RowFits(report[r])
    BY <1>1, <1>6 DEF MatchingInv
  <2> QED
    BY <1>6, <2>1, ImportedRow
<1>7. ASSUME NEW r \in Reports PROVE RowFits(report[r])'
  <2>1. CASE report[r] = NoRow
    BY <1>1, <2>1 DEF RowFits
  <2>2. CASE report[r] # NoRow
    BY <1>6, <2>2 DEF RowFits, Obeys
  <2> QED
    BY <2>1, <2>2
<1>8. ASSUME NEW w \in Workers PROVE TaskFits(w, worker[w])'
  <2>1. CASE worker[w] = NoTask
    BY <1>1, <2>1 DEF TaskFits
  <2>2. CASE worker[w] # NoTask
    <3> DEFINE t == [worker[w] EXCEPT !.fresh = FALSE]
               r == worker[w].report
    <3>1. worker'[w] = t /\ TaskFits(w, worker[w])
      BY <1>1, <2>2 DEF MatchingInv
    <3>2. worker[w] \in TaskType /\ r \in Reports /\ report[r].pc = "row" /\ report[r] # NoRow
      BY <2>2, TaskOfRow
    <3>3. t \in TaskType /\ t.report = r /\ t.match = worker[w].match /\ t.pc = worker[w].pc
      BY <3>2 DEF TaskType
    <3>4. t.fresh = FALSE
      BY <3>2, Zenon DEF TaskType
    <3>5. ~t.fresh
      BY <3>4, Zenon
    <3>6. Obeys(report'[r], t.match)
      BY <1>6, <2>2, <3>1, <3>2, <3>3 DEF TaskFits, Obeys
    <3>7. t.pc = "geocode" => /\ t.match = Unmatched /\ report'[r].choice # "missing"
                              /\ calls'[w] # NoCall /\ calls'[w].query = report'[r].form.landmark
      BY <1>1, <1>6, <2>2, <3>1, <3>2, <3>3 DEF TaskFits
    <3>8. report'[r].pc = "row"
      BY <1>6, <3>2
    <3> HIDE DEF t
    <3>9. worker'[w] \in TaskType /\ worker'[w].report = r /\ ~worker'[w].fresh
      BY <3>1, <3>3, <3>5
    <3> QED
      BY <3>1, <3>3, <3>6, <3>7, <3>8, <3>9 DEF TaskFits, Obeys
  <2> QED
    BY <2>1, <2>2
<1>9. GeoInv' /\ imports' \in 0..MaxImports /\ tasks' \in 0..MaxTasks
  BY <1>1 DEF MatchingInv, GeoInv, Told, CallFits
<1>10. DOMAIN report' = Reports /\ DOMAIN worker' = Workers
  BY <1>1
<1> QED
  BY <1>3, <1>4, <1>5, <1>7, <1>8, <1>9, <1>10 DEF MatchingInv

LEMMA GeocoderInv ==
    ASSUME MatchingInv, GeoNext, UNCHANGED <<buildings, import, imports, tasks, offers, report, worker>>
    PROVE  MatchingInv'
<1>1. GeoInv' /\ UNCHANGED <<provider, truth>> /\ CallsKeepQueries
  BY GeoStep DEF MatchingInv
<1>2. /\ \A r \in Reports : RowFits(report[r])'
      /\ \A p \in DOMAIN offers : OfferFits(p, offers[p])'
      /\ BuildingsFit' /\ ImportFits'
  BY <1>1, FootprintsStay DEF MatchingInv
<1>3. ASSUME NEW w \in Workers PROVE TaskFits(w, worker[w])'
  <2>1. TaskFits(w, worker[w]) /\ worker' = worker /\ report' = report
        /\ (calls[w] # NoCall => calls'[w] # NoCall /\ calls'[w].query = calls[w].query)
    BY <1>1 DEF MatchingInv, CallsKeepQueries
  <2>2. worker[w] # NoTask => report[worker[w].report].pc = "row"
    BY TaskOfRow
  <2> QED
    BY <1>1, <2>1, <2>2, TaskStays
<1> QED
  BY <1>1, <1>2, <1>3 DEF MatchingInv

LEMMA MatchingStep == ASSUME MatchingInv, [MatchingNext]_matchingVars PROVE MatchingInv'
<1>1. CASE UNCHANGED matchingVars
  <2>1. UNCHANGED <<buildings, import, imports, tasks, report, worker, provider, truth, answers, slot, burst, calls>>
        /\ UNCHANGED offers
    BY <1>1 DEF matchingVars, geoVars
  <2>2. \A p \in DOMAIN offers' : OfferFits(p, offers[p])'
    BY <2>1, FootprintsStay DEF MatchingInv
  <2> QED
    BY <2>1, <2>2, NothingMoves DEF MatchingInv
<1> QED
  BY <1>1, AskOfferInv, OpenOfflineInv, SubmitInv, OfferExpiresInv, StartInv, FromLandmarkInv, FinishInv,
     DiesInv, StartImportInv, ImportBatchInv, EndImportInv, GeocoderInv DEF MatchingNext

LEMMA MatchingInvariance == MatchingSpec => []MatchingInv
  BY MatchingInitInv, MatchingStep, PTL DEF MatchingSpec

-----------------------------------------------------------------------------
(* Matching: the theorems. *)

\* Type correctness of the table, the import, the cache of offers, the reports, the
\* tasks and the geocoder's calls.
THEOREM MatchingTypeCorrect == MatchingSpec => []MatchingTypeOK
<1>1. MatchingInv => MatchingTypeOK
  <2> SUFFICES ASSUME MatchingInv PROVE MatchingTypeOK
    OBVIOUS
  <2>1. DOMAIN buildings \subseteq Names /\ imports \in 0..MaxImports /\ tasks \in 0..MaxTasks
    BY DEF MatchingInv, BuildingsFit
  <2>2. {import.source, import.applied} \subseteq DOMAIN Sources \cup {None} /\ import.left \subseteq Names
    BY DEF MatchingInv, ImportFits
  <2>3. ASSUME NEW p \in DOMAIN offers
        PROVE  p \in Gps /\ offers[p].candidates \subseteq Names /\ offers[p].radius \in 30..100
    BY DEF MatchingInv, OfferFits, OfferType
  <2>4. ASSUME NEW r \in Reports, report[r].pc # "none"
        PROVE  /\ report[r].pc \in {"form", "row"} /\ report[r].form \in Forms
               /\ report[r].offered \subseteq Names /\ report[r].live \in BOOLEAN
               /\ report[r].choice \in Picks /\ report[r].fresh \in BOOLEAN
               /\ report[r].match \in MatchType
    <3>1. report[r] \in RowType
      BY <2>4 DEF MatchingInv, RowFits, NoRow
    <3> QED
      BY <3>1 DEF RowType
  <2>5. ASSUME NEW w \in Workers, worker[w].pc # "none"
        PROVE  worker[w].pc \in {"geocode", "write"} /\ worker[w].report \in Reports
    BY <2>5 DEF MatchingInv, TaskFits, TaskType, NoTask
  <2>6. GeoTypeOK
    <3>1. \A w \in Workers : calls[w] = NoCall \/
              /\ calls[w].pc \in {"slot", "ask", "unpaced", "store", "answered"}
              /\ calls[w].query \in Landmarks /\ calls[w].direct \in BOOLEAN
      BY DEF MatchingInv, GeoInv, CallFits, Calls
    <3> QED
      BY <3>1 DEF MatchingInv, GeoInv, GeoTypeOK
  <2> QED
    BY <2>1, <2>2, <2>3, <2>4, <2>5, <2>6 DEF MatchingTypeOK, MatchType
<1> QED
  BY <1>1, MatchingInvariance, PTL

\* "Errors are not cached": with Nominatim an entry of the cache is what the service
\* says, however the workers' calls, failures and expiries interleave.
THEOREM ErrorsAreNotCached == MatchingSpec => []OnlyAnswersCached
<1>1. MatchingInv => OnlyAnswersCached
  BY DEF MatchingInv, GeoInv, Told, OnlyAnswersCached
<1> QED
  BY <1>1, MatchingInvariance, PTL

(* The pace of the requests.  The owners of slots that have not sent yet, and what was  *)
(* sent, are together no more than the workers and the slot that is set.                *)

Owning == {w \in Workers : At(w, "ask")}

PaceInv ==
    /\ provider = "nominatim" =>
           burst + Cardinality(Owning) <= Cardinality(Workers) + (IF slot THEN 1 ELSE 0)
    /\ provider # "nominatim" => burst = 0

\* The number of owners, and what a step makes of it.
LEMMA OwningCounts ==
    /\ IsFiniteSet(Owning) /\ Cardinality(Owning) \in Nat /\ Cardinality(Workers) \in Nat
    /\ Cardinality(Owning) <= Cardinality(Workers)
    /\ \A w \in Owning : Cardinality(Owning \ {w}) = Cardinality(Owning) - 1
    /\ \A w \in Workers \ Owning : Cardinality(Owning \cup {w}) = Cardinality(Owning) + 1
    /\ \A S \in SUBSET Owning : Cardinality(S) \in Nat /\ Cardinality(S) <= Cardinality(Owning)
<1>1. IsFiniteSet(Owning) /\ Cardinality(Owning) <= Cardinality(Workers)
  BY GeocodingAssumption, FS_Subset DEF Owning
<1>2. Cardinality(Owning) \in Nat /\ Cardinality(Workers) \in Nat
  BY <1>1, GeocodingAssumption, FS_CardinalityType
<1>3. \A w \in Owning : Cardinality(Owning \ {w}) = Cardinality(Owning) - 1
  BY <1>1, FS_RemoveElement
<1>4. \A w \in Workers \ Owning : Cardinality(Owning \cup {w}) = Cardinality(Owning) + 1
  BY <1>1, FS_AddElement
<1>5. \A S \in SUBSET Owning : Cardinality(S) \in Nat /\ Cardinality(S) <= Cardinality(Owning)
  BY <1>1, FS_Subset, FS_CardinalityType
<1> QED
  BY <1>1, <1>2, <1>3, <1>4, <1>5

\* A step that neither sends nor touches the slot makes nobody an owner.
LEMMA NobodySends ==
    ASSUME MatchingInv, PaceInv, UNCHANGED <<provider, slot, burst>>,
           provider = "nominatim" => \A w \in Workers : calls'[w].pc = "ask" => calls[w].pc = "ask"
    PROVE  PaceInv'
<1>1. CASE provider = "nominatim"
  <2>1. Owning' \in SUBSET Owning
    BY <1>1 DEF Owning, At
  <2>2. Cardinality(Owning') \in Nat /\ Cardinality(Owning') <= Cardinality(Owning)
    BY <2>1, OwningCounts
  <2> HIDE DEF Owning
  <2>3. burst \in Nat
    BY DEF MatchingInv, GeoInv
  <2> QED
    BY <1>1, <2>2, <2>3, OwningCounts DEF PaceInv
<1>2. CASE provider # "nominatim"
  BY <1>2 DEF PaceInv
<1> QED
  BY <1>1, <1>2

LEMMA PaceStep ==
    ASSUME MatchingInv, PaceInv, [MatchingNext]_matchingVars
    PROVE  PaceInv'
<1>0. /\ DOMAIN calls = Workers /\ burst \in Nat /\ slot \in BOOLEAN
      /\ \A w \in Workers : calls[w] = NoCall \/ calls[w] \in Calls
      /\ IsFiniteSet(Owning) /\ Cardinality(Owning) \in Nat /\ Cardinality(Workers) \in Nat
      /\ Cardinality(Owning) <= Cardinality(Workers)
  BY OwningCounts DEF MatchingInv, GeoInv, CallFits
<1>1. CASE UNCHANGED <<provider, slot, burst, calls>>
  BY <1>1, NobodySends
<1>2. ASSUME NEW w \in Workers, TakeSlot(w)
      PROVE  PaceInv'
  <2>1. /\ ~slot /\ slot' = TRUE /\ UNCHANGED <<provider, burst>>
        /\ calls[w].pc = "slot" /\ calls' = [calls EXCEPT ![w].pc = "ask"]
    BY <1>2 DEF TakeSlot, SlotIsFree, At, Goto
  <2>2. w \in Workers \ Owning
    BY <2>1 DEF Owning, At
  <2>3. Owning' = Owning \cup {w}
    BY <1>0, <2>1 DEF Owning, At
  <2>4. Cardinality(Owning') = Cardinality(Owning) + 1
    BY <2>2, <2>3, OwningCounts
  <2> QED
    BY <1>0, <2>1, <2>4 DEF PaceInv
<1>3. ASSUME NEW w \in Workers, Answer(w)
      PROVE  PaceInv'
  <2>1. UNCHANGED <<provider, slot>> /\ calls[w].pc \in {"ask", "unpaced"}
    BY <1>3 DEF Answer
  <2>2. calls'[w].pc # "ask" /\ \A v \in Workers \ {w} : calls'[v] = calls[v]
    <3>1. PICK c : c.pc # "ask" /\ calls' = [calls EXCEPT ![w] = c]
      <4>1. PICK answer \in {truth[calls[w].query], Failed} :
                IF Stored(answer) /\ ~calls[w].direct
                THEN calls' = [calls EXCEPT ![w] = [@ EXCEPT !.pc = "store", !.answer = IF answer = Failed THEN Nowhere ELSE answer]]
                ELSE Returns(w, answer)
        BY <1>3 DEF Answer
      <4> DEFINE c == [calls[w] EXCEPT !.pc = "store", !.answer = IF answer = Failed THEN Nowhere ELSE answer]
                 d == [pc |-> "answered", query |-> calls[w].query, direct |-> FALSE, answer |-> answer]
      <4>2. c.pc # "ask"
        BY <1>0, <2>1 DEF Calls, NoCall
      <4>3. d.pc # "ask"
        OBVIOUS
      <4>4. calls' = [calls EXCEPT ![w] = c] \/ calls' = [calls EXCEPT ![w] = d]
        BY <4>1 DEF Returns
      <4> HIDE DEF c, d
      <4> QED
        BY <4>2, <4>3, <4>4
    <3> QED
      BY <1>0, <3>1
  <2>3. CASE provider = "nominatim" /\ calls[w].pc = "ask"
    <3>1. burst' = burst + 1
      BY <1>3, <2>3 DEF Answer, Sends, At
    <3>2. w \in Owning
      BY <2>3 DEF Owning, At
    <3>3. Owning' = Owning \ {w}
      BY <2>2 DEF Owning, At
    <3>4. Cardinality(Owning') = Cardinality(Owning) - 1
      BY <3>2, <3>3, OwningCounts
    <3> QED
      BY <1>0, <2>1, <2>3, <3>1, <3>4 DEF PaceInv
  <2>4. CASE ~(provider = "nominatim" /\ calls[w].pc = "ask")
    <3>1. burst' = burst
      BY <1>3, <2>4 DEF Answer, Sends, At
    <3> QED
      BY <2>1, <2>2, <2>4, <3>1, NobodySends
  <2> QED
    BY <2>3, <2>4
<1>4. ASSUME SlotExpires
      PROVE  PaceInv'
  <2>1. /\ slot = TRUE /\ slot' = FALSE /\ burst' = IF burst = 0 THEN 0 ELSE burst - 1
        /\ UNCHANGED <<provider, calls>>
    BY <1>0, <1>4 DEF SlotExpires
  <2>2. Owning' = Owning
    BY <2>1 DEF Owning, At
  <2>3. Cardinality(Owning') = Cardinality(Owning)
    BY <2>2
  <2> QED
    BY <1>0, <2>1, <2>3 DEF PaceInv
<1>5. ASSUME NEW w \in Workers, SleepInstead(w) \/ SlotTimesOut(w) \/ StoreAnswer(w) \/ QuotaUsedUp(w) \/ FromLandmark(w)
      PROVE  PaceInv'
  <2>1. UNCHANGED <<provider, slot, burst>>
    BY <1>5 DEF SleepInstead, SlotTimesOut, StoreAnswer, QuotaUsedUp, FromLandmark
  <2>2. calls'[w].pc # "ask" /\ \A v \in Workers \ {w} : calls'[v] = calls[v]
    <3>1. PICK c : c.pc # "ask" /\ calls' = [calls EXCEPT ![w] = c]
      <4>1. CASE SleepInstead(w)
        <5> DEFINE c == [calls[w] EXCEPT !.pc = "unpaced"]
        <5>1. calls' = [calls EXCEPT ![w] = c] /\ calls[w].pc = "slot"
          BY <4>1 DEF SleepInstead, Goto, At
        <5>2. c.pc # "ask"
          BY <1>0, <5>1 DEF Calls, NoCall
        <5> HIDE DEF c
        <5> QED
          BY <5>1, <5>2
      <4>2. CASE SlotTimesOut(w) \/ StoreAnswer(w)
        BY <4>2 DEF SlotTimesOut, StoreAnswer, Returns
      <4>3. CASE QuotaUsedUp(w)
        <5> DEFINE c == [calls[w] EXCEPT !.pc = "store", !.answer = Nowhere]
        <5>1. (Returns(w, Nowhere) \/ calls' = [calls EXCEPT ![w] = c]) /\ calls[w].pc = "ask"
          BY <4>3 DEF QuotaUsedUp, At
        <5>2. c.pc # "ask"
          BY <1>0, <5>1 DEF Calls, NoCall
        <5> HIDE DEF c
        <5> QED
          BY <5>1, <5>2 DEF Returns
      <4>4. CASE FromLandmark(w)
        BY <4>4 DEF FromLandmark, NoCall
      <4> QED
        BY <1>5, <4>1, <4>2, <4>3, <4>4
    <3> QED
      BY <1>0, <3>1
  <2> QED
    BY <2>1, <2>2, NobodySends
<1>6. ASSUME NEW w \in Workers, NEW q, Lookup(w, q)
      PROVE  PaceInv'
  <2>1. UNCHANGED <<provider, slot, burst>>
    BY <1>6 DEF Lookup
  <2>2. /\ provider = "nominatim" => calls'[w].pc # "ask"
        /\ \A v \in Workers \ {w} : calls'[v] = calls[v]
    BY <1>0, <1>6 DEF Lookup
  <2> QED
    BY <2>1, <2>2, NobodySends
<1>7. ASSUME NEW w \in Workers, NEW rep \in Reports, Start(w, rep)
      PROVE  PaceInv'
  <2>1. UNCHANGED geoVars \/ Lookup(w, report[rep].form.landmark)
    BY <1>7 DEF Start
  <2> QED
    BY <1>1, <1>6, <2>1 DEF geoVars
<1>8. CASE GeoNext
  BY <1>1, <1>2, <1>3, <1>4, <1>5, <1>8 DEF GeoNext, AnswerExpires
<1>9. CASE ~GeoNext /\ MatchingNext
  <2>1. \/ \E w \in Workers : (\E rep \in Reports : Start(w, rep)) \/ FromLandmark(w)
        \/ UNCHANGED <<provider, slot, burst, calls>>
    BY <1>9 DEF MatchingNext, AskOffer, OpenOffline, Submit, OfferExpires, Finish, Dies, StartImport,
                ImportBatch, EndImport, geoVars
  <2> QED
    BY <1>1, <1>5, <1>7, <2>1
<1> QED
  BY <1>1, <1>8, <1>9 DEF matchingVars, geoVars

\* "At most 1 request per second, ... across all workers": in no period are more
\* requests sent for a slot than seconds of slots ran out in it, one more, and one for
\* each worker, for any number of workers.
THEOREM RequestsKeepThePace == MatchingSpec => []RequestsKeepPace
<1>1. MatchingInit => PaceInv
  <2> SUFFICES ASSUME MatchingInit PROVE PaceInv
    OBVIOUS
  <2>1. burst = 0 /\ slot = FALSE
    BY DEF MatchingInit, GeoInit
  <2> QED
    BY <2>1, OwningCounts DEF PaceInv
<1>2. MatchingInv /\ PaceInv /\ [MatchingNext]_matchingVars => PaceInv'
  BY PaceStep
<1>3. MatchingInv /\ PaceInv => RequestsKeepPace
  <2> SUFFICES ASSUME MatchingInv, PaceInv PROVE RequestsKeepPace
    OBVIOUS
  <2>1. burst \in Nat /\ slot \in BOOLEAN
    BY DEF MatchingInv, GeoInv
  <2> QED
    BY <2>1, OwningCounts DEF PaceInv, RequestsKeepPace
<1> QED
  BY <1>1, <1>2, <1>3, MatchingInvariance, PTL DEF MatchingSpec

\* A report is linked to a building within the radius its accuracy allows, the nearest
\* or the reporter's own, or by a landmark to one within 100 m of it, unless an import
\* has changed the footprints since.
THEOREM LinksAreNear == MatchingSpec => []LinkIsNear
<1>1. MatchingInv => LinkIsNear
  <2> SUFFICES ASSUME MatchingInv, NEW r \in Reports, Linked(r), report[r].fresh
               PROVE  LinkFits(report[r], report[r].match)
    BY DEF LinkIsNear, LinkFits, Allowed
  <2>1. report[r] # NoRow /\ report[r].match.building # None
    BY DEF Linked, NoRow
  <2> QED
    BY <2>1 DEF MatchingInv, RowFits
<1> QED
  BY <1>1, MatchingInvariance, PTL

\* A reporter who picked a building of a live offer is linked to it, and one whose
\* building is missing to none, whatever the tasks, redeliveries and cached offers.
THEOREM TheReporterDecides == MatchingSpec => []ReporterDecides
<1>1. MatchingInv => ReporterDecides
  <2> SUFFICES ASSUME MatchingInv, NEW r \in Reports, report[r].pc = "row", report[r].done
               PROVE  Obeys(report[r], report[r].match)
    BY DEF ReporterDecides, Obeys
  <2>1. report[r] # NoRow
    BY DEF NoRow
  <2> QED
    BY <2>1 DEF MatchingInv, RowFits
<1> QED
  BY <1>1, MatchingInvariance, PTL

\* An import that ends without an error leaves its whole source in the table, whatever
\* failed imports left behind before it.
THEOREM ImportsConverge == MatchingSpec => []ImportConverges
<1>1. MatchingInv => ImportConverges
  BY DEF MatchingInv, ImportFits, IsIn, ImportConverges
<1> QED
  BY <1>1, MatchingInvariance, PTL

\* The arithmetic of the score (DuplicateScorer): 90 percent with a building and
\* coordinates on both takes the same building and no more than 16 m, whatever the
\* photos and the categories of the two reports.
LEMMA MergeNeedsOnePlace ==
    ASSUME NEW a, NEW b, {a.fix, b.fix, a.hash, b.hash} \subseteq Nat \cup {None}, Action(a, b) = "auto_merge"
    PROVE  a.building = b.building /\ a.building # None /\ Apart(a.fix, b.fix) <= 16
<1> DEFINE same == BuildingSignal(a, b)
           apart == Apart(a.fix, b.fix)
           near == GpsSignal(a, b)
           image == ImageSignal(a, b)
           kind == CategorySignal(a, b)
           w == Weights(a, b)
<1>1. AtLeastPercent(Score(a, b), 90) /\ Both(a.building, b.building) /\ Both(a.fix, b.fix)
  BY DEF Action, StrongLocation
<1>2. a.fix \in Nat /\ b.fix \in Nat /\ apart \in Nat
  BY <1>1 DEF Both, Apart
<1>3. near = IF apart >= 50 THEN 0 ELSE 100 - 2 * apart
  BY DEF GpsSignal
<1>4. kind \in 0..100
  BY DEF CategorySignal
<1>5. same \in {0, 100} /\ (same = 100 => a.building = b.building)
  BY DEF BuildingSignal
<1>6. w.building = 4 /\ w.gps = 3 /\ w.image \in {0, 2} /\ w.category = 1
  BY <1>1 DEF Weights
<1>7. /\ Score(a, b).num = 4 * same + 3 * near + (IF w.image = 0 THEN 0 ELSE 2 * image) + kind
      /\ Score(a, b).den = 4 + 3 + w.image + 1
  BY <1>6 DEF Score, Total
<1>8. Score(a, b).num >= 90 * Score(a, b).den
  BY <1>1 DEF AtLeastPercent
<1>9. w.image = 2 => image \in Int /\ image <= 100
  <2> DEFINE bits == Apart(a.hash, b.hash)
  <2>1. w.image = 2 => bits \in Nat
    BY DEF Weights, Both, Apart
  <2>2. image = CASE bits < 10 -> 100 [] bits >= 30 -> 0 [] OTHER -> 100 - 5 * (bits - 10)
    BY DEF ImageSignal
  <2> HIDE DEF bits, image, w
  <2> QED
    BY <2>1, <2>2
<1> HIDE DEF same, apart, near, image, kind, w
<1>10. same = 100 /\ apart <= 16
  <2>1. CASE w.image = 0
    BY <1>2, <1>3, <1>4, <1>5, <1>7, <1>8, <2>1
  <2>2. CASE w.image = 2
    BY <1>2, <1>3, <1>4, <1>5, <1>7, <1>8, <1>9, <2>2
  <2> QED
    BY <1>6, <2>1, <2>2
<1> QED
  BY <1>1, <1>5, <1>10 DEF apart, Both

\* Two reports get into merge review only if they are linked to one building and their
\* fixes are within 16 m of each other.
THEOREM MergesAreOnePlace == MatchingSpec => []MergeIsSamePlace
<1>1. MatchingInv => MergeIsSamePlace
  <2> SUFFICES ASSUME MatchingInv, NEW r \in Reports, NEW pair \in MergeReview, report[r].pc = "row",
                      pair[1] = AsScored(r)
               PROVE  LET a == pair[1]  b == pair[2]
                      IN  a.building = b.building /\ a.building # None /\ Apart(a.fix, b.fix) <= 16
    BY DEF MergeIsSamePlace, Done
  <2>1. PICK a \in Scored, b \in Others : pair = <<a, b>>
    BY DEF MergeReview
  <2>2. pair[1] = a /\ pair[2] = b /\ a = AsScored(r) /\ Action(a, b) = "auto_merge"
    BY <2>1 DEF MergeReview
  <2>3. report[r].form \in Forms
    BY DEF MatchingInv, RowFits, RowType, NoRow
  <2>4. AsScored(r).fix \in Nat \cup {None} /\ AsScored(r).hash \in Nat \cup {None}
    BY <2>3, FormsFit DEF AsScored
  <2>5. b.fix \in Nat \cup {None} /\ b.hash \in Nat \cup {None}
    <3>1. b.fix \in OtherFixes /\ b.hash \in {None, 0, 30}
      BY DEF Others
    <3>2. OtherFixes \subseteq Nat \cup {None}
      BY MatchingAssumption
    <3>3. {None, 0, 30} \subseteq Nat \cup {None}
      OBVIOUS
    <3> QED
      BY <3>1, <3>2, <3>3, Zenon
  <2> QED
    BY <2>2, <2>4, <2>5, MergeNeedsOnePlace
<1> QED
  BY <1>1, MatchingInvariance, PTL
===============================================================================
