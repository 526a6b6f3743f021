------------------------ MODULE AnalystReview_proofs ------------------------
(***************************************************************************)
(* What AnalystReview keeps whatever the number of reports and sessions.   *)
(*                                                                         *)
(*   RowsInv    every UPDATE that is on its way is sound: it types, and it *)
(*              never separates pending_merge_review from its primary      *)
(*   SoloInv    a transaction that no other overlapped has recomputed what *)
(*              its own commit is going to leave                           *)
(*   SerialInv  one transaction at a time: tiers stay near the reporter's, *)
(*              severity is at most the worst damage that counts           *)
(***************************************************************************)
EXTENDS AnalystReview, FiniteSetTheorems, TLAPS

Columns == {"status", "dupOf", "possible", "tier", "damage", "photo", "linked"}

LEMMA ColumnNames == DOMAIN Column = Columns
  BY DEF Column, Columns

\* The UPDATEs of a transaction: for each report, some columns and values for them.
Sets(S) ==
    /\ DOMAIN S = Reports
    /\ \A r \in Reports : \A c \in DOMAIN S[r] : c \in Columns /\ S[r][c] \in Column[c]

LEMMA NothingSets == Sets(Nothing) /\ \A r \in Reports : DOMAIN Nothing[r] = {}
  BY DEF Sets, Nothing

LEMMA RowFields ==
    ASSUME NEW f, f = [c \in Columns |-> f[c]], \A c \in Columns : f[c] \in Column[c]
    PROVE  f \in Row
  BY DEF Columns, Column, Row

LEMMA FieldsOfRow ==
    ASSUME NEW f \in Row
    PROVE  DOMAIN f = Columns /\ \A c \in Columns : f[c] \in Column[c]
  BY DEF Columns, Column, Row

LEMMA UpdatedRows ==
    ASSUME row \in [Reports -> Row], NEW S, Sets(S)
    PROVE  Updated(S) \in [Reports -> Row]
<1>1. ASSUME NEW r \in Reports PROVE Updated(S)[r] \in Row
  <2>1. Updated(S)[r] = [c \in Columns |-> IF c \in DOMAIN S[r] THEN S[r][c] ELSE row[r][c]]
    BY ColumnNames DEF Updated
  <2>2. \A c \in Columns : Updated(S)[r][c] \in Column[c]
    BY <2>1, FieldsOfRow DEF Sets
  <2>3. Updated(S)[r] = [c \in Columns |-> Updated(S)[r][c]]
    BY <2>1
  <2> QED BY <2>2, <2>3, RowFields
<1> QED BY <1>1 DEF Updated

LEMMA MaxOfSmall ==
    ASSUME NEW S \in SUBSET (0..3), 0 \in S
    PROVE  /\ Max(S) \in S
           /\ \A x \in S : x <= Max(S)
<1>1. \E m \in S : \A x \in S : m >= x
  <2>1. CASE 3 \in S  BY <2>1
  <2>2. CASE 3 \notin S /\ 2 \in S  BY <2>2
  <2>3. CASE 3 \notin S /\ 2 \notin S /\ 1 \in S  BY <2>3
  <2>4. CASE S = {0}  BY <2>4
  <2> QED BY <2>1, <2>2, <2>3, <2>4
<1> QED BY <1>1 DEF Max

LEMMA WorstOfRows ==
    ASSUME NEW rows \in [Reports -> Row]
    PROVE  /\ Worst(rows) \in 0..3
           /\ \A r \in Reports : Counts(rows[r]) => rows[r].damage <= Worst(rows)
           /\ Worst(rows) # 0 => \E r \in Reports : Counts(rows[r]) /\ rows[r].damage = Worst(rows)
<1> DEFINE D == {rows[r].damage : r \in {q \in Reports : Counts(rows[q])}} \cup {0}
<1>1. D \in SUBSET (0..3) /\ 0 \in D
  BY DEF Row
<1>2. Worst(rows) = Max(D)
  BY DEF Worst
<1> HIDE DEF D
<1>3. Max(D) \in D /\ \A x \in D : x <= Max(D)
  BY <1>1, MaxOfSmall
<1> QED BY <1>1, <1>2, <1>3 DEF D

-----------------------------------------------------------------------------
(* What the handlers send.                                                 *)

\* A report that is held for review gets its primary in the same UPDATE, and loses it
\* only together with that status.
Primary(r, f) ==
    /\ "possible" \in DOMAIN f =>
           /\ f["possible"] # r
           /\ f["possible"] = NoReport =>
                  "status" \in DOMAIN f /\ f["status"] # "pending_merge_review"
    /\ "status" \in DOMAIN f /\ f["status"] = "pending_merge_review" =>
           "possible" \in DOMAIN f /\ f["possible"] # NoReport

Fields(f) == \A c \in DOMAIN f : c \in Columns /\ f[c] \in Column[c]

Sound(S) == DOMAIN S = Reports /\ \A r \in Reports : Fields(S[r]) /\ Primary(r, S[r])

LEMMA SoundSets == ASSUME NEW S, Sound(S) PROVE Sets(S)
  BY DEF Sound, Sets, Fields

LEMMA NothingSound ==
    /\ DOMAIN Nothing = Reports /\ Sound(Nothing)
    /\ \A r \in Reports : Nothing[r] = <<>> /\ Fields(<<>>) /\ Primary(r, <<>>)
<1>1. DOMAIN <<>> = {}
  OBVIOUS
<1> QED BY <1>1 DEF Nothing, Sound, Fields, Primary

LEMMA OneSound ==
    ASSUME NEW r \in Reports, NEW f, Fields(f), Primary(r, f)
    PROVE  Sound([Nothing EXCEPT ![r] = f])
  BY NothingSound DEF Sound

LEMMA ChangesFields ==
    ASSUME row \in [Reports -> Row], NEW r \in Reports, NEW want \in Row
    PROVE  /\ DOMAIN Changes(r, want) = {c \in Columns : want[c] # row[r][c]}
           /\ \A c \in DOMAIN Changes(r, want) : Changes(r, want)[c] = want[c]
           /\ Fields(Changes(r, want))
  BY FieldsOfRow DEF Changes, Fields

\* A handler that leaves the report unheld, with a primary that is not new.
LEMMA UnheldPrimary ==
    ASSUME row \in [Reports -> Row], NEW r \in Reports, NEW want \in Row,
           want["status"] # "pending_merge_review",
           want["possible"] \in {row[r]["possible"], NoReport},
           want["possible"] = row[r]["possible"] \/ want["status"] # row[r]["status"]
    PROVE  Primary(r, Changes(r, want))
<1>1. "possible" \in Columns /\ "status" \in Columns /\ r # NoReport
  BY ReviewAssumption DEF Columns
<1> QED BY <1>1, ChangesFields DEF Primary

Transitioned(r, st) == [row[r] EXCEPT !.status = st, !.tier = TierAfter(@, st)]

LEMMA TransitionSound ==
    ASSUME row \in [Reports -> Row], world.top \in 0..2, NEW r \in Reports,
           NEW st \in {"verified", "rejected", "duplicate"}
    PROVE  Sound([Nothing EXCEPT ![r] = Changes(r, Transitioned(r, st))])
<1> DEFINE want == Transitioned(r, st)
<1>1. TierAfter(row[r].tier, st) \in 0..world.top
  BY DEF TierAfter, Row
<1>2. want \in Row /\ want["possible"] = row[r]["possible"] /\ want["status"] = st
  BY <1>1 DEF Row, Status, Transitioned
<1> HIDE DEF want
<1>3. Primary(r, Changes(r, want))
  BY <1>2, UnheldPrimary
<1>4. Sound([Nothing EXCEPT ![r] = Changes(r, want)])
  BY <1>2, <1>3, OneSound, ChangesFields
<1> QED BY <1>4 DEF want

LEMMA MergedSound ==
    ASSUME row \in [Reports -> Row], NEW r \in Reports, NEW primary \in Reports, NEW want \in Row,
           want["possible"] \in {row[r]["possible"], NoReport},
           want["possible"] = row[r]["possible"] \/ row[r]["status"] # "duplicate"
    PROVE  Sound(MergedInto(r, primary, want))
<1> DEFINE w == [want EXCEPT !.status = "duplicate", !.dupOf = primary]
           f == Changes(r, w)
           g == [photo |-> row[r].photo]
           S == MergedInto(r, primary, want)
<1>1. w \in Row /\ w["possible"] = want["possible"] /\ w["status"] = "duplicate"
  BY DEF Row, Status, Ids
<1>2. DOMAIN S = Reports
  BY DEF MergedInto
<1>3. \A q \in Reports : q = r => S[q] = f
  BY DEF MergedInto
<1>4. \A q \in Reports : q # r => S[q] \in {g, <<>>}
  BY DEF MergedInto
<1> HIDE DEF w, S
<1>5. Fields(f) /\ Primary(r, f)
  BY <1>1, UnheldPrimary, ChangesFields
<1>6. DOMAIN g = {"photo"} /\ g["photo"] \in Ids
  BY DEF Row
<1>7. \A q \in Reports : Fields(g) /\ Primary(q, g)
  BY <1>6 DEF Fields, Primary, Columns, Column
<1> HIDE DEF f, g
<1> QED BY <1>2, <1>3, <1>4, <1>5, <1>7, NothingSound DEF Sound, S

-----------------------------------------------------------------------------
(* Rows and transactions.                                                  *)

LEMMA TopTier == ASSUME world \in Worlds PROVE world.top \in 0..2 /\ world.tiers \subseteq 0..world.top
  BY ReviewAssumption DEF World

RowsInv ==
    /\ TypeOK /\ ReviewHasPrimary
    /\ DOMAIN txn = Sessions /\ \A s \in Sessions : Sound(txn[s].sets)

LEMMA RowsInit == Init => RowsInv
<1> SUFFICES ASSUME Init PROVE RowsInv
  OBVIOUS
<1>1. world \in Worlds /\ severity = 0 /\ txn = [s \in Sessions |-> Idle] /\ solo = {}
  BY DEF Init
<1>2. row \in [Reports -> Row]
  BY <1>1, TopTier, ReviewAssumption DEF Init, Row, Status, Ids, World
<1>3. \A r \in Reports : row[r].status = "pending"
  BY DEF Init
<1>4. first \in [Reports -> 0..2]
  BY <1>1, <1>2, TopTier DEF Init, Row
<1>5. \A s \in Sessions : txn[s] = Idle /\ Idle.pc = "idle" /\ Idle.was = 0 /\ Idle.worst = 0 /\ Idle.sets = Nothing
  BY <1>1 DEF Idle
<1>6. TypeOK
  <2>1. \A s \in Sessions, r \in Reports, c \in DOMAIN Column : c \notin DOMAIN txn[s].sets[r]
    BY <1>5, NothingSets
  <2>2. severity \in 0..3 /\ solo \subseteq Sessions
    BY <1>1
  <2>3. \A s \in Sessions :
          /\ txn[s].pc \in {"idle", "loaded", "recompute", "flushed"}
          /\ txn[s].was \in -1..3 /\ txn[s].worst \in 0..3
    BY <1>5
  <2> QED BY <1>1, <1>2, <1>4, <2>1, <2>2, <2>3 DEF TypeOK
<1>7. ReviewHasPrimary
  BY <1>3 DEF ReviewHasPrimary
<1> QED BY <1>1, <1>5, <1>6, <1>7, NothingSound DEF RowsInv

\* What a transaction may be when it begins.
Fit(t) ==
    /\ t.pc \in {"loaded", "recompute", "flushed"} /\ t.was \in -1..3 /\ t.worst \in 0..3
    /\ Sound(t.sets)

LEMMA BeginRows ==
    ASSUME RowsInv, NEW s \in Sessions, NEW t, Fit(t), Begin(s, t) PROVE RowsInv'
<1>1. txn' = [txn EXCEPT ![s] = t] /\ UNCHANGED <<world, row, severity, first>> /\ solo' \subseteq Sessions
  BY DEF Begin
<1>2. \A q \in Sessions : txn'[q] = IF q = s THEN t ELSE txn[q]
  BY <1>1 DEF RowsInv
<1>3. Row' = Row /\ Column' = Column
  BY <1>1 DEF Row, Column
<1>4. \A q \in Sessions : Sound(txn[q].sets)'
  <2>1. \A q \in Sessions : Sound(txn'[q].sets)
    BY <1>2 DEF RowsInv, Fit
  <2> QED BY <1>3, <2>1 DEF Sound, Fields, Primary
<1>5. \A r \in Reports, c \in DOMAIN Column :
        c \in DOMAIN t.sets[r] => t.sets[r][c] \in Column[c]
  BY ColumnNames DEF Fit, Sound, Fields
<1>6. TypeOK'
  BY <1>1, <1>2, <1>3, <1>5 DEF RowsInv, TypeOK, Fit
<1>7. ReviewHasPrimary'
  BY <1>1 DEF RowsInv, ReviewHasPrimary
<1> QED BY <1>1, <1>2, <1>4, <1>6, <1>7 DEF RowsInv

LEMMA LoadRows ==
    ASSUME RowsInv, NEW s \in Sessions, NEW pc \in {"loaded", "recompute"}, NEW S, Sound(S),
           Load(s, pc, S)
    PROVE  RowsInv'
  BY BeginRows DEF Load, Fit

\* Which transactions begin.
LEMMA Loads ==
    ASSUME RowsInv, NEW s \in Sessions, NEW r \in Reports,
           \/ \E st \in {"verified", "rejected", "duplicate"} : Transition(s, r, st)
           \/ \E primary \in Reports : Merge(s, r, primary)
           \/ ConfirmMerge(s, r) \/ RejectMerge(s, r)
           \/ \E primary \in Reports, merge \in BOOLEAN : Score(s, r, primary, merge)
    PROVE  \E S : Sound(S) /\ \E pc \in {"loaded", "recompute"} : Load(s, pc, S)
<1> USE DEF RowsInv, TypeOK
<1>1. world.top \in 0..2
  BY TopTier
<1>2. ASSUME NEW st \in {"verified", "rejected", "duplicate"}, Transition(s, r, st)
      PROVE  \E S : Sound(S) /\ \E pc \in {"loaded", "recompute"} : Load(s, pc, S)
  BY <1>1, <1>2, TransitionSound DEF Transition, Transitioned
<1>3. ASSUME NEW primary \in Reports, Merge(s, r, primary)
      PROVE  \E S : Sound(S) /\ \E pc \in {"loaded", "recompute"} : Load(s, pc, S)
  BY <1>3, MergedSound DEF Merge
<1>4. ASSUME ConfirmMerge(s, r)
      PROVE  \E S : Sound(S) /\ \E pc \in {"loaded", "recompute"} : Load(s, pc, S)
  <2> DEFINE want == [row[r] EXCEPT !.possible = NoReport]
  <2>1. row[r].possible \in Reports /\ row[r].status = "pending_merge_review"
    BY <1>4 DEF ConfirmMerge, ReviewHasPrimary
  <2>2. want \in Row /\ want["possible"] = NoReport
    BY DEF Row, Ids
  <2>3. Sound(MergedInto(r, row[r].possible, want))
    BY <2>1, <2>2, MergedSound
  <2> QED BY <1>4, <2>3 DEF ConfirmMerge
<1>5. ASSUME RejectMerge(s, r)
      PROVE  \E S : Sound(S) /\ \E pc \in {"loaded", "recompute"} : Load(s, pc, S)
  <2> DEFINE want == [row[r] EXCEPT !.status = "pending", !.possible = NoReport]
  <2>1. want \in Row /\ want["possible"] = NoReport /\ want["status"] = "pending"
    BY DEF Row, Ids, Status
  <2>2. row[r]["status"] = "pending_merge_review"
    BY <1>5 DEF RejectMerge
  <2> HIDE DEF want
  <2>3. Sound([Nothing EXCEPT ![r] = Changes(r, want)])
    BY <2>1, <2>2, UnheldPrimary, ChangesFields, OneSound
  <2> QED BY <1>5, <2>3 DEF RejectMerge, want
<1>6. ASSUME NEW primary \in Reports, NEW merge \in BOOLEAN, Score(s, r, primary, merge)
      PROVE  \E S : Sound(S) /\ \E pc \in {"loaded", "recompute"} : Load(s, pc, S)
  <2> DEFINE f == IF merge THEN [possible |-> primary, status |-> "pending_merge_review"]
                           ELSE [possible |-> primary]
  <2>1. primary # r /\ primary # NoReport
    BY <1>6, ReviewAssumption DEF Score, Candidates
  <2>2. Fields(f) /\ Primary(r, f)
    BY <2>1 DEF Fields, Primary, Columns, Column, Status, Ids
  <2> HIDE DEF f
  <2>3. Sound([Nothing EXCEPT ![r] = f])
    BY <2>2, OneSound
  <2> QED BY <1>6, <2>3 DEF Score, f
<1> QED BY <1>2, <1>3, <1>4, <1>5, <1>6

LEMMA LinkFit ==
    ASSUME RowsInv, NEW r \in Reports
    PROVE  /\ Sound([Nothing EXCEPT ![r] = [linked |-> TRUE]])
           /\ Recomputed([Nothing EXCEPT ![r] = [linked |-> TRUE]]) \in 0..3
<1> DEFINE f == [linked |-> TRUE]
           S == [Nothing EXCEPT ![r] = f]
<1>1. DOMAIN f = {"linked"} /\ f["linked"] = TRUE
  OBVIOUS
<1>2. f["linked"] \in Column["linked"]
  BY <1>1 DEF Column
<1> HIDE DEF f
<1>3. Fields(f) /\ Primary(r, f)
  BY <1>1, <1>2 DEF Fields, Primary, Columns
<1>4. Sound(S)
  BY <1>3, OneSound
<1> HIDE DEF S
<1>5. Updated(S) \in [Reports -> Row]
  BY <1>4, SoundSets, UpdatedRows DEF RowsInv, TypeOK
<1>6. Recomputed(S) \in 0..3
  BY <1>5, WorstOfRows DEF Recomputed
<1> QED BY <1>4, <1>6 DEF S, f

LEMMA LinkRows ==
    ASSUME RowsInv, NEW s \in Sessions, NEW r \in Reports, Link(s, r) PROVE RowsInv'
<1> DEFINE S == [Nothing EXCEPT ![r] = [linked |-> TRUE]]
           t == [pc |-> "flushed", sets |-> S, was |-> -1, worst |-> Recomputed(S)]
<1>1. Sound(S) /\ Recomputed(S) \in 0..3
  BY LinkFit
<1>2. Begin(s, t)
  BY DEF Link
<1> HIDE DEF S
<1>3. Fit(t)
  BY <1>1 DEF Fit
<1> QED BY <1>2, <1>3, BeginRows

LEMMA FlushRows ==
    ASSUME RowsInv, NEW s \in Sessions, Flush(s) PROVE RowsInv'
<1> DEFINE t == [pc |-> "flushed", sets |-> txn[s].sets,
                 was |-> severity, worst |-> Recomputed(txn[s].sets)]
<1>1. txn' = [txn EXCEPT ![s] = t] /\ UNCHANGED <<world, row, severity, solo, first>>
  BY DEF Flush
<1>2. Updated(txn[s].sets) \in [Reports -> Row] /\ Sound(txn[s].sets)
  BY SoundSets, UpdatedRows DEF RowsInv, TypeOK
<1>3. Recomputed(txn[s].sets) \in 0..3
  BY <1>2, WorstOfRows DEF Recomputed
<1>4. t.pc = "flushed" /\ t.was \in -1..3 /\ t.worst \in 0..3 /\ t.sets = txn[s].sets
  BY <1>3 DEF RowsInv, TypeOK
<1> HIDE DEF t
<1>5. \A q \in Sessions : txn'[q] = IF q = s THEN t ELSE txn[q]
  BY <1>1 DEF RowsInv
<1>6. Row' = Row /\ Column' = Column
  BY <1>1 DEF Row, Column
<1>7. \A q \in Sessions : Sound(txn[q].sets)'
  <2>1. \A q \in Sessions : Sound(txn'[q].sets)
    BY <1>4, <1>5 DEF RowsInv
  <2> QED BY <1>6, <2>1 DEF Sound, Fields, Primary
<1>8. TypeOK'
  BY <1>1, <1>4, <1>5, <1>6 DEF RowsInv, TypeOK
<1>9. ReviewHasPrimary'
  BY <1>1 DEF RowsInv, ReviewHasPrimary
<1> QED BY <1>1, <1>7, <1>8, <1>9 DEF RowsInv

\* What a session writes at the end of its transaction.
LEMMA EndRows ==
    ASSUME RowsInv, NEW s \in Sessions, End(s), row' = Updated(txn[s].sets), severity' \in 0..3
    PROVE  RowsInv'
<1>1. txn' = [txn EXCEPT ![s] = Idle] /\ solo' \subseteq Sessions /\ UNCHANGED <<world, first>>
  BY DEF End, RowsInv, TypeOK
<1>2. \A q \in Sessions : txn'[q] = IF q = s THEN Idle ELSE txn[q]
  BY <1>1 DEF RowsInv
<1>3. Idle.pc = "idle" /\ Idle.was = 0 /\ Idle.worst = 0 /\ Idle.sets = Nothing
  BY DEF Idle
<1>4. Row' = Row /\ Column' = Column
  BY <1>1 DEF Row, Column
<1>5. \A q \in Sessions : Sound(txn[q].sets)'
  <2>1. \A q \in Sessions : Sound(txn'[q].sets)
    BY <1>2, <1>3, NothingSound DEF RowsInv
  <2> QED BY <1>4, <2>1 DEF Sound, Fields, Primary
<1>6. row' \in [Reports -> Row]
  BY SoundSets, UpdatedRows DEF RowsInv, TypeOK
<1>7. TypeOK'
  <2>1. \A q \in Sessions : \A r \in Reports, c \in DOMAIN Column :
            c \in DOMAIN txn'[q].sets[r] => txn'[q].sets[r][c] \in Column[c]
    BY <1>2, <1>3, NothingSets DEF RowsInv, TypeOK
  <2>2. \A q \in Sessions :
            /\ txn'[q].pc \in {"idle", "loaded", "recompute", "flushed"}
            /\ txn'[q].was \in -1..3 /\ txn'[q].worst \in 0..3
    BY <1>2, <1>3 DEF RowsInv, TypeOK
  <2>3. world' \in Worlds /\ first' \in [Reports -> 0..2]
    BY <1>1 DEF RowsInv, TypeOK
  <2> QED BY <1>1, <1>4, <1>6, <2>1, <2>2, <2>3 DEF TypeOK
<1>8. ReviewHasPrimary'
  <2> SUFFICES ASSUME NEW r \in Reports, row'[r].status = "pending_merge_review"
               PROVE  row'[r].possible \in Reports \ {r}
    BY DEF ReviewHasPrimary
  <2> DEFINE f == txn[s].sets[r]
  <2>1. Fields(f) /\ Primary(r, f)
    BY DEF RowsInv, Sound
  <2>2. /\ row'[r].status = IF "status" \in DOMAIN f THEN f["status"] ELSE row[r].status
        /\ row'[r].possible = IF "possible" \in DOMAIN f THEN f["possible"] ELSE row[r].possible
    BY ColumnNames DEF Updated, Columns
  <2> HIDE DEF f
  <2>3. CASE "status" \in DOMAIN f
    BY <2>1, <2>2, <2>3 DEF Fields, Primary, Column, Ids
  <2>4. CASE "status" \notin DOMAIN f
    <3>1. row[r].possible \in Reports \ {r}
      BY <2>2, <2>4 DEF RowsInv, ReviewHasPrimary
    <3> QED BY <3>1, <2>1, <2>2, <2>4 DEF Fields, Primary, Column, Ids
  <2> QED BY <2>3, <2>4
<1> QED BY <1>1, <1>2, <1>5, <1>7, <1>8 DEF RowsInv

LEMMA RowsStep == RowsInv /\ [Next]_vars => RowsInv'
<1> SUFFICES ASSUME RowsInv, [Next]_vars PROVE RowsInv'
  OBVIOUS
<1>1. CASE UNCHANGED vars
  <2>1. Row' = Row /\ Column' = Column
    BY <1>1 DEF vars, Row, Column
  <2>2. TypeOK'
    BY <1>1, <2>1 DEF vars, RowsInv, TypeOK
  <2>3. \A s \in Sessions : Sound(txn[s].sets)'
    BY <1>1, <2>1 DEF vars, RowsInv, Sound, Fields, Primary
  <2>4. ReviewHasPrimary'
    BY <1>1 DEF vars, RowsInv, ReviewHasPrimary
  <2> QED BY <1>1, <2>2, <2>3, <2>4 DEF vars, RowsInv
<1>2. ASSUME NEW s \in Sessions, Write(s) PROVE RowsInv'
  BY <1>2, EndRows DEF Write, RowsInv, TypeOK
<1>3. ASSUME NEW s \in Sessions, Flush(s) PROVE RowsInv'
  BY <1>3, FlushRows
<1>4. ASSUME NEW s \in Sessions, Commit(s) PROVE RowsInv'
  BY <1>4, EndRows DEF Commit, RowsInv, TypeOK
<1>5. ASSUME NEW s \in Sessions, NEW r \in Reports, Link(s, r) PROVE RowsInv'
  BY <1>5, LinkRows
<1>6. ASSUME NEW s \in Sessions, NEW r \in Reports,
             \/ \E st \in {"verified", "rejected", "duplicate"} : Transition(s, r, st)
             \/ \E primary \in Reports : Merge(s, r, primary)
             \/ ConfirmMerge(s, r) \/ RejectMerge(s, r)
             \/ \E primary \in Reports, merge \in BOOLEAN : Score(s, r, primary, merge)
      PROVE  RowsInv'
  <2>1. PICK S : Sound(S) /\ \E pc \in {"loaded", "recompute"} : Load(s, pc, S)
    BY <1>6, Loads
  <2> QED BY <2>1, LoadRows
<1> QED BY <1>1, <1>2, <1>3, <1>4, <1>5, <1>6 DEF Next

\* The tables and the transactions hold what their types say.
THEOREM TypeCorrect == Spec => []TypeOK
<1>1. Spec => []RowsInv
  BY RowsInit, RowsStep, PTL DEF Spec
<1> QED BY <1>1, PTL DEF RowsInv

\* A report held for review has a primary that is not the report itself, whatever
\* transactions overlap (analyst_service.py:1031).
THEOREM HeldHavePrimary == Spec => []ReviewHasPrimary
<1>1. Spec => []RowsInv
  BY RowsInit, RowsStep, PTL DEF Spec
<1> QED BY <1>1, PTL DEF RowsInv

-----------------------------------------------------------------------------
(* A transaction that nobody overlaps.                                     *)

SoloInv ==
    /\ RowsInv
    /\ \A s \in solo :
        /\ Open = {s}
        /\ txn[s].pc = "flushed" =>
               /\ txn[s].worst = Worst(Updated(txn[s].sets))
               /\ txn[s].was \in {severity, -1}

LEMMA BeginSolo ==
    ASSUME SoloInv, NEW s \in Sessions, NEW t, Begin(s, t), t.pc # "idle",
           t.pc = "flushed" => t.worst = Worst(Updated(t.sets)) /\ t.was = -1
    PROVE  /\ solo' = IF Open = {} THEN {s} ELSE {}
           /\ Open' = Open \cup {s}
           /\ \A q \in solo' :
                /\ Open' = {q}
                /\ txn'[q].pc = "flushed" =>
                       /\ txn'[q].worst = Worst(Updated(txn[q].sets))'
                       /\ txn'[q].was \in {severity', -1}
<1>1. /\ txn' = [txn EXCEPT ![s] = t] /\ UNCHANGED <<world, row, severity, first>>
      /\ solo' = IF Open = {} THEN {s} ELSE {}
  BY DEF Begin
<1>2. \A q \in Sessions : txn'[q] = IF q = s THEN t ELSE txn[q]
  BY <1>1 DEF SoloInv, RowsInv
<1>3. Open' = Open \cup {s}
  BY <1>2 DEF Open
<1>4. Updated(txn[s].sets)' = Updated(t.sets)
  <2>1. Column' = Column
    BY <1>1 DEF Column
  <2> QED BY <1>1, <1>2, <2>1 DEF Updated
<1>5. Worst(Updated(txn[s].sets))' = Worst(Updated(t.sets))
  BY <1>4 DEF Worst, Counts
<1> QED BY <1>1, <1>2, <1>3, <1>5

LEMMA EndSolo ==
    ASSUME SoloInv, NEW s \in Sessions, End(s), txn[s].pc # "idle"
    PROVE  Open' = Open \ {s} /\ solo' = {} /\ solo \subseteq {s}
<1>1. txn' = [txn EXCEPT ![s] = Idle] /\ solo' = solo \ {s}
  BY DEF End
<1>2. \A q \in Sessions : txn'[q] = IF q = s THEN Idle ELSE txn[q]
  BY <1>1 DEF SoloInv, RowsInv
<1>3. s \in Open /\ Open' = Open \ {s}
  BY <1>2 DEF Open, Idle
<1>4. solo \subseteq {s}
  BY <1>3 DEF SoloInv
<1> QED BY <1>1, <1>3, <1>4

LEMMA FlushSolo ==
    ASSUME SoloInv, NEW s \in Sessions, Flush(s)
    PROVE  /\ Open' = Open /\ solo' = solo
           /\ \A q \in solo : q = s /\ Open' = {s}
           /\ txn'[s].worst = Worst(Updated(txn[s].sets))'
           /\ txn'[s].was = severity'
<1> DEFINE t == [pc |-> "flushed", sets |-> txn[s].sets,
                 was |-> severity, worst |-> Recomputed(txn[s].sets)]
<1>1. txn' = [txn EXCEPT ![s] = t] /\ UNCHANGED <<world, row, severity, solo, first>>
  BY DEF Flush
<1>2. \A q \in Sessions : txn'[q] = IF q = s THEN t ELSE txn[q]
  BY <1>1 DEF SoloInv, RowsInv
<1>3. s \in Open /\ Open' = Open
  BY <1>2 DEF Open, Flush
<1>4. Updated(txn[s].sets)' = Updated(txn[s].sets)
  <2>1. Column' = Column
    BY <1>1 DEF Column
  <2> QED BY <1>1, <1>2, <2>1 DEF Updated
<1>5. Worst(Updated(txn[s].sets))' = Worst(Updated(txn[s].sets))
  BY <1>4 DEF Worst, Counts
<1>6. txn'[s].worst = Recomputed(txn[s].sets) /\ txn'[s].was = severity
  BY <1>2
<1> QED BY <1>1, <1>3, <1>5, <1>6 DEF SoloInv, Recomputed

LEMMA LinkBegins ==
    ASSUME NEW s \in Sessions, NEW r \in Reports, Link(s, r)
    PROVE  \E t : /\ Begin(s, t) /\ t.pc = "flushed" /\ t.was = -1
                  /\ t.sets = [Nothing EXCEPT ![r] = [linked |-> TRUE]]
                  /\ t.worst = Worst(Updated(t.sets))
<1> DEFINE S == [Nothing EXCEPT ![r] = [linked |-> TRUE]]
           t == [pc |-> "flushed", sets |-> S, was |-> -1, worst |-> Recomputed(S)]
<1>1. Begin(s, t)
  BY DEF Link
<1>2. t.pc = "flushed" /\ t.was = -1 /\ t.sets = S /\ t.worst = Worst(Updated(t.sets))
  BY DEF Recomputed
<1> QED BY <1>1, <1>2

LEMMA SoloInit == Init => SoloInv
  BY RowsInit DEF Init, SoloInv

LEMMA SoloStep == SoloInv /\ [Next]_vars => SoloInv'
<1> SUFFICES ASSUME SoloInv, [Next]_vars PROVE SoloInv'
  OBVIOUS
<1>0. RowsInv'
  BY RowsStep DEF SoloInv
<1>1. CASE UNCHANGED vars
  <2>1. Column' = Column
    BY <1>1 DEF vars, Column
  <2>2. \A s \in Sessions : Updated(txn[s].sets)' = Updated(txn[s].sets)
    BY <1>1, <2>1 DEF vars, Updated
  <2>3. \A s \in Sessions : Worst(Updated(txn[s].sets))' = Worst(Updated(txn[s].sets))
    BY <2>2 DEF Worst, Counts
  <2> QED BY <1>0, <1>1, <2>3 DEF vars, SoloInv, Open, RowsInv, TypeOK
<1>2. ASSUME NEW s \in Sessions, Write(s) PROVE SoloInv'
  BY <1>0, <1>2, EndSolo DEF Write, SoloInv
<1>3. ASSUME NEW s \in Sessions, Flush(s) PROVE SoloInv'
  BY <1>0, <1>3, FlushSolo DEF SoloInv
<1>4. ASSUME NEW s \in Sessions, Commit(s) PROVE SoloInv'
  BY <1>0, <1>4, EndSolo DEF Commit, SoloInv
<1>5. ASSUME NEW s \in Sessions, NEW r \in Reports, Link(s, r) PROVE SoloInv'
  <2>1. PICK t : /\ Begin(s, t) /\ t.pc = "flushed" /\ t.was = -1
                 /\ t.worst = Worst(Updated(t.sets))
    BY <1>5, LinkBegins
  <2> QED BY <1>0, <2>1, BeginSolo DEF SoloInv
<1>6. ASSUME NEW s \in Sessions, NEW r \in Reports,
             \/ \E st \in {"verified", "rejected", "duplicate"} : Transition(s, r, st)
             \/ \E primary \in Reports : Merge(s, r, primary)
             \/ ConfirmMerge(s, r) \/ RejectMerge(s, r)
             \/ \E primary \in Reports, merge \in BOOLEAN : Score(s, r, primary, merge)
      PROVE  SoloInv'
  <2>1. PICK S : Sound(S) /\ \E pc \in {"loaded", "recompute"} : Load(s, pc, S)
    BY <1>6, Loads DEF SoloInv
  <2>2. PICK pc \in {"loaded", "recompute"} : Load(s, pc, S)
    BY <2>1
  <2> DEFINE t == [pc |-> pc, sets |-> S, was |-> 0, worst |-> 0]
  <2>3. Begin(s, t) /\ t.pc = pc
    BY <2>2 DEF Load
  <2> HIDE DEF t
  <2> QED BY <1>0, <2>3, BeginSolo DEF SoloInv
<1> QED BY <1>1, <1>2, <1>3, <1>4, <1>5, <1>6 DEF Next

LEMMA CommitSolo ==
    ASSUME SoloInv, NEW s \in solo, Commit(s) PROVE severity' = Worst(row')
  BY DEF SoloInv, RowsInv, TypeOK, Commit

LEMMA SoloSafe ==
    ASSUME SoloInv, [Next]_vars
    PROVE  \A s \in Sessions : txn[s].pc = "flushed" /\ txn'[s].pc = "idle" /\ s \in solo
                => severity' = Worst(row')
<1> SUFFICES ASSUME NEW s \in Sessions, txn[s].pc = "flushed", txn'[s].pc = "idle", s \in solo
             PROVE  severity' = Worst(row')
  OBVIOUS
<1>1. CASE UNCHANGED vars
  BY <1>1 DEF vars
<1>2. ASSUME NEW q \in Sessions, NEW t, t.pc # "idle", Begin(q, t) PROVE FALSE
  BY <1>2 DEF Begin, SoloInv, RowsInv
<1>3. ASSUME NEW q \in Sessions, Write(q) PROVE FALSE
  <2>1. q # s
    BY <1>3 DEF Write
  <2> QED BY <1>3, <2>1 DEF Write, End, SoloInv, RowsInv
<1>4. ASSUME NEW q \in Sessions, Flush(q) PROVE FALSE
  <2>1. q # s
    BY <1>4 DEF Flush
  <2> QED BY <1>4, <2>1 DEF Flush, SoloInv, RowsInv
<1>5. ASSUME NEW q \in Sessions, Commit(q) PROVE severity' = Worst(row')
  <2>1. CASE q = s
    BY <1>5, <2>1, CommitSolo
  <2>2. CASE q # s
    BY <1>5, <2>2 DEF Commit, End, SoloInv, RowsInv
  <2> QED BY <2>1, <2>2
<1>6. ASSUME NEW q \in Sessions, NEW r \in Reports, Link(q, r) PROVE FALSE
  BY <1>2, <1>6, LinkBegins
<1>7. ASSUME NEW q \in Sessions, NEW r \in Reports,
             \/ \E st \in {"verified", "rejected", "duplicate"} : Transition(q, r, st)
             \/ \E primary \in Reports : Merge(q, r, primary)
             \/ ConfirmMerge(q, r) \/ RejectMerge(q, r)
             \/ \E primary \in Reports, merge \in BOOLEAN : Score(q, r, primary, merge)
      PROVE  FALSE
  <2>1. PICK S : Sound(S) /\ \E pc \in {"loaded", "recompute"} : Load(q, pc, S)
    BY <1>7, Loads DEF SoloInv
  <2>2. PICK pc \in {"loaded", "recompute"} : Load(q, pc, S)
    BY <2>1
  <2> DEFINE t == [pc |-> pc, sets |-> S, was |-> 0, worst |-> 0]
  <2>3. Begin(q, t) /\ t.pc = pc
    BY <2>2 DEF Load
  <2> HIDE DEF t
  <2> QED BY <1>2, <2>3
<1> QED BY <1>1, <1>3, <1>4, <1>5, <1>6, <1>7 DEF Next

\* A transition or a building match that no other transaction overlapped leaves the
\* building at the worst damage of its reports (analyst_service.py:677).
THEOREM SoloRecomputes == Spec => SoloRecompute
<1>1. Spec => []SoloInv
  BY SoloInit, SoloStep, PTL DEF Spec
<1>2. SoloInv /\ [Next]_vars =>
        [\A s \in Sessions :
            txn[s].pc = "flushed" /\ txn'[s].pc = "idle" /\ s \in solo
            => severity' = Worst(row')]_vars
  BY SoloSafe
<1> QED BY <1>1, <1>2, PTL DEF Spec, SoloRecompute

-----------------------------------------------------------------------------
(* One transaction at a time.                                              *)

\* Where decisions can have taken the tier of a report whose reporter came with f.
Near(rw, f) ==
    /\ rw.status \in {"pending", "pending_merge_review"} => rw.tier = f
    /\ rw.status = "verified" => rw.tier \in {f, f + 1}
    /\ rw.status = "rejected" => rw.tier \in {f - 1, f}
    /\ rw.tier \in (f - 1)..(f + 1)

AllNear(rows) == \A r \in Reports : Near(rows[r], first[r])

SerialInv ==
    /\ SoloInv
    /\ first \in [Reports -> 0..world.top]
    /\ Serial =>
        /\ Open = solo
        /\ AllNear(row)
        /\ Open = {} => severity <= Worst(row)
        /\ \A s \in Open :
            /\ AllNear(Updated(txn[s].sets))
            /\ txn[s].pc = "loaded" => severity <= Worst(Updated(txn[s].sets))

\* What a handler may decide about a row when no other transaction is open.
Decides(r, new) ==
    /\ Near(new, first[r])
    /\ Counts(row[r]) => Counts(new) /\ new.damage = row[r].damage

LEMMA TransitionNear ==
    ASSUME world.top \in 0..2, NEW st \in {"verified", "rejected", "duplicate"},
           NEW f \in 0..world.top, NEW rw \in Row, Near(rw, f), rw.status \in Sources(st)
    PROVE  Near([rw EXCEPT !.status = st, !.tier = TierAfter(rw.tier, st)], f)
<1> DEFINE new == [rw EXCEPT !.status = st, !.tier = TierAfter(rw.tier, st)]
<1>1. new.status = st /\ new.tier = TierAfter(rw.tier, st) /\ rw.tier \in 0..world.top
  BY DEF Row
<1> HIDE DEF new
<1>2. CASE st = "verified"
  <2>1. rw.status \in {"pending", "rejected"}
    BY <1>2 DEF Sources
  <2>2. new.tier = IF rw.tier = world.top THEN rw.tier ELSE rw.tier + 1
    BY <1>1, <1>2 DEF TierAfter
  <2> QED BY <1>1, <1>2, <2>1, <2>2 DEF Near
<1>3. CASE st = "rejected"
  <2>1. rw.status \in {"pending", "verified"}
    BY <1>3 DEF Sources
  <2>2. new.tier = IF rw.tier = 0 THEN 0 ELSE rw.tier - 1
    BY <1>1, <1>3 DEF TierAfter
  <2> QED BY <1>1, <1>3, <2>1, <2>2 DEF Near
<1>4. CASE st = "duplicate"
  BY <1>1, <1>4 DEF Near, Sources, TierAfter
<1> QED BY <1>2, <1>3, <1>4 DEF new

\* A row after its UPDATE has the new values in the columns that are named.
LEMMA UpdatedColumns ==
    ASSUME NEW S, NEW r \in Reports
    PROVE  \A c \in Columns :
               Updated(S)[r][c] = IF c \in DOMAIN S[r] THEN S[r][c] ELSE row[r][c]
  BY ColumnNames DEF Updated

LEMMA UpdatedWanted ==
    ASSUME row \in [Reports -> Row], NEW r \in Reports, NEW want \in Row, NEW S,
           S[r] = Changes(r, want)
    PROVE  \A c \in Columns : Updated(S)[r][c] = want[c]
<1>1. \A c \in Columns :
          Updated(S)[r][c] = IF c \in DOMAIN S[r] THEN S[r][c] ELSE row[r][c]
  BY UpdatedColumns
<1>2. /\ DOMAIN Changes(r, want) = {c \in Columns : want[c] # row[r][c]}
      /\ \A c \in DOMAIN Changes(r, want) : Changes(r, want)[c] = want[c]
  BY ChangesFields
<1> QED BY <1>1, <1>2

LEMMA UpdatedUntouched ==
    ASSUME NEW r \in Reports, NEW S, S[r] = <<>>
    PROVE  \A c \in Columns : Updated(S)[r][c] = row[r][c]
<1>1. DOMAIN <<>> = {}
  OBVIOUS
<1> QED BY <1>1, UpdatedColumns

\* Near and Decides look at four columns.
LEMMA FourColumns ==
    ASSUME NEW r \in Reports, NEW old, NEW new, Decides(r, old),
           \A c \in Columns : new[c] = old[c]
    PROVE  Decides(r, new)
<1>1. new.status = old.status /\ new.tier = old.tier /\ new.damage = old.damage
      /\ new.linked = old.linked
  BY DEF Columns
<1> QED BY <1>1 DEF Decides, Near, Counts

LEMMA DecidedRows ==
    ASSUME RowsInv, NEW S, Sound(S), \A r \in Reports : Decides(r, Updated(S)[r])
    PROVE  AllNear(Updated(S)) /\ Worst(row) <= Worst(Updated(S))
<1>1. row \in [Reports -> Row] /\ Updated(S) \in [Reports -> Row]
  BY SoundSets, UpdatedRows DEF RowsInv, TypeOK
<1>2. AllNear(Updated(S))
  BY DEF AllNear, Decides
<1>3. Worst(row) \in 0..3 /\ Worst(Updated(S)) \in 0..3
  BY <1>1, WorstOfRows
<1>4. CASE Worst(row) # 0
  <2>1. PICK r \in Reports : Counts(row[r]) /\ row[r].damage = Worst(row)
    BY <1>1, <1>4, WorstOfRows
  <2>2. Counts(Updated(S)[r]) /\ Updated(S)[r].damage = Worst(row)
    BY <2>1 DEF Decides
  <2> QED BY <1>1, <1>2, <2>2, WorstOfRows
<1> QED BY <1>2, <1>3, <1>4

\* What a transaction that only loads and decides is going to leave, if it is alone.
LeavesRows(s) ==
    \E S : /\ Sound(S) /\ AllNear(Updated(S))
           /\ \/ Load(s, "recompute", S)
              \/ Load(s, "loaded", S) /\ Worst(row) <= Worst(Updated(S))

LEMMA KeepsOthers ==
    ASSUME RowsInv, AllNear(row), NEW r \in Reports, NEW S, S[r] = <<>>
    PROVE  Decides(r, Updated(S)[r])
<1>1. Decides(r, row[r])
  BY DEF AllNear, Decides
<1> QED BY <1>1, UpdatedUntouched, FourColumns

LEMMA ChangesDecides ==
    ASSUME RowsInv, NEW r \in Reports, NEW want \in Row, Decides(r, want), NEW S,
           S[r] = Changes(r, want)
    PROVE  Decides(r, Updated(S)[r])
  BY UpdatedWanted, FourColumns DEF RowsInv, TypeOK

LEMMA TransitionLeaves ==
    ASSUME RowsInv, AllNear(row), first \in [Reports -> 0..world.top], NEW s \in Sessions,
           NEW r \in Reports, NEW st \in {"verified", "rejected", "duplicate"},
           Transition(s, r, st)
    PROVE  LeavesRows(s)
<1> DEFINE want == Transitioned(r, st)
           S == [Nothing EXCEPT ![r] = Changes(r, want)]
<1>1. row[r] \in Row /\ world.top \in 0..2 /\ row[r].status \in Sources(st)
  BY TopTier DEF RowsInv, TypeOK, Transition
<1>2. Near(want, first[r])
  BY <1>1, TransitionNear DEF AllNear, Transitioned
<1>3. TierAfter(row[r].tier, st) \in 0..world.top
  BY <1>1 DEF TierAfter, Row
<1>4. want \in Row /\ want.status = st /\ want.linked = row[r].linked /\ want.damage = row[r].damage
  BY <1>1, <1>3 DEF Row, Status, Transitioned
<1>5. Sound(S)
  BY <1>1, TransitionSound DEF RowsInv, TypeOK
<1>6. Load(s, IF row[r].linked THEN "recompute" ELSE "loaded", S)
  BY DEF Transition, Transitioned
<1>7. S[r] = Changes(r, want) /\ \A q \in Reports \ {r} : S[q] = <<>>
  BY NothingSound
<1> HIDE DEF want, S
<1>8. \A q \in Reports \ {r} : Decides(q, Updated(S)[q])
  BY <1>7, KeepsOthers
<1>9. CASE row[r].linked
  <2>1. \A c \in Columns : Updated(S)[r][c] = want[c]
    BY <1>4, <1>7, UpdatedWanted DEF RowsInv, TypeOK
  <2>2. Updated(S)[r].status = want.status /\ Updated(S)[r].tier = want.tier
    BY <2>1 DEF Columns
  <2>3. Near(Updated(S)[r], first[r])
    BY <1>2, <2>2 DEF Near
  <2>4. AllNear(Updated(S))
    BY <1>8, <2>3 DEF AllNear, Decides
  <2> QED BY <1>5, <1>6, <1>9, <2>4 DEF LeavesRows
<1>10. CASE ~row[r].linked
  <2>1. Decides(r, want)
    BY <1>2, <1>10 DEF Decides, Counts
  <2>2. \A q \in Reports : Decides(q, Updated(S)[q])
    BY <1>4, <1>7, <1>8, <2>1, ChangesDecides
  <2> QED BY <1>5, <1>6, <1>10, <2>2, DecidedRows DEF LeavesRows
<1> QED BY <1>9, <1>10

LEMMA MergedLeaves ==
    ASSUME RowsInv, AllNear(row), NEW s \in Sessions, NEW r \in Reports, NEW primary \in Reports,
           NEW want \in Row, want.possible \in {row[r].possible, NoReport},
           want.possible = row[r].possible \/ row[r].status # "duplicate",
           want.tier = row[r].tier, want.linked = row[r].linked, want.damage = row[r].damage,
           Load(s, "loaded", MergedInto(r, primary, want))
    PROVE  LeavesRows(s)
<1> DEFINE w == [want EXCEPT !.status = "duplicate", !.dupOf = primary]
           S == MergedInto(r, primary, want)
           g == [photo |-> row[r].photo]
<1>1. /\ w \in Row /\ w.status = "duplicate" /\ w.tier = row[r].tier
      /\ w.linked = row[r].linked /\ w.damage = row[r].damage
  BY DEF Row, Status, Ids
<1>2. Sound(S)
  BY MergedSound DEF RowsInv, TypeOK
<1>3. S[r] = Changes(r, w) /\ \A q \in Reports \ {r} : S[q] \in {g, <<>>}
  BY DEF MergedInto
<1>4. DOMAIN g = {"photo"}
  OBVIOUS
<1> HIDE DEF w, S, g
<1>5. Decides(r, w)
  BY <1>1 DEF Decides, AllNear, Near, Counts
<1>6. Decides(r, Updated(S)[r])
  BY <1>1, <1>3, <1>5, ChangesDecides
<1>7. ASSUME NEW q \in Reports \ {r} PROVE Decides(q, Updated(S)[q])
  <2>1. CASE S[q] = <<>>
    BY <2>1, KeepsOthers
  <2>2. CASE S[q] = g
    <3>1. \A c \in Columns \ {"photo"} : Updated(S)[q][c] = row[q][c]
      BY <1>4, <2>2, UpdatedColumns
    <3>2. Decides(q, row[q])
      BY DEF AllNear, Decides
    <3> QED BY <3>1, <3>2 DEF Decides, Near, Counts, Columns
  <2> QED BY <1>3, <2>1, <2>2
<1>8. AllNear(Updated(S)) /\ Worst(row) <= Worst(Updated(S))
  BY <1>2, <1>6, <1>7, DecidedRows
<1> QED BY <1>2, <1>8 DEF LeavesRows, S

LEMMA UnholdLeaves ==
    ASSUME RowsInv, AllNear(row), NEW s \in Sessions, NEW r \in Reports, RejectMerge(s, r)
    PROVE  LeavesRows(s)
<1> DEFINE want == [row[r] EXCEPT !.status = "pending", !.possible = NoReport]
           S == [Nothing EXCEPT ![r] = Changes(r, want)]
<1>1. row[r] \in Row /\ row[r].status = "pending_merge_review" /\ Load(s, "loaded", S)
  BY DEF RejectMerge, RowsInv, TypeOK
<1>2. /\ want \in Row /\ want.status = "pending" /\ want.tier = row[r].tier
      /\ want.linked = row[r].linked /\ want.damage = row[r].damage
      /\ want["possible"] = NoReport /\ want["status"] = "pending"
  BY <1>1 DEF Row, Status, Ids
<1>3. S[r] = Changes(r, want) /\ \A q \in Reports \ {r} : S[q] = <<>>
  BY NothingSound
<1> HIDE DEF want
<1>4. Sound(S)
  BY <1>1, <1>2, UnheldPrimary, ChangesFields, OneSound DEF RowsInv, TypeOK
<1> HIDE DEF S
<1>5. Decides(r, want)
  BY <1>1, <1>2 DEF Decides, AllNear, Near, Counts
<1>6. \A q \in Reports : Decides(q, Updated(S)[q])
  BY <1>2, <1>3, <1>5, ChangesDecides, KeepsOthers
<1> QED BY <1>1, <1>4, <1>6, DecidedRows DEF LeavesRows

LEMMA ScoreLeaves ==
    ASSUME RowsInv, AllNear(row), NEW s \in Sessions, NEW r \in Reports, NEW primary \in Reports,
           NEW merge \in BOOLEAN, Score(s, r, primary, merge)
    PROVE  LeavesRows(s)
<1> DEFINE f == IF merge THEN [possible |-> primary, status |-> "pending_merge_review"]
                         ELSE [possible |-> primary]
           S == [Nothing EXCEPT ![r] = f]
<1>1. row[r].status = "pending" /\ primary # r /\ primary # NoReport /\ Load(s, "loaded", S)
  BY ReviewAssumption DEF Score, Candidates
<1>2. Fields(f) /\ Primary(r, f)
  BY <1>1 DEF Fields, Primary, Columns, Column, Status, Ids
<1>3. /\ DOMAIN f \subseteq {"possible", "status"}
      /\ "status" \in DOMAIN f => f["status"] = "pending_merge_review"
  OBVIOUS
<1> HIDE DEF f
<1>4. Sound(S)
  BY <1>2, OneSound
<1>5. S[r] = f /\ \A q \in Reports \ {r} : S[q] = <<>>
  BY NothingSound
<1> HIDE DEF S
<1>6. /\ Updated(S)[r].status \in {"pending", "pending_merge_review"}
      /\ Updated(S)[r].tier = row[r].tier /\ Updated(S)[r].linked = row[r].linked
      /\ Updated(S)[r].damage = row[r].damage
  BY <1>1, <1>3, <1>5, UpdatedColumns DEF Columns
<1>7. Decides(r, Updated(S)[r])
  BY <1>1, <1>6 DEF Decides, AllNear, Near, Counts
<1>8. \A q \in Reports : Decides(q, Updated(S)[q])
  BY <1>5, <1>7, KeepsOthers
<1> QED BY <1>1, <1>4, <1>8, DecidedRows DEF LeavesRows

LEMMA DecisionLeaves ==
    ASSUME RowsInv, AllNear(row), first \in [Reports -> 0..world.top],
           NEW s \in Sessions, NEW r \in Reports,
           \/ \E st \in {"verified", "rejected", "duplicate"} : Transition(s, r, st)
           \/ \E primary \in Reports : Merge(s, r, primary)
           \/ ConfirmMerge(s, r) \/ RejectMerge(s, r)
           \/ \E primary \in Reports, merge \in BOOLEAN : Score(s, r, primary, merge)
    PROVE  LeavesRows(s)
<1>1. ASSUME NEW st \in {"verified", "rejected", "duplicate"}, Transition(s, r, st)
      PROVE  LeavesRows(s)
  BY <1>1, TransitionLeaves
<1>2. ASSUME NEW primary \in Reports, Merge(s, r, primary) PROVE LeavesRows(s)
  BY <1>2, MergedLeaves DEF Merge, RowsInv, TypeOK
<1>3. ASSUME ConfirmMerge(s, r) PROVE LeavesRows(s)
  <2> DEFINE want == [row[r] EXCEPT !.possible = NoReport]
  <2>1. row[r].possible \in Reports /\ row[r].status = "pending_merge_review" /\ row[r] \in Row
    BY <1>3 DEF ConfirmMerge, RowsInv, TypeOK, ReviewHasPrimary
  <2>2. /\ want \in Row /\ want.possible = NoReport /\ want.tier = row[r].tier
        /\ want.linked = row[r].linked /\ want.damage = row[r].damage
    BY <2>1 DEF Row, Ids
  <2>3. Load(s, "loaded", MergedInto(r, row[r].possible, want))
    BY <1>3 DEF ConfirmMerge
  <2> HIDE DEF want
  <2> QED BY <2>1, <2>2, <2>3, MergedLeaves
<1>4. ASSUME RejectMerge(s, r) PROVE LeavesRows(s)
  BY <1>4, UnholdLeaves
<1>5. ASSUME NEW primary \in Reports, NEW merge \in BOOLEAN, Score(s, r, primary, merge)
      PROVE  LeavesRows(s)
  BY <1>5, ScoreLeaves
<1> QED BY <1>1, <1>2, <1>3, <1>4, <1>5

LEMMA LinkNear ==
    ASSUME RowsInv, AllNear(row), NEW r \in Reports
    PROVE  AllNear(Updated([Nothing EXCEPT ![r] = [linked |-> TRUE]]))
<1> DEFINE f == [linked |-> TRUE]
           S == [Nothing EXCEPT ![r] = f]
<1>1. DOMAIN f = {"linked"} /\ S[r] = f /\ \A q \in Reports \ {r} : S[q] = <<>>
  BY NothingSound
<1> HIDE DEF f, S
<1>2. Updated(S)[r].status = row[r].status /\ Updated(S)[r].tier = row[r].tier
  BY <1>1, UpdatedColumns DEF Columns
<1>3. \A q \in Reports \ {r} : Decides(q, Updated(S)[q])
  BY <1>1, KeepsOthers
<1>4. AllNear(Updated(S))
  BY <1>2, <1>3 DEF AllNear, Near, Decides
<1> QED BY <1>4 DEF S, f

\* With one transaction at a time one begins when no other is open.
LEMMA BeginAlone ==
    ASSUME SerialInv, Serial, NEW s \in Sessions, NEW t, Begin(s, t)
    PROVE  Open = {} /\ AllNear(row) /\ severity <= Worst(row)
<1>1. IsFiniteSet(Open)
  BY ReviewAssumption, FS_Subset DEF Open
<1>2. Cardinality(Open) \in Nat /\ Cardinality(Open) < 1
  BY <1>1, FS_CardinalityType DEF Begin, Serial
<1>3. Open = {}
  BY <1>1, <1>2, FS_EmptySet
<1> QED BY <1>3 DEF SerialInv

\* Such a transaction is the only one that is open.
LEMMA BeginSerial ==
    ASSUME SerialInv, SoloInv', NEW s \in Sessions, NEW t, Begin(s, t), t.pc # "idle",
           t.pc = "flushed" => t.worst = Worst(Updated(t.sets)) /\ t.was = -1,
           Serial => AllNear(Updated(t.sets)),
           Serial /\ t.pc = "loaded" => Worst(row) <= Worst(Updated(t.sets)),
           Sound(t.sets)
    PROVE  SerialInv'
<1>1. /\ txn' = [txn EXCEPT ![s] = t] /\ UNCHANGED <<world, row, severity, first>>
  BY DEF Begin
<1>2. first' \in [Reports -> 0..world'.top] /\ (Serial' <=> Serial)
  BY <1>1 DEF SerialInv, Serial
<1>3. txn'[s] = t
  BY <1>1 DEF SerialInv, SoloInv, RowsInv
<1>4. Updated(txn[s].sets)' = Updated(t.sets)
  <2>1. Column' = Column
    BY <1>1 DEF Column
  <2> QED BY <1>1, <1>3, <2>1 DEF Updated
<1>5. Worst(Updated(txn[s].sets))' = Worst(Updated(t.sets))
  BY <1>4 DEF Worst, Counts
<1>6. ASSUME Serial
      PROVE  /\ Open' = solo' /\ AllNear(row)' /\ Open' = {s}
             /\ AllNear(Updated(txn[s].sets))'
             /\ txn'[s].pc = "loaded" => severity' <= Worst(Updated(txn[s].sets))'
  <2>1. Open = {} /\ AllNear(row) /\ severity <= Worst(row)
    BY <1>6, BeginAlone
  <2>2. Open' = {s} /\ solo' = {s}
    BY <2>1, BeginSolo DEF SerialInv
  <2>3. AllNear(row)'
    BY <1>1, <2>1 DEF AllNear, Near
  <2>4. AllNear(Updated(txn[s].sets))'
    BY <1>1, <1>4, <1>6 DEF AllNear, Near
  <2>5. ASSUME t.pc = "loaded" PROVE severity <= Worst(Updated(t.sets))
    <3>1. Worst(row) \in 0..3 /\ Worst(Updated(t.sets)) \in 0..3 /\ severity \in 0..3
      BY WorstOfRows, UpdatedRows, SoundSets DEF SerialInv, SoloInv, RowsInv, TypeOK
    <3> QED BY <1>6, <2>1, <2>5, <3>1
  <2> QED BY <1>1, <1>3, <1>5, <2>2, <2>3, <2>4, <2>5
<1> QED BY <1>2, <1>6 DEF SerialInv

LEMMA SerialInit == Init => SerialInv
<1> SUFFICES ASSUME Init PROVE SerialInv
  OBVIOUS
<1>1. SoloInv /\ row \in [Reports -> Row]
  BY SoloInit DEF SoloInv, RowsInv, TypeOK
<1>2. Open = {} /\ solo = {} /\ severity = 0
  BY DEF Init, Open, Idle
<1>3. first = [r \in Reports |-> row[r].tier] /\ \A r \in Reports : row[r].status = "pending"
  BY DEF Init
<1>4. first \in [Reports -> 0..world.top]
  BY <1>1, <1>3 DEF Row
<1>5. AllNear(row)
  <2>1. \A r \in Reports : row[r].tier \in 0..world.top /\ first[r] = row[r].tier
    BY <1>1, <1>3 DEF Row
  <2>2. world.top \in 0..2
    BY <1>1, TopTier DEF SoloInv, RowsInv, TypeOK
  <2> QED BY <1>3, <2>1, <2>2 DEF AllNear, Near
<1>6. Worst(row) \in 0..3
  BY <1>1, WorstOfRows
<1> QED BY <1>1, <1>2, <1>4, <1>5, <1>6 DEF SerialInv

LEMMA EndSerial ==
    ASSUME SerialInv, SoloInv', NEW s \in Sessions, txn[s].pc # "idle", End(s),
           row' = Updated(txn[s].sets),
           Serial => severity' <= Worst(row')
    PROVE  SerialInv'
<1>1. UNCHANGED <<world, first>>
  BY DEF End
<1>2. first' \in [Reports -> 0..world'.top] /\ (Serial' <=> Serial)
  BY <1>1 DEF SerialInv, Serial
<1>3. ASSUME Serial
      PROVE  Open' = {} /\ solo' = {} /\ AllNear(row)' /\ severity' <= Worst(row)'
  <2>1. Open' = Open \ {s} /\ solo' = {} /\ solo \subseteq {s}
    BY EndSolo DEF SerialInv
  <2>2. s \in Open /\ Open = solo
    BY <1>3 DEF Open, SerialInv
  <2>3. AllNear(Updated(txn[s].sets))
    BY <1>3, <2>2 DEF SerialInv
  <2>4. AllNear(row)'
    BY <1>1, <2>3 DEF AllNear, Near
  <2>5. Worst(row)' = Worst(row')
    BY DEF Worst, Counts
  <2> QED BY <1>3, <2>1, <2>2, <2>4, <2>5
<1> QED BY <1>2, <1>3 DEF SerialInv

LEMMA FlushSerial ==
    ASSUME SerialInv, SoloInv', NEW s \in Sessions, Flush(s) PROVE SerialInv'
<1> DEFINE t == [pc |-> "flushed", sets |-> txn[s].sets,
                 was |-> severity, worst |-> Recomputed(txn[s].sets)]
<1>1. txn' = [txn EXCEPT ![s] = t] /\ UNCHANGED <<world, row, severity, solo, first>>
  BY DEF Flush
<1>2. txn'[s].pc = "flushed" /\ txn'[s].sets = txn[s].sets
  BY <1>1 DEF SerialInv, SoloInv, RowsInv
<1>3. first' \in [Reports -> 0..world'.top] /\ (Serial' <=> Serial)
  BY <1>1 DEF SerialInv, Serial
<1>4. Open' = Open /\ s \in Open
  BY FlushSolo DEF SerialInv, Flush, Open
<1>5. Updated(txn[s].sets)' = Updated(txn[s].sets)
  <2>1. Column' = Column
    BY <1>1 DEF Column
  <2> QED BY <1>1, <1>2, <2>1 DEF Updated
<1>6. ASSUME Serial
      PROVE  Open' = solo' /\ AllNear(row)' /\ Open' = {s} /\ AllNear(Updated(txn[s].sets))'
  <2>1. Open = solo /\ Open = {s} /\ AllNear(row) /\ AllNear(Updated(txn[s].sets))
    BY <1>4, <1>6 DEF SerialInv, SoloInv
  <2> QED BY <1>1, <1>4, <1>5, <2>1 DEF AllNear, Near
<1> QED BY <1>2, <1>3, <1>6 DEF SerialInv

LEMMA SerialStep == SerialInv /\ [Next]_vars => SerialInv'
<1> SUFFICES ASSUME SerialInv, [Next]_vars PROVE SerialInv'
  OBVIOUS
<1>0. SoloInv' /\ SoloInv /\ RowsInv
  BY SoloStep DEF SerialInv, SoloInv
<1>1. CASE UNCHANGED vars
  <2>1. Column' = Column
    BY <1>1 DEF vars, Column
  <2>2. \A s \in Sessions : Updated(txn[s].sets)' = Updated(txn[s].sets)
    BY <1>1, <2>1 DEF vars, Updated
  <2>3. \A s \in Sessions : /\ Worst(Updated(txn[s].sets))' = Worst(Updated(txn[s].sets))
                            /\ AllNear(Updated(txn[s].sets))' <=> AllNear(Updated(txn[s].sets))
    BY <1>1, <2>2 DEF vars, Worst, Counts, AllNear, Near
  <2>4. Worst(row)' = Worst(row) /\ (AllNear(row)' <=> AllNear(row)) /\ Open' = Open
    BY <1>1 DEF vars, Worst, Counts, AllNear, Near, Open
  <2>5. first' = first /\ world' = world /\ severity' = severity /\ solo' = solo /\ txn' = txn
    BY <1>1 DEF vars
  <2> QED BY <1>0, <2>3, <2>4, <2>5 DEF SerialInv, Serial, Open
<1>2. ASSUME NEW s \in Sessions, Write(s) PROVE SerialInv'
  <2>1. /\ txn[s].pc = "loaded" /\ s \in Open /\ End(s)
        /\ row' = Updated(txn[s].sets) /\ severity' = severity
    BY <1>2 DEF Write, Open
  <2>2. Serial => severity' <= Worst(row')
    BY <2>1 DEF SerialInv
  <2> QED BY <1>0, <2>1, <2>2, EndSerial
<1>3. ASSUME NEW s \in Sessions, Flush(s) PROVE SerialInv'
  BY <1>0, <1>3, FlushSerial
<1>4. ASSUME NEW s \in Sessions, Commit(s) PROVE SerialInv'
  <2>1. /\ txn[s].pc = "flushed" /\ s \in Open /\ End(s) /\ row' = Updated(txn[s].sets)
    BY <1>4 DEF Commit, Open
  <2>2. Serial => severity' = Worst(row')
    BY <1>0, <1>4, <2>1, CommitSolo DEF SerialInv
  <2>3. Worst(row') \in 0..3
    BY <1>0, <2>1, UpdatedRows, SoundSets, WorstOfRows DEF RowsInv, TypeOK
  <2> QED BY <1>0, <2>1, <2>2, <2>3, EndSerial
<1>5. ASSUME NEW s \in Sessions, NEW r \in Reports, Link(s, r) PROVE SerialInv'
  <2>1. PICK t : /\ Begin(s, t) /\ t.pc = "flushed" /\ t.was = -1
                 /\ t.sets = [Nothing EXCEPT ![r] = [linked |-> TRUE]]
                 /\ t.worst = Worst(Updated(t.sets))
    BY <1>5, LinkBegins
  <2>2. Sound(t.sets)
    BY <1>0, <2>1, LinkFit
  <2>3. Serial => AllNear(Updated(t.sets))
    BY <1>0, <2>1, BeginAlone, LinkNear
  <2> QED BY <1>0, <2>1, <2>2, <2>3, BeginSerial
<1>6. ASSUME NEW s \in Sessions, NEW r \in Reports,
             \/ \E st \in {"verified", "rejected", "duplicate"} : Transition(s, r, st)
             \/ \E primary \in Reports : Merge(s, r, primary)
             \/ ConfirmMerge(s, r) \/ RejectMerge(s, r)
             \/ \E primary \in Reports, merge \in BOOLEAN : Score(s, r, primary, merge)
      PROVE  SerialInv'
  <2>1. PICK S0 : Sound(S0) /\ \E pc \in {"loaded", "recompute"} : Load(s, pc, S0)
    BY <1>0, <1>6, Loads
  <2>2. PICK pc0 \in {"loaded", "recompute"} : Load(s, pc0, S0)
    BY <2>1
  <2>3. ASSUME Serial PROVE LeavesRows(s)
    <3>1. AllNear(row)
      BY <2>2, <2>3, BeginAlone DEF Load
    <3> QED BY <1>0, <1>6, <3>1, DecisionLeaves DEF SerialInv
  <2>4. \E S : \E pc \in {"loaded", "recompute"} :
            /\ Sound(S) /\ Load(s, pc, S)
            /\ Serial => AllNear(Updated(S))
            /\ Serial /\ pc = "loaded" => Worst(row) <= Worst(Updated(S))
    <3>1. CASE Serial
      BY <2>3, <3>1 DEF LeavesRows
    <3>2. CASE ~Serial
      BY <2>1, <2>2, <3>2
    <3> QED BY <3>1, <3>2
  <2>5. PICK S : \E pc \in {"loaded", "recompute"} :
            /\ Sound(S) /\ Load(s, pc, S)
            /\ Serial => AllNear(Updated(S))
            /\ Serial /\ pc = "loaded" => Worst(row) <= Worst(Updated(S))
    BY <2>4
  <2>6. PICK pc \in {"loaded", "recompute"} :
            /\ Sound(S) /\ Load(s, pc, S)
            /\ Serial => AllNear(Updated(S))
            /\ Serial /\ pc = "loaded" => Worst(row) <= Worst(Updated(S))
    BY <2>5
  <2> DEFINE t == [pc |-> pc, sets |-> S, was |-> 0, worst |-> 0]
  <2>7. Begin(s, t) /\ t.pc = pc /\ t.sets = S
    BY <2>6 DEF Load
  <2> HIDE DEF t
  <2> QED BY <1>0, <2>6, <2>7, BeginSerial
<1> QED BY <1>1, <1>2, <1>3, <1>4, <1>5, <1>6 DEF Next

\* One transaction at a time: when all reports of the building are rejected and no
\* transaction is open, it is back at none (analyst_service.py:680-685).
THEOREM RejectedNeverPin == Spec => []RejectedDoNotPin
<1>1. Spec => []SerialInv
  BY SerialInit, SerialStep, PTL DEF Spec
<1>2. SerialInv => RejectedDoNotPin
  <2> SUFFICES ASSUME SerialInv, Serial, Open = {},
                      \A r \in Reports : row[r].linked => row[r].status = "rejected"
               PROVE  severity = 0
    BY DEF RejectedDoNotPin
  <2>1. row \in [Reports -> Row] /\ severity \in 0..3 /\ severity <= Worst(row)
    BY DEF SerialInv, SoloInv, RowsInv, TypeOK
  <2>2. \A r \in Reports : ~Counts(row[r])
    BY DEF Counts
  <2>3. Worst(row) = 0
    BY <2>1, <2>2, WorstOfRows
  <2> QED BY <2>1, <2>3
<1> QED BY <1>1, <1>2, PTL

\* One transaction at a time: however often a report is verified, rejected and
\* merged, its tier stays within one of its reporter's (analyst_service.py:132-134).
THEOREM TierStaysNear == Spec => []TierMovesAtMostOne
<1>1. Spec => []SerialInv
  BY SerialInit, SerialStep, PTL DEF Spec
<1>2. SerialInv => TierMovesAtMostOne
  BY DEF SerialInv, TierMovesAtMostOne, AllNear, Near
<1> QED BY <1>1, <1>2, PTL

=============================================================================
