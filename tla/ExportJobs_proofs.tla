-------------------------- MODULE ExportJobs_proofs --------------------------
(***************************************************************************)
(* What ExportJobs keeps for any number of requests, task slots, reports,  *)
(* seconds and retries. Work says who still works on a job, Delivery that  *)
(* everything on its way out is audited and as it was asked for.           *)
(***************************************************************************)
EXTENDS ExportJobs, TLAPS

LEMMA Numbers == Life \in Nat \ {0} /\ MaxRetries \in Nat /\ MaxExtra \in Nat /\ NoAsk \notin Asks
  BY ExportAssumption

-----------------------------------------------------------------------------
(* The content.                                                            *)

LEMMA DictRoundTrip ==
    ASSUME NEW f \in ExportFilters PROVE FiltersFromDict(FiltersToDict(f)) = f
<1> DEFINE d == FiltersToDict(f)
           K == {"precision", "missingOnly"} \cup (IF f.status # {} THEN {"status"} ELSE {})
                    \cup (IF f.confidence # None THEN {"confidence"} ELSE {})
<1>1. d = [k \in K |-> f[k]]
  BY DEF FiltersToDict
<1>2. /\ DOMAIN d = K
      /\ \A k \in K : d[k] = f[k]
  BY <1>1
<1> HIDE DEF d
<1>3. Get(d, "status", {}) = f.status
  BY <1>2 DEF Get
<1>4. Get(d, "confidence", None) = f.confidence
  BY <1>2 DEF Get
<1>5. Get(d, "missingOnly", FALSE) = f.missingOnly /\ Get(d, "precision", "exact") = f.precision
  BY <1>2 DEF Get
<1>6. FiltersFromDict(d) = [status |-> f.status, confidence |-> f.confidence,
                            missingOnly |-> f.missingOnly, precision |-> f.precision]
  BY <1>3, <1>4, <1>5 DEF FiltersFromDict
<1> QED BY <1>6 DEF ExportFilters, d

\* What a record must be for a request with filters f.
AsAskedFor(f, rec) ==
    /\ f.status # {} => rec.status \in f.status
    /\ f.confidence # None => rec.confidence # None /\ rec.confidence >= f.confidence
    /\ f.missingOnly => rec.missing
    /\ f.precision # "exact" =>
           /\ rec.accuracy = None
           /\ rec.lat = None \/ rec.lat % Grain[f.precision] = 0

LEMMA CoordOnGrid ==
    ASSUME NEW x \in Int, NEW p \in Precisions
    PROVE  /\ Coord(x, p) \in Int
           /\ p # "exact" => Coord(x, p) = None \/ Coord(x, p) % Grain[p] = 0
<1>1. CASE p = "exact"
  BY <1>1 DEF Coord, Grain, None
<1>2. CASE p = "reduced"
  BY <1>2 DEF Coord, Grain, None
<1>3. CASE p = "coarse"
  BY <1>3 DEF Coord, Grain, None
<1> QED BY <1>1, <1>2, <1>3 DEF Precisions

LEMMA ContentAsAsked ==
    ASSUME NEW f \in ExportFilters, NEW t \in SUBSET ExportRecord
    PROVE  /\ Content(f, t) \in SUBSET ExportRecord
           /\ \A rec \in Content(f, t) : AsAskedFor(f, rec)
<1> SUFFICES ASSUME NEW r \in Selected(f, t)
             PROVE  /\ Anonymise(r, f.precision) \in ExportRecord
                    /\ AsAskedFor(f, Anonymise(r, f.precision))
  BY DEF Content
<1> DEFINE rec == Anonymise(r, f.precision)
<1>1. r \in ExportRecord /\ f.precision \in Precisions
  BY DEF Selected, ExportFilters
<1>2. Coord(r.lat, f.precision) \in Int
      /\ (f.precision # "exact" => \/ Coord(r.lat, f.precision) = None
                                  \/ Coord(r.lat, f.precision) % Grain[f.precision] = 0)
  BY <1>1, CoordOnGrid DEF ExportRecord
<1>3. /\ rec.status = r.status /\ rec.confidence = r.confidence /\ rec.missing = r.missing
      /\ rec.lat = Coord(r.lat, f.precision)
      /\ rec.accuracy = IF f.precision = "exact" THEN r.accuracy ELSE None
  BY DEF Anonymise
<1>4. rec \in ExportRecord
  BY <1>1, <1>2 DEF ExportRecord, Anonymise, None
<1> HIDE DEF rec
<1>5. AsAskedFor(f, rec)
  BY <1>2, <1>3 DEF Selected, AsAskedFor
<1> QED BY <1>4, <1>5 DEF rec

LEMMA RecordsAreNoFile == ASSUME NEW c \in SUBSET ExportRecord PROVE c # NoFile
<1> DEFINE none == [id |-> None]
<1>1. DOMAIN none = {"id"}
  OBVIOUS
<1> HIDE DEF none
<1>2. ASSUME none \in ExportRecord PROVE FALSE
  <2>1. "status" \in DOMAIN none
    BY <1>2 DEF ExportRecord
  <2> QED BY <1>1, <2>1
<1> QED BY <1>2 DEF NoFile, none

-----------------------------------------------------------------------------
(* The invariant.                                                          *)

AskT  == [pc : {"idle", "small", "large", "written", "recorded", "answered", "accepted",
                "error"},
          filters : Filters, content : Contents]
TaskT == [pc : {"free", "queued", "exported", "uploaded", "update", "givesup", "fail"},
          job : Asks \cup {NoAsk}, tries : 0..MaxRetries,
          content : Contents, link : 0..Life, seen : Records]

Sane(f, c) == c # NoFile /\ \A rec \in c : AsAskedFor(f, rec)

\* A content that may leave the service for request a with filters f.
Good(log, f, a, c) == Sane(f, c) /\ AuditRow(a, c) \in log

Linked ==
    /\ \A a \in Asks : record[a].ttl >= record[a].link
    /\ \A a \in Asks : record[a].link > 0 => file[a] # NoFile
    /\ \A s \in Slots : \A a \in Asks :
        tasks[s].job = a /\ (tasks[s].link > 0 \/ tasks[s].seen.link > 0) => file[a] # NoFile

Work ==
    /\ \A s \in Slots : tasks[s].pc \in {"givesup", "fail"} => tasks[s].job \in abandoned
    /\ \A s \in Slots : \A a \in Asks : tasks[s].job = a => asks[a].pc = "accepted"
    /\ ProcessingIsWorkedOn

Delivery ==
    /\ \A a \in Asks : file[a] # NoFile =>
        asks[a].pc = "accepted" /\ Good(audit, asks[a].filters, a, file[a])
    /\ \A s \in Slots : \A a \in Asks :
        tasks[s].job = a /\ tasks[s].pc = "exported" =>
            Good(audit, asks[a].filters, a, tasks[s].content)
    /\ \A a \in Asks : asks[a].pc = "written" => Sane(asks[a].filters, asks[a].content)
    /\ \A a \in Asks : asks[a].pc = "answered" =>
        Good(audit, asks[a].filters, a, asks[a].content)

ExportInv == TypeOK /\ Linked /\ Work /\ Delivery

LEMMA Types ==
    TypeOK <=>
        /\ table \subseteq Reports /\ asks \in [Asks -> AskT] /\ record \in [Asks -> Records]
        /\ tasks \in [Slots -> TaskT] /\ \A s \in Slots : tasks[s].job = NoAsk <=> tasks[s].pc = "free"
        /\ file \in [Asks -> Contents] /\ \A entry \in audit : entry[1] \in Asks
        /\ abandoned \subseteq Asks /\ extra \in 0..MaxExtra
  BY DEF TypeOK, AskT, TaskT

LEMMA Blank ==
    /\ Free \in TaskT /\ Free.pc = "free" /\ Free.job = NoAsk
    /\ Free.link = 0 /\ Free.seen.link = 0
    /\ NoRecord \in Records /\ NoRecord.status = "none" /\ NoRecord.link = 0 /\ NoRecord.ttl = 0
    /\ NoFile \in Contents
    /\ Idle \in AskT /\ Idle.pc = "idle"
<1>1. NoRecord \in Records /\ NoRecord.status = "none" /\ NoRecord.link = 0 /\ NoRecord.ttl = 0
  BY Numbers DEF NoRecord, Records
<1>2. NoFile \in Contents
  BY DEF Contents
<1>3. Idle.filters \in Filters
  BY ExportAssumption DEF Idle
<1>4. Idle \in AskT /\ Idle.pc = "idle"
  BY <1>2, <1>3 DEF Idle, AskT
<1>5. Free \in TaskT /\ Free.pc = "free" /\ Free.job = NoAsk /\ Free.link = 0 /\ Free.seen = NoRecord
  BY <1>1, <1>2, Numbers DEF Free, TaskT
<1> QED BY <1>1, <1>2, <1>4, <1>5

LEMMA ExportInit == Init => ExportInv
<1> SUFFICES ASSUME Init PROVE ExportInv
  OBVIOUS
<1> USE Numbers, Blank
<1>1. TypeOK
  <2>1. 0 \in 0..MaxExtra
    OBVIOUS
  <2> QED BY <2>1, Types DEF Init
<1>2. Linked
  BY DEF Init, Linked
<1>3. Work
  BY DEF Init, Work, ProcessingIsWorkedOn
<1>4. Delivery
  BY DEF Init, Delivery
<1> QED BY <1>1, <1>2, <1>3, <1>4 DEF ExportInv

-----------------------------------------------------------------------------
(* One slot changes.                                                       *)

\* What a message or a task must be, given what else the step has left.
TaskFits(t, gone, files, log) ==
    /\ t.job = NoAsk <=> t.pc = "free"
    /\ t.pc \in {"givesup", "fail"} => t.job \in gone
    /\ \A a \in Asks : t.job = a =>
        /\ t.link > 0 \/ t.seen.link > 0 => files[a] # NoFile
        /\ t.pc = "exported" => Good(log, asks[a].filters, a, t.content)

\* What a step that changes slot s to t leaves besides.
SlotEffect(s, t) ==
    /\ TaskFits(t, abandoned', file', audit')
    /\ table' = table /\ extra' \in 0..MaxExtra
    /\ audit \subseteq audit' /\ \A entry \in audit' : entry[1] \in Asks
    /\ abandoned \subseteq abandoned' /\ abandoned' \subseteq Asks
    /\ asks' \in [Asks -> AskT]
    /\ \A a \in Asks :
        \/ asks'[a] = asks[a]
        \/ /\ asks[a].pc = "recorded" /\ asks'[a].pc = "accepted" /\ t.job = a
           /\ asks'[a].filters = asks[a].filters
    /\ \A a \in Asks : t.job = a => asks'[a].pc = "accepted"
    /\ \A a \in Asks : tasks[s].job = a /\ record'[a].status = "processing" =>
        t.job = a \/ a \in abandoned'
    /\ record' \in [Asks -> Records]
    /\ \A a \in Asks :
        \/ record'[a] = record[a]
        \/ /\ record'[a].status # "processing" /\ record'[a].ttl >= record'[a].link
           /\ record'[a].link > 0 => file'[a] # NoFile
    /\ file' \in [Asks -> Contents]
    /\ \A a \in Asks :
        \/ file'[a] = file[a]
        \/ asks[a].pc = "accepted" /\ Good(audit', asks[a].filters, a, file'[a])

LEMMA SlotStep ==
    ASSUME ExportInv, NEW s \in Slots, NEW t \in TaskT, tasks' = [tasks EXCEPT ![s] = t],
           SlotEffect(s, t)
    PROVE  ExportInv'
<1> USE DEF SlotEffect
<1> USE Numbers
<1>0. \A q \in Slots : tasks'[q] = IF q = s THEN t ELSE tasks[q]
  BY Types DEF ExportInv
<1>1. TypeOK'
  <2>1. /\ table' \subseteq Reports /\ tasks' \in [Slots -> TaskT]
        /\ \A q \in Slots : tasks'[q].job = NoAsk <=> tasks'[q].pc = "free"
    BY <1>0, Types DEF ExportInv, TaskFits
  <2> QED BY <2>1 DEF TypeOK, AskT, TaskT
<1>2. \A a \in Asks : file[a] # NoFile => file'[a] # NoFile
  BY DEF Good, Sane
<1>3. Linked'
  BY <1>0, <1>2 DEF ExportInv, Linked, TaskFits
<1>4. Work'
  <2>1. ProcessingIsWorkedOn'
    <3> SUFFICES ASSUME NEW a \in Asks, record'[a].status = "processing"
                 PROVE  \/ asks'[a].pc = "recorded"
                        \/ \E q \in Slots : tasks'[q].job = a
                        \/ a \in abandoned'
      BY DEF ProcessingIsWorkedOn
    <3>1. \/ asks[a].pc = "recorded"
          \/ \E q \in Slots : tasks[q].job = a
          \/ a \in abandoned
      BY DEF ExportInv, Work, ProcessingIsWorkedOn
    <3> QED BY <1>0, <3>1
  <2>2. \A q \in Slots : tasks'[q].pc \in {"givesup", "fail"} => tasks'[q].job \in abandoned'
    BY <1>0 DEF ExportInv, Work, TaskFits
  <2>3. \A q \in Slots : \A a \in Asks : tasks'[q].job = a => asks'[a].pc = "accepted"
    BY <1>0 DEF ExportInv, Work
  <2> QED BY <2>1, <2>2, <2>3 DEF Work
<1>5. Delivery'
  <2>1. \A a \in Asks : \A c : Good(audit, asks[a].filters, a, c) => Good(audit', asks[a].filters, a, c)
    BY DEF Good
  <2>2. \A a \in Asks : asks'[a].filters = asks[a].filters
    OBVIOUS
  <2>3. \A a \in Asks : file'[a] # NoFile =>
            asks'[a].pc = "accepted" /\ Good(audit', asks'[a].filters, a, file'[a])
    BY <2>2 DEF ExportInv, Delivery, Good
  <2>4. \A q \in Slots : \A a \in Asks :
            tasks'[q].job = a /\ tasks'[q].pc = "exported" =>
                Good(audit', asks'[a].filters, a, tasks'[q].content)
    BY <1>0, <2>2 DEF ExportInv, Delivery, TaskFits, Good
  <2>5. \A a \in Asks : asks'[a].pc \in {"written", "answered"} => asks'[a] = asks[a]
    OBVIOUS
  <2>6. \A a \in Asks : asks'[a].pc = "written" => Sane(asks'[a].filters, asks'[a].content)
    BY <2>5 DEF ExportInv, Delivery
  <2>7. \A a \in Asks : asks'[a].pc = "answered" =>
            Good(audit', asks'[a].filters, a, asks'[a].content)
    BY <2>5 DEF ExportInv, Delivery, Good
  <2> QED BY <2>3, <2>4, <2>6, <2>7 DEF Delivery, Good, Sane, AsAskedFor
<1> QED BY <1>1, <1>3, <1>4, <1>5 DEF ExportInv

-----------------------------------------------------------------------------
(* One request changes.                                                    *)

LEMMA AskStep ==
    ASSUME ExportInv, NEW a \in Asks, NEW k \in AskT, asks' = [asks EXCEPT ![a] = k],
           asks[a].pc # "accepted", k.pc # "accepted",
           UNCHANGED <<table, tasks, file, extra>>,
           audit \subseteq audit', \A entry \in audit' : entry[1] \in Asks,
           abandoned \subseteq abandoned', abandoned' \subseteq Asks,
           k.pc = "written" => Sane(k.filters, k.content),
           k.pc = "answered" => Good(audit', k.filters, a, k.content),
           asks[a].pc = "recorded" => a \in abandoned',
           record' \in [Asks -> Records],
           \A b \in Asks :
               \/ record'[b] = record[b]
               \/ b = a /\ k.pc = "recorded" /\ record'[b].link = 0
    PROVE  ExportInv'
<1> USE Numbers
<1>0. \A b \in Asks : asks'[b] = IF b = a THEN k ELSE asks[b]
  BY Types DEF ExportInv
<1>1. TypeOK'
  <2>1. asks' \in [Asks -> AskT] /\ UNCHANGED <<table, tasks, file, extra>>
    BY <1>0, Types DEF ExportInv
  <2> QED BY <2>1, Types DEF ExportInv, TypeOK, AskT, TaskT
<1>2. \A b \in Asks : record'[b].ttl \in Nat
  BY DEF Records
<1>3. Linked'
  BY <1>2 DEF ExportInv, Linked
<1>4. Work'
  <2>1. \A q \in Slots : \A b \in Asks : tasks'[q].job = b => asks'[b].pc = "accepted"
    BY <1>0 DEF ExportInv, Work
  <2>2. ProcessingIsWorkedOn'
    <3> SUFFICES ASSUME NEW b \in Asks, record'[b].status = "processing"
                 PROVE  \/ asks'[b].pc = "recorded"
                        \/ \E q \in Slots : tasks'[q].job = b
                        \/ b \in abandoned'
      BY DEF ProcessingIsWorkedOn
    <3>1. CASE b = a /\ k.pc = "recorded"
      BY <1>0, <3>1
    <3>2. CASE record'[b] = record[b]
      <4>1. \/ asks[b].pc = "recorded"
            \/ \E q \in Slots : tasks[q].job = b
            \/ b \in abandoned
        BY <3>2 DEF ExportInv, Work, ProcessingIsWorkedOn
      <4> QED BY <1>0, <4>1
    <3> QED BY <3>1, <3>2
  <2> QED BY <2>1, <2>2 DEF ExportInv, Work
<1>5. Delivery'
  <2>1. \A b \in Asks : \A c : Good(audit, asks[b].filters, b, c) => Good(audit', asks[b].filters, b, c)
    BY DEF Good
  <2>2. \A b \in Asks : file'[b] # NoFile =>
            asks'[b].pc = "accepted" /\ Good(audit', asks'[b].filters, b, file'[b])
    BY <1>0, <2>1 DEF ExportInv, Delivery
  <2>3. \A q \in Slots : \A b \in Asks :
            tasks'[q].job = b /\ tasks'[q].pc = "exported" =>
                Good(audit', asks'[b].filters, b, tasks'[q].content)
    <3> SUFFICES ASSUME NEW q \in Slots, NEW b \in Asks,
                        tasks'[q].job = b, tasks'[q].pc = "exported"
                 PROVE  Good(audit', asks'[b].filters, b, tasks'[q].content)
      OBVIOUS
    <3>1. tasks[q].job = b /\ tasks[q].pc = "exported" /\ tasks'[q].content = tasks[q].content
      OBVIOUS
    <3>2. asks[b].pc = "accepted"
      BY <3>1 DEF ExportInv, Work
    <3>3. asks'[b] = asks[b]
      BY <1>0, <3>2
    <3>4. Good(audit, asks[b].filters, b, tasks[q].content)
      BY <3>1 DEF ExportInv, Delivery
    <3> QED BY <2>1, <3>1, <3>3, <3>4
  <2>4. \A b \in Asks : asks'[b].pc = "written" => Sane(asks'[b].filters, asks'[b].content)
    BY <1>0 DEF ExportInv, Delivery
  <2>5. \A b \in Asks : asks'[b].pc = "answered" =>
            Good(audit', asks'[b].filters, b, asks'[b].content)
    BY <1>0, <2>1 DEF ExportInv, Delivery
  <2> QED BY <2>2, <2>3, <2>4, <2>5 DEF Delivery, Good, Sane, AsAskedFor
<1> QED BY <1>1, <1>3, <1>4, <1>5 DEF ExportInv

-----------------------------------------------------------------------------
(* The actions.                                                            *)

LEMMA ExportedContent ==
    ASSUME ExportInv, NEW a \in Asks
    PROVE  LET c == Content(FiltersFromDict(FiltersToDict(asks[a].filters)), table)
           IN  c = Content(asks[a].filters, table) /\ c \in Contents /\ Sane(asks[a].filters, c)
<1> DEFINE f == asks[a].filters
           c == Content(f, table)
<1>1. f \in ExportFilters /\ table \subseteq ExportRecord
  BY Types, ExportAssumption DEF ExportInv, AskT
<1> HIDE DEF f
<1>2. FiltersFromDict(FiltersToDict(f)) = f
  BY <1>1, DictRoundTrip
<1>3. c \in SUBSET ExportRecord /\ \A rec \in c : AsAskedFor(f, rec)
  BY <1>1, ContentAsAsked
<1> HIDE DEF c
<1>4. c \in Contents /\ Sane(f, c)
  BY <1>3, RecordsAreNoFile DEF Contents, Sane
<1> QED BY <1>2, <1>4 DEF c, f

LEMMA ExportKeeps == ASSUME ExportInv, NEW s \in Slots, Export(s) PROVE ExportInv'
<1> DEFINE a == tasks[s].job
           c == Content(FiltersFromDict(FiltersToDict(asks[a].filters)), table)
           t == [pc |-> "exported", job |-> a, tries |-> tasks[s].tries, content |-> c,
                 link |-> 0, seen |-> NoRecord]
<1>1. a \in Asks /\ tasks[s] \in TaskT /\ asks[a] \in AskT
  BY Types, Numbers DEF ExportInv, Export, At, TaskT
<1>2. c \in Contents /\ Sane(asks[a].filters, c)
  BY <1>1, ExportedContent
<1>3. /\ tasks' = [tasks EXCEPT ![s] = t] /\ audit' = audit \cup {AuditRow(a, c)}
      /\ UNCHANGED <<table, asks, record, file, abandoned, extra>>
  BY DEF Export
<1> HIDE DEF c
<1>4. /\ t \in TaskT /\ t.pc = "exported" /\ t.job = a /\ t.link = 0 /\ t.seen.link = 0
      /\ t.content = c
  BY <1>1, <1>2, Blank, Numbers DEF TaskT
<1> HIDE DEF t
<1>5. AuditRow(a, c)[1] = a
  BY DEF AuditRow
<1>6. TaskFits(t, abandoned', file', audit')
  BY <1>1, <1>2, <1>3, <1>4, Numbers DEF TaskFits, Good
<1>7. \A b \in Asks : tasks[s].job = b => asks[b].pc = "accepted"
  BY DEF ExportInv, Work
<1>8. SlotEffect(s, t)
  BY <1>1, <1>3, <1>4, <1>5, <1>6, <1>7, Types DEF ExportInv, SlotEffect
<1> QED BY <1>3, <1>4, <1>8, SlotStep

LEMMA UploadKeeps == ASSUME ExportInv, NEW s \in Slots, Upload(s) PROVE ExportInv'
<1> DEFINE a == tasks[s].job
           t == [pc |-> "uploaded", job |-> a, tries |-> tasks[s].tries, content |-> NoFile,
                 link |-> Life, seen |-> NoRecord]
<1>1. /\ a \in Asks /\ tasks[s] \in TaskT /\ asks[a].pc = "accepted"
      /\ Good(audit, asks[a].filters, a, tasks[s].content)
  BY Types, Numbers DEF ExportInv, Upload, At, TaskT, Work, Delivery
<1>2. /\ tasks' = [tasks EXCEPT ![s] = t] /\ file' = [file EXCEPT ![a] = tasks[s].content]
      /\ UNCHANGED <<table, asks, record, audit, abandoned, extra>>
  BY DEF Upload
<1>3. t \in TaskT /\ t.pc = "uploaded" /\ t.job = a
  BY <1>1, Blank, Numbers DEF TaskT
<1> HIDE DEF t
<1>4. /\ file' \in [Asks -> Contents]
      /\ \A b \in Asks : file'[b] = IF b = a THEN tasks[s].content ELSE file[b]
  BY <1>1, <1>2, Types DEF ExportInv, TaskT
<1>5. file'[a] # NoFile
  BY <1>1, <1>4 DEF Good, Sane
<1>6. TaskFits(t, abandoned', file', audit')
  BY <1>1, <1>3, <1>5, Numbers DEF TaskFits
<1>7. SlotEffect(s, t)
  BY <1>1, <1>2, <1>3, <1>4, <1>5, <1>6, Types DEF ExportInv, SlotEffect
<1> QED BY <1>2, <1>3, <1>7, SlotStep

\* The steps after the upload leave file, audit and requests alone.
LateEffect(s, t) ==
    /\ UNCHANGED <<table, asks, file, audit, extra>>
    /\ abandoned \subseteq abandoned' /\ abandoned' \subseteq Asks
    /\ record' \in [Asks -> Records]
    /\ \A a \in Asks :
        \/ record'[a] = record[a]
        \/ /\ a = tasks[s].job /\ record'[a].status # "processing"
           /\ record'[a].ttl >= record'[a].link
           /\ record'[a].link > 0 => file[a] # NoFile
    /\ \/ /\ t = Free
          /\ tasks[s].job \in abandoned' \/ record'[tasks[s].job].status # "processing"
       \/ /\ t.job = tasks[s].job /\ t.pc \notin {"free", "exported"}
          /\ t.pc \in {"givesup", "fail"} => t.job \in abandoned'
          /\ t.link > 0 \/ t.seen.link > 0 => file[tasks[s].job] # NoFile

LEMMA LateStep ==
    ASSUME ExportInv, NEW s \in Slots, tasks[s].pc # "free", NEW t \in TaskT,
           tasks' = [tasks EXCEPT ![s] = t], LateEffect(s, t)
    PROVE  ExportInv'
<1> USE DEF LateEffect
<1>1. /\ tasks[s].job \in Asks /\ asks \in [Asks -> AskT] /\ file \in [Asks -> Contents]
      /\ \A entry \in audit : entry[1] \in Asks
      /\ extra \in 0..MaxExtra
  BY Types, Numbers DEF ExportInv, TaskT
<1>2. \A a \in Asks : tasks[s].job = a => asks[a].pc = "accepted"
  BY DEF ExportInv, Work
<1>3. TaskFits(t, abandoned', file', audit')
  BY <1>1, Blank, Numbers DEF TaskFits
<1>4. \A a \in Asks : t.job = a => t # Free /\ a = tasks[s].job
  BY Blank, Numbers
<1>5. \A a \in Asks : tasks[s].job = a /\ record'[a].status = "processing" =>
          t.job = a \/ a \in abandoned'
  OBVIOUS
<1>6. SlotEffect(s, t)
  BY <1>1, <1>2, <1>3, <1>4, <1>5, Types DEF ExportInv, SlotEffect
<1> QED BY <1>6, SlotStep

LEMMA LateTypes ==
    ASSUME ExportInv, NEW s \in Slots, tasks[s].pc # "free"
    PROVE  /\ tasks[s] \in TaskT /\ tasks[s].job \in Asks
           /\ tasks[s].link \in 0..Life /\ tasks[s].seen \in Records /\ tasks[s].tries \in 0..MaxRetries
           /\ record \in [Asks -> Records] /\ record[tasks[s].job] \in Records
           /\ tasks[s].link > 0 \/ tasks[s].seen.link > 0 => file[tasks[s].job] # NoFile
           /\ record[tasks[s].job].link > 0 => file[tasks[s].job] # NoFile
           /\ abandoned \subseteq Asks
           /\ tasks[s].pc \in {"givesup", "fail"} => tasks[s].job \in abandoned
<1>1. tasks[s] \in TaskT /\ tasks[s].job \in Asks /\ record \in [Asks -> Records] /\ abandoned \subseteq Asks
  BY Types, Numbers DEF ExportInv, TaskT
<1> QED BY <1>1 DEF TaskT, ExportInv, Linked, Work

\* A message that is new in a slot that was free.
LEMMA NewMessage ==
    ASSUME NEW a \in Asks, NEW n \in 0..MaxRetries
    PROVE  /\ Message(a, n) \in TaskT /\ Message(a, n).pc = "queued" /\ Message(a, n).job = a
           /\ Message(a, n).link = 0 /\ Message(a, n).seen.link = 0
  BY Blank DEF Message, Free, TaskT

LEMMA ReadKeeps ==
    ASSUME ExportInv, NEW s \in Slots, ReadForUpdate(s) \/ ReadForFailure(s) PROVE ExportInv'
<1> DEFINE rec == record[tasks[s].job]
           full(to) == [pc |-> to, job |-> tasks[s].job, tries |-> tasks[s].tries,
                        content |-> NoFile, link |-> tasks[s].link, seen |-> rec]
<1>1. PICK from, to : /\ <<from, to>> \in {<<"uploaded", "update">>, <<"givesup", "fail">>}
                      /\ ReadRecord(s, from, to)
  BY DEF ReadForUpdate, ReadForFailure
<1>2. /\ tasks[s].pc = from /\ UNCHANGED <<table, asks, record, file, audit, abandoned, extra>>
      /\ tasks' = [tasks EXCEPT ![s] = IF rec = NoRecord THEN Free ELSE full(to)]
  BY <1>1 DEF ReadRecord, At
<1>3. from \in {"uploaded", "givesup"} /\ to \in {"update", "fail"} /\ (from = "uploaded" <=> to = "update")
  BY <1>1
<1>4. full(to) \in TaskT /\ full(to).job = tasks[s].job /\ full(to).pc = to
      /\ full(to).link = tasks[s].link /\ full(to).seen = rec
  BY <1>2, <1>3, LateTypes, Blank DEF TaskT
<1> HIDE DEF full
<1>5. CASE rec = NoRecord
  <2>1. LateEffect(s, Free)
    BY <1>2, <1>3, <1>5, LateTypes, Blank DEF LateEffect
  <2> QED BY <1>2, <1>3, <1>5, <2>1, LateStep, Blank
<1>6. CASE rec # NoRecord
  <2>1. full(to).pc \in {"givesup", "fail"} => full(to).job \in abandoned'
    BY <1>2, <1>3, <1>4, LateTypes
  <2>2. full(to).link > 0 \/ full(to).seen.link > 0 => file[tasks[s].job] # NoFile
    BY <1>2, <1>3, <1>4, LateTypes
  <2>3. LateEffect(s, full(to))
    BY <1>2, <1>3, <1>4, <2>1, <2>2, LateTypes DEF LateEffect
  <2> QED BY <1>2, <1>3, <1>4, <1>6, <2>3, LateStep
<1> QED BY <1>5, <1>6

LEMMA MarkKeeps ==
    ASSUME ExportInv, NEW s \in Slots, MarkComplete(s) \/ MarkFailed(s) PROVE ExportInv'
<1> DEFINE a == tasks[s].job
<1>1. PICK st \in {"complete", "failed"}, n \in {tasks[s].link, tasks[s].seen.link} :
          record' = [record EXCEPT ![a] = [status |-> st, link |-> n, ttl |-> Life]]
  BY DEF MarkComplete, MarkFailed
<1>2. /\ tasks[s].pc \in {"update", "fail"} /\ tasks' = [tasks EXCEPT ![s] = Free]
      /\ UNCHANGED <<table, asks, file, audit, abandoned, extra>>
  BY DEF MarkComplete, MarkFailed, At, Done
<1>3. n \in 0..Life /\ n <= Life /\ (n > 0 => file[a] # NoFile) /\ a \in Asks
  BY <1>2, LateTypes, Numbers DEF Records
<1>4. [status |-> st, link |-> n, ttl |-> Life] \in Records
  BY <1>3, Numbers DEF Records
<1>5. /\ record' \in [Asks -> Records]
      /\ \A b \in Asks : b # a => record'[b] = record[b]
      /\ record'[a].status = st /\ record'[a].link = n /\ record'[a].ttl = Life
  BY <1>1, <1>2, <1>3, <1>4, LateTypes
<1>6. LateEffect(s, Free)
  BY <1>2, <1>3, <1>5, LateTypes, Numbers DEF LateEffect
<1> QED BY <1>2, <1>6, LateStep, Blank

LEMMA RetryKeeps == ASSUME ExportInv, NEW s \in Slots, Retry(s) PROVE ExportInv'
<1> DEFINE t == Message(tasks[s].job, tasks[s].tries + 1)
<1>1. /\ tasks[s].pc # "free" /\ tasks[s].tries < MaxRetries /\ tasks' = [tasks EXCEPT ![s] = t]
      /\ UNCHANGED <<table, asks, record, file, audit, abandoned, extra>>
  BY DEF Retry, Working
<1>2. tasks[s].job \in Asks /\ tasks[s].tries + 1 \in 0..MaxRetries
  BY <1>1, LateTypes, Numbers
<1>3. /\ t \in TaskT /\ t.pc = "queued" /\ t.job = tasks[s].job
      /\ t.link = 0 /\ t.seen.link = 0
  BY <1>2, NewMessage
<1> HIDE DEF t
<1>4. LateEffect(s, t)
  BY <1>1, <1>3, LateTypes DEF LateEffect
<1> QED BY <1>1, <1>3, <1>4, LateStep

LEMMA GiveUpKeeps == ASSUME ExportInv, NEW s \in Slots, GiveUp(s) PROVE ExportInv'
<1> DEFINE t == [tasks[s] EXCEPT !.pc = "givesup"]
<1>1. /\ tasks[s].pc # "free" /\ abandoned' = abandoned \cup {tasks[s].job}
      /\ tasks' = [tasks EXCEPT ![s] = t] \/ tasks' = [tasks EXCEPT ![s] = Free]
      /\ UNCHANGED <<table, asks, record, file, audit, extra>>
  BY DEF GiveUp, Working, Goto, Done
<1>2. /\ t \in TaskT /\ t.pc = "givesup" /\ t.job = tasks[s].job
      /\ t.link = tasks[s].link /\ t.seen = tasks[s].seen
  BY <1>1, LateTypes DEF TaskT
<1> HIDE DEF t
<1>3. CASE tasks' = [tasks EXCEPT ![s] = Free]
  <2>1. LateEffect(s, Free)
    BY <1>1, LateTypes DEF LateEffect
  <2> QED BY <1>1, <1>3, <2>1, LateStep, Blank
<1>4. CASE tasks' = [tasks EXCEPT ![s] = t]
  <2>1. LateEffect(s, t)
    BY <1>1, <1>2, LateTypes DEF LateEffect
  <2> QED BY <1>1, <1>2, <1>4, <2>1, LateStep
<1> QED BY <1>1, <1>3, <1>4

LEMMA FailureUnmarkedKeeps ==
    ASSUME ExportInv, NEW s \in Slots, FailureUnmarked(s) PROVE ExportInv'
<1>1. /\ tasks[s].pc \in {"givesup", "fail"} /\ tasks' = [tasks EXCEPT ![s] = Free]
      /\ UNCHANGED <<table, asks, record, file, audit, abandoned, extra>>
  BY DEF FailureUnmarked, Done
<1>2. LateEffect(s, Free)
  BY <1>1, LateTypes DEF LateEffect
<1> QED BY <1>1, <1>2, LateStep, Blank

LEMMA RedeliverKeeps ==
    ASSUME ExportInv, NEW s \in Slots, NEW t \in Slots, Redeliver(s, t) PROVE ExportInv'
<1> DEFINE a == tasks[s].job
           m == Message(a, tasks[s].tries)
<1>1. /\ tasks[s].pc # "free" /\ tasks[t].pc = "free" /\ tasks' = [tasks EXCEPT ![t] = m]
      /\ extra' = extra + 1 /\ extra < MaxExtra
      /\ UNCHANGED <<table, asks, record, file, audit, abandoned>>
  BY DEF Redeliver, Working
<1>2. a \in Asks /\ m \in TaskT /\ m.pc = "queued" /\ m.job = a /\ m.link = 0 /\ m.seen.link = 0
  BY <1>1, LateTypes, NewMessage
<1> HIDE DEF m
<1>3. tasks[t].job = NoAsk /\ asks[a].pc = "accepted" /\ extra' \in 0..MaxExtra
  BY <1>1, <1>2, Types, Numbers DEF ExportInv, Work
<1>4. TaskFits(m, abandoned', file', audit')
  BY <1>2, Numbers DEF TaskFits
<1>5. SlotEffect(t, m)
  BY <1>1, <1>2, <1>3, <1>4, Types, Numbers DEF ExportInv, SlotEffect
<1> QED BY <1>1, <1>2, <1>5, SlotStep

LEMMA DispatchKeeps ==
    ASSUME ExportInv, NEW a \in Asks, NEW s \in Slots, Dispatch(a, s) PROVE ExportInv'
<1> DEFINE m == Message(a, 0)
<1>1. /\ asks[a].pc = "recorded" /\ tasks[s].pc = "free" /\ tasks' = [tasks EXCEPT ![s] = m]
      /\ asks' = [asks EXCEPT ![a].pc = "accepted"]
      /\ UNCHANGED <<table, record, file, audit, abandoned, extra>>
  BY DEF Dispatch
<1>2. m \in TaskT /\ m.pc = "queued" /\ m.job = a /\ m.link = 0 /\ m.seen.link = 0
  BY NewMessage, Numbers
<1> HIDE DEF m
<1>3. /\ asks' \in [Asks -> AskT]
      /\ \A b \in Asks : b # a => asks'[b] = asks[b]
      /\ asks'[a].pc = "accepted" /\ asks'[a].filters = asks[a].filters
  BY <1>1, Types DEF ExportInv, AskT
<1>4. tasks[s].job = NoAsk
  BY <1>1, Types DEF ExportInv
<1>5. TaskFits(m, abandoned', file', audit')
  BY <1>2, Numbers DEF TaskFits
<1>6. SlotEffect(s, m)
  BY <1>1, <1>2, <1>3, <1>4, <1>5, Types, Numbers DEF ExportInv, SlotEffect
<1> QED BY <1>1, <1>2, <1>6, SlotStep

\* What a request does on its own.
LEMMA AskTypes ==
    ASSUME ExportInv, NEW a \in Asks
    PROVE  /\ asks[a] \in AskT /\ asks[a].filters \in Filters /\ asks[a].content \in Contents
           /\ \A entry \in audit : entry[1] \in Asks
           /\ abandoned \subseteq Asks /\ record \in [Asks -> Records]
           /\ asks[a].filters \in ExportFilters /\ table \in SUBSET ExportRecord
  BY Types, ExportAssumption DEF ExportInv, AskT

LEMMA RequestKeeps ==
    ASSUME ExportInv, NEW a \in Asks,
           \/ \E f \in Filters : Ask(a, f)
           \/ SyncExport(a) \/ SyncCommit(a) \/ SyncFails(a) \/ CreateJob(a) \/ DispatchFails(a)
    PROVE  ExportInv'
<1> USE AskTypes
<1>1. ASSUME NEW f \in Filters, Ask(a, f) PROVE ExportInv'
  <2> DEFINE k == [pc |-> IF Cardinality(Selected(f, table)) > Threshold THEN "large" ELSE "small",
                   filters |-> f, content |-> NoFile]
  <2>1. k \in AskT /\ k.pc \in {"large", "small"}
    BY Blank DEF AskT
  <2>2. asks[a].pc = "idle" /\ asks' = [asks EXCEPT ![a] = k]
        /\ UNCHANGED <<table, record, tasks, file, audit, abandoned, extra>>
    BY <1>1 DEF Ask, OnlyAsks
  <2> HIDE DEF k
  <2> QED BY <2>1, <2>2, AskStep
<1>2. ASSUME SyncExport(a) PROVE ExportInv'
  <2> DEFINE c == Content(asks[a].filters, table)
             k == [pc |-> "written", filters |-> asks[a].filters, content |-> c]
  <2>1. c \in SUBSET ExportRecord /\ \A rec \in c : AsAskedFor(asks[a].filters, rec)
    BY ContentAsAsked
  <2> HIDE DEF c
  <2>2. c \in Contents /\ Sane(asks[a].filters, c)
    BY <2>1, RecordsAreNoFile DEF Contents, Sane
  <2>3. k \in AskT /\ k.pc = "written" /\ Sane(k.filters, k.content)
    BY <2>2 DEF AskT
  <2>4. asks[a].pc = "small" /\ asks' = [asks EXCEPT ![a] = k]
        /\ UNCHANGED <<table, record, tasks, file, audit, abandoned, extra>>
    BY <1>2 DEF SyncExport, OnlyAsks, c
  <2> HIDE DEF k
  <2> QED BY <2>3, <2>4, AskStep
<1>3. ASSUME SyncCommit(a) PROVE ExportInv'
  <2> DEFINE k == [asks[a] EXCEPT !.pc = "answered"]
  <2>1. asks[a].pc = "written" /\ asks' = [asks EXCEPT ![a] = k]
        /\ audit' = audit \cup {AuditRow(a, asks[a].content)}
        /\ UNCHANGED <<table, record, tasks, file, abandoned, extra>>
    BY <1>3 DEF SyncCommit
  <2>2. k \in AskT /\ k.pc = "answered" /\ k.filters = asks[a].filters /\ k.content = asks[a].content
    BY DEF AskT
  <2> HIDE DEF k
  <2>3. AuditRow(a, asks[a].content)[1] = a
    BY DEF AuditRow
  <2>4. Good(audit', k.filters, a, k.content)
    BY <2>1, <2>2 DEF ExportInv, Delivery, Good
  <2> QED BY <2>1, <2>2, <2>3, <2>4, AskStep
<1>4. ASSUME SyncFails(a) PROVE ExportInv'
  <2> DEFINE k == [pc |-> "error", filters |-> asks[a].filters, content |-> NoFile]
  <2>1. asks[a].pc \in {"small", "written"} /\ asks' = [asks EXCEPT ![a] = k]
        /\ UNCHANGED <<table, record, tasks, file, audit, abandoned, extra>>
    BY <1>4 DEF SyncFails, OnlyAsks
  <2>2. k \in AskT /\ k.pc = "error"
    BY Blank DEF AskT
  <2> HIDE DEF k
  <2> QED BY <2>1, <2>2, AskStep
<1>5. ASSUME CreateJob(a) PROVE ExportInv'
  <2> DEFINE k == [asks[a] EXCEPT !.pc = "recorded"]
             rec == [status |-> "processing", link |-> 0, ttl |-> Life]
  <2>1. asks[a].pc = "large" /\ asks' = [asks EXCEPT ![a] = k]
        /\ record' = [record EXCEPT ![a] = rec]
        /\ UNCHANGED <<table, tasks, file, audit, abandoned, extra>>
    BY <1>5 DEF CreateJob
  <2>2. k \in AskT /\ k.pc = "recorded" /\ rec \in Records /\ rec.link = 0
    BY Numbers DEF AskT, Records
  <2> HIDE DEF k, rec
  <2>3. record' \in [Asks -> Records] /\ record'[a].link = 0
        /\ \A b \in Asks : b # a => record'[b] = record[b]
    BY <2>1, <2>2
  <2> QED BY <2>1, <2>2, <2>3, AskStep
<1>6. ASSUME DispatchFails(a) PROVE ExportInv'
  <2> DEFINE k == [asks[a] EXCEPT !.pc = "error"]
  <2>1. asks[a].pc = "recorded" /\ asks' = [asks EXCEPT ![a] = k]
        /\ abandoned' = abandoned \cup {a}
        /\ UNCHANGED <<table, record, tasks, file, audit, extra>>
    BY <1>6 DEF DispatchFails
  <2>2. k \in AskT /\ k.pc = "error"
    BY DEF AskT
  <2> HIDE DEF k
  <2> QED BY <2>1, <2>2, AskStep
<1> QED BY <1>1, <1>2, <1>3, <1>4, <1>5, <1>6

LEMMA LessOk == ASSUME NEW n \in 0..Life PROVE Less(n) \in 0..Life /\ (Less(n) > 0 => n > 0)
  BY Numbers DEF Less

LEMMA TickKeeps == ASSUME ExportInv, Tick PROVE ExportInv'
<1>1. UNCHANGED <<table, asks, file, audit, abandoned, extra>>
  BY DEF Tick
<1>2. /\ record' \in [Asks -> Records]
      /\ \A a \in Asks :
          /\ record'[a].status \in {record[a].status, "none"}
          /\ record'[a].ttl >= record'[a].link
          /\ record'[a].link > 0 => record[a].link > 0
  <2>1. ASSUME NEW a \in Asks, NEW r, r = record'[a]
        PROVE  /\ r \in Records /\ r.status \in {record[a].status, "none"}
               /\ r.ttl >= r.link /\ (r.link > 0 => record[a].link > 0)
    <3>1. record[a] \in Records /\ record[a].ttl >= record[a].link
      BY Types DEF ExportInv, Linked
    <3>2. record[a].link \in 0..Life /\ record[a].ttl \in 0..Life
      BY <3>1 DEF Records
    <3>3. CASE record[a].ttl <= 1
      <4>1. r = NoRecord
        BY <2>1, <3>3 DEF Tick
      <4> QED BY <4>1, Blank
    <3>4. CASE ~(record[a].ttl <= 1)
      <4>1. r = [status |-> record[a].status, link |-> Less(record[a].link),
                 ttl |-> record[a].ttl - 1]
        BY <2>1, <3>4 DEF Tick
      <4>2. Less(record[a].link) \in 0..Life /\ (Less(record[a].link) > 0 => record[a].link > 0)
            /\ record[a].ttl - 1 \in 0..Life /\ record[a].ttl - 1 >= Less(record[a].link)
        BY <3>1, <3>2, <3>4, Numbers DEF Less
      <4> QED BY <3>1, <4>1, <4>2 DEF Records
    <3> QED BY <3>3, <3>4
  <2>2. DOMAIN record' = Asks /\ record' = [a \in Asks |-> record'[a]]
    BY DEF Tick
  <2> QED BY <2>1, <2>2
<1>3. /\ tasks' \in [Slots -> TaskT]
      /\ \A s \in Slots :
          /\ tasks'[s].pc = tasks[s].pc /\ tasks'[s].job = tasks[s].job
          /\ tasks'[s].content = tasks[s].content
          /\ tasks'[s].link > 0 => tasks[s].link > 0
          /\ tasks'[s].seen.link > 0 => tasks[s].seen.link > 0
  <2>1. ASSUME NEW s \in Slots, NEW t, t = tasks'[s]
        PROVE  /\ t \in TaskT
               /\ t.pc = tasks[s].pc /\ t.job = tasks[s].job /\ t.content = tasks[s].content
               /\ t.link > 0 => tasks[s].link > 0
               /\ t.seen.link > 0 => tasks[s].seen.link > 0
    <3>1. tasks[s] \in TaskT /\ tasks[s].seen \in Records /\ tasks[s].link \in 0..Life
          /\ tasks[s].seen.link \in 0..Life
      BY Types DEF ExportInv, TaskT, Records
    <3>2. t = [tasks[s] EXCEPT !.link = Less(tasks[s].link), !.seen.link = Less(tasks[s].seen.link)]
      BY <2>1 DEF Tick
    <3>3. /\ Less(tasks[s].link) \in 0..Life /\ (Less(tasks[s].link) > 0 => tasks[s].link > 0)
          /\ Less(tasks[s].seen.link) \in 0..Life
          /\ (Less(tasks[s].seen.link) > 0 => tasks[s].seen.link > 0)
      BY <3>1, LessOk
    <3> DEFINE l == Less(tasks[s].link)
               n == [tasks[s].seen EXCEPT !.link = Less(tasks[s].seen.link)]
    <3>4. n \in Records /\ n.link = Less(tasks[s].seen.link)
      BY <3>1, <3>3 DEF Records
    <3>5. t = [pc |-> tasks[s].pc, job |-> tasks[s].job, tries |-> tasks[s].tries,
               content |-> tasks[s].content, link |-> l, seen |-> n]
      BY <3>1, <3>2 DEF TaskT
    <3> HIDE DEF l, n
    <3> QED BY <3>1, <3>3, <3>4, <3>5 DEF TaskT, l
  <2>2. DOMAIN tasks' = Slots /\ tasks' = [s \in Slots |-> tasks'[s]]
    BY DEF Tick
  <2> QED BY <2>1, <2>2
<1>4. TypeOK'
  <2>1. \A s \in Slots : tasks'[s].job = NoAsk <=> tasks'[s].pc = "free"
    BY <1>3, Types DEF ExportInv
  <2> QED BY <1>1, <1>2, <1>3, <2>1, Types DEF ExportInv, TypeOK, TaskT
<1>5. Linked'
  BY <1>1, <1>2, <1>3 DEF ExportInv, Linked
<1>6. Work'
  <2>1. ProcessingIsWorkedOn'
    <3> SUFFICES ASSUME NEW a \in Asks, record'[a].status = "processing"
                 PROVE  \/ asks'[a].pc = "recorded"
                        \/ \E q \in Slots : tasks'[q].job = a
                        \/ a \in abandoned'
      BY DEF ProcessingIsWorkedOn
    <3>1. record[a].status = "processing"
      BY <1>2
    <3> QED BY <1>1, <1>3, <3>1 DEF ExportInv, Work, ProcessingIsWorkedOn
  <2> QED BY <1>1, <1>3, <2>1 DEF ExportInv, Work
<1>7. Delivery'
  <2>1. \A s \in Slots : \A a \in Asks :
            tasks'[s].job = a /\ tasks'[s].pc = "exported" =>
                Good(audit', asks'[a].filters, a, tasks'[s].content)
    BY <1>1, <1>3 DEF ExportInv, Delivery
  <2>2. /\ \A a \in Asks : file'[a] # NoFile =>
            asks'[a].pc = "accepted" /\ Good(audit', asks'[a].filters, a, file'[a])
        /\ \A a \in Asks : asks'[a].pc = "written" => Sane(asks'[a].filters, asks'[a].content)
        /\ \A a \in Asks : asks'[a].pc = "answered" =>
            Good(audit', asks'[a].filters, a, asks'[a].content)
    BY <1>1 DEF ExportInv, Delivery
  <2> QED BY <2>1, <2>2 DEF Delivery, Good, Sane, AsAskedFor
<1> QED BY <1>4, <1>5, <1>6, <1>7 DEF ExportInv

LEMMA StillKeeps ==
    ASSUME ExportInv, UNCHANGED <<asks, record, tasks, file, audit, abandoned, extra>>,
           table' \subseteq Reports
    PROVE  ExportInv'
<1>1. TypeOK'
  BY DEF ExportInv, TypeOK
<1>2. Linked' /\ Work'
  BY DEF ExportInv, Linked, Work, ProcessingIsWorkedOn
<1>3. Delivery'
  BY DEF ExportInv, Delivery, Good, Sane, AsAskedFor
<1> QED BY <1>1, <1>2, <1>3 DEF ExportInv

LEMMA ExportStep == ExportInv /\ [Next]_vars => ExportInv'
<1> SUFFICES ASSUME ExportInv, [Next]_vars PROVE ExportInv'
  OBVIOUS
<1>1. CASE UNCHANGED vars
  BY <1>1, StillKeeps DEF vars, ExportInv, TypeOK
<1>2. ASSUME NEW r \in Reports, TableChanges(r) PROVE ExportInv'
  BY <1>2, StillKeeps DEF TableChanges, ExportInv, TypeOK
<1>3. ASSUME NEW s \in Slots, Task(s) PROVE ExportInv'
  BY <1>3, ExportKeeps, UploadKeeps, ReadKeeps, MarkKeeps, RetryKeeps, GiveUpKeeps,
     FailureUnmarkedKeeps DEF Task
<1> QED BY <1>1, <1>2, <1>3, RequestKeeps, DispatchKeeps, RedeliverKeeps, TickKeeps DEF Next

\* Every reachable state has its type.
THEOREM TypeCorrect == Spec => []TypeOK
<1>1. ExportInv => TypeOK
  BY DEF ExportInv
<1> QED BY <1>1, ExportInit, ExportStep, PTL DEF Spec

\* Whatever leaves the service, in an answer or behind a link that works, has its
\* committed audit row, whichever retries and second runs there were
\* (export_tasks.py:209).
THEOREM DeliveriesAreAudited == Spec => []DeliveredIsAudited
<1>1. ExportInv => DeliveredIsAudited
  BY DEF ExportInv, Linked, Delivery, Good, Sane, DeliveredIsAudited, HandedOut
<1> QED BY <1>1, ExportInit, ExportStep, PTL DEF Spec

\* What is handed out is what the request asked for, on the synchronous way and
\* through the dict of the task (export_tasks.py:168).
THEOREM DeliveriesAreAsAsked == Spec => []AsAsked
<1>1. ExportInv => AsAsked
  <2> SUFFICES ASSUME ExportInv, NEW a \in Asks, NEW c \in HandedOut(a), NEW rec \in c
               PROVE  AsAskedFor(asks[a].filters, rec)
    BY DEF AsAsked, AsAskedFor
  <2>1. Good(audit, asks[a].filters, a, c)
    BY DEF HandedOut, ExportInv, Linked, Delivery
  <2> QED BY <2>1 DEF Good, Sane
<1> QED BY <1>1, ExportInit, ExportStep, PTL DEF Spec

\* The record of a job outlives the link it holds (export_tasks.py:322).
THEOREM LinksHaveRecords == Spec => []RecordOutlivesLink
<1>1. ExportInv => RecordOutlivesLink
  BY DEF ExportInv, Linked, RecordOutlivesLink
<1> QED BY <1>1, ExportInit, ExportStep, PTL DEF Spec

\* A job that says "processing" has a request or a task at work, or was abandoned
\* (export_tasks.py:409).
THEOREM ProcessingHasWorker == Spec => []ProcessingIsWorkedOn
<1>1. ExportInv => ProcessingIsWorkedOn
  BY DEF ExportInv, Work
<1> QED BY <1>1, ExportInit, ExportStep, PTL DEF Spec
=============================================================================
