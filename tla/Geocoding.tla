------------------------------- MODULE Geocoding -------------------------------
(***************************************************************************)
(* Where a landmark is (geocoding_service).  The GIS workers ask through a *)
(* cache in Redis (CachedGeocodingProvider): a hit is the answer, a miss   *)
(* is asked of the service and stored, no result too, an error never.  If  *)
(* Redis fails on the read the service is asked and nothing is stored.     *)
(* Nominatim allows a request a second, and whoever sets a key that        *)
(* expires after a second owns the next one; Google has no such limit.     *)
(* How long after setting the key a worker sends is up to its scheduler.   *)
(***************************************************************************)
EXTENDS Integers, FiniteSets

CONSTANTS
    Workers,    \* GIS workers
    Landmarks,  \* the queries, normalised and hashed by the key
    Providers,  \* a subset of "nominatim", "google"
    Nowhere,    \* the answer that there is no result
    Failed      \* what a caller gets for a GeocodingError

ASSUME GeocodingAssumption == IsFiniteSet(Workers)

VARIABLES
    provider,   \* the one that is configured; never changes
    truth,      \* the service: query -> a place, or Nowhere
    answers,    \* the cache: query -> answer, for the keys that are there
    slot,       \* the slot key is set
    burst,      \* history: the most by which the requests sent for a slot exceed the
                \* seconds of slots that have run out, over all periods up to now
    calls       \* per worker: the call it is in

geoVars == <<provider, truth, answers, slot, burst, calls>>

NoCall == [pc |-> "none"]
At(w, step) == calls[w].pc = step
Goto(w, step) == calls' = [calls EXCEPT ![w].pc = step]
Returns(w, answer) == calls' = [calls EXCEPT ![w] = [pc |-> "answered", query |-> calls[w].query, direct |-> FALSE, answer |-> answer]]

GeoInit(places) ==
    /\ provider \in Providers
    /\ truth \in [Landmarks -> places \cup {Nowhere}]
    /\ answers = [q \in {} |-> Nowhere]
    /\ slot = FALSE /\ burst = 0
    /\ calls = [w \in Workers |-> NoCall]

\* GET, a failure of Redis included.
Lookup(w, q) ==
    /\ \/ /\ q \in DOMAIN answers
          /\ calls' = [calls EXCEPT ![w] = [pc |-> "answered", query |-> q, direct |-> FALSE, answer |-> answers[q]]]
       \/ /\ q \notin DOMAIN answers
          /\ calls' = [calls EXCEPT ![w] = [pc |-> IF provider = "google" THEN "ask" ELSE "slot",
                                            query |-> q, direct |-> FALSE, answer |-> Nowhere]]
       \/ calls' = [calls EXCEPT ![w] = [pc |-> IF provider = "google" THEN "ask" ELSE "slot",
                                         query |-> q, direct |-> TRUE, answer |-> Nowhere]]
    /\ UNCHANGED <<provider, truth, answers, slot, burst>>

SlotIsFree == ~slot

\* SET NX PX 1000.
TakeSlot(w) ==
    /\ At(w, "slot") /\ SlotIsFree
    /\ slot' = TRUE
    /\ Goto(w, "ask")
    /\ UNCHANGED <<provider, truth, answers, burst>>

\* Redis fails, and the worker sleeps its second instead: it asks without a slot.
SleepInstead(w) == At(w, "slot") /\ Goto(w, "unpaced") /\ UNCHANGED <<provider, truth, answers, slot, burst>>

\* After a minute without a slot.
SlotTimesOut(w) == At(w, "slot") /\ slot /\ Returns(w, Failed) /\ UNCHANGED <<provider, truth, answers, slot, burst>>

\* Mutant of Stored: an error is stored as no result.
StoredWhatever(answer) == TRUE

\* A GeocodingError propagates past the cache.
Stored(answer) == answer # Failed

\* A request goes out; those of Nominatim that own a slot count.
Sends(w) == burst' = IF provider = "nominatim" /\ At(w, "ask") THEN burst + 1 ELSE burst

\* Mutant of Answer: a request that failed is sent again at once.
AnswerAsksAgain(w) ==
    /\ calls[w].pc \in {"ask", "unpaced"}
    /\ LET answer == truth[calls[w].query]
       IN  \/ IF ~calls[w].direct
              THEN calls' = [calls EXCEPT ![w] = [@ EXCEPT !.pc = "store", !.answer = answer]]
              ELSE Returns(w, answer)
           \/ UNCHANGED calls
    /\ Sends(w)
    /\ UNCHANGED <<provider, truth, answers, slot>>

\* The request, and the service answers or fails.
Answer(w) ==
    /\ calls[w].pc \in {"ask", "unpaced"}
    /\ \E answer \in {truth[calls[w].query], Failed} :
           IF Stored(answer) /\ ~calls[w].direct
           THEN calls' = [calls EXCEPT ![w] = [@ EXCEPT !.pc = "store", !.answer = IF answer = Failed THEN Nowhere ELSE answer]]
           ELSE Returns(w, answer)
    /\ Sends(w)
    /\ UNCHANGED <<provider, truth, answers, slot>>

\* SET with the expiry of a result or of none; its failure is only logged.
StoreAnswer(w) ==
    /\ At(w, "store")
    /\ \/ answers' = [q \in DOMAIN answers \cup {calls[w].query} |->
                         IF q = calls[w].query THEN calls[w].answer ELSE answers[q]]
       \/ UNCHANGED answers
    /\ Returns(w, calls[w].answer)
    /\ UNCHANGED <<provider, truth, slot, burst>>

\* A second is over, or the life of an entry.
SlotExpires ==
    /\ slot /\ slot' = FALSE
    /\ burst' = IF burst = 0 THEN 0 ELSE burst - 1
    /\ UNCHANGED <<provider, truth, answers, calls>>

AnswerExpires(q) ==
    /\ q \in DOMAIN answers
    /\ answers' = [p \in DOMAIN answers \ {q} |-> answers[p]]
    /\ UNCHANGED <<provider, truth, slot, burst, calls>>

\* Google: any status but OK, a used-up quota among them, is no result.
QuotaUsedUp(w) ==
    /\ provider = "google" /\ At(w, "ask")
    /\ IF calls[w].direct THEN Returns(w, Nowhere)
       ELSE calls' = [calls EXCEPT ![w] = [@ EXCEPT !.pc = "store", !.answer = Nowhere]]
    /\ UNCHANGED <<provider, truth, answers, slot, burst>>

GeoNext ==
    \/ \E w \in Workers : TakeSlot(w) \/ SleepInstead(w) \/ SlotTimesOut(w)
                          \/ Answer(w) \/ StoreAnswer(w) \/ QuotaUsedUp(w)
    \/ SlotExpires
    \/ \E q \in Landmarks : AnswerExpires(q)

GeoTypeOK ==
    /\ DOMAIN answers \subseteq Landmarks
    /\ provider \in Providers
    /\ slot \in BOOLEAN /\ burst \in Nat
    /\ \A w \in Workers : calls[w] = NoCall \/
           /\ calls[w].pc \in {"slot", "ask", "unpaced", "store", "answered"}
           /\ calls[w].query \in Landmarks /\ calls[w].direct \in BOOLEAN

\* "Errors are not cached": an entry is what the service answered, so a landmark that
\* exists is not taken for unknown until the entry of a failed call expires.
OnlyAnswersCached == provider = "nominatim" => \A q \in DOMAIN answers : answers[q] = truth[q]

\* "At most 1 request per second, ... across all workers": what the slots come to.  In
\* no period, however long, are more requests sent for a slot than seconds of slots ran
\* out in it, and one for the slot that is set, and one for each worker that owned its
\* slot before and sends late.
RequestsKeepPace == burst <= Cardinality(Workers) + 1
=============================================================================
