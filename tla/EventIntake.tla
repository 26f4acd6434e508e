----------------------------- MODULE EventIntake -----------------------------
(***************************************************************************)
(* One event on its way into the tables: fetched from EONET with retries   *)
(* (ingestion/client.py) or posted by hand, stored as a raw, and then      *)
(* cleaned, validated, transformed and stored by a process call.           *)
(***************************************************************************)
EXTENDS EventNormalisation

CONSTANTS
    Payloads,    \* what upstream, or a client, may send
    RetryLimits  \* values of the setting EONET_MAX_RETRIES

ASSUME PayloadsAssumption == Payloads \subseteq PayloadType

ASSUME RetryLimitsAssumption == RetryLimits \subseteq Int

VARIABLES
    maxRetries,  \* the setting
    attempts,    \* requests sent to EONET
    response,    \* what the last one brought
    source,      \* who delivered the payload
    payload, work, phase

intakeVars == <<maxRetries, attempts, response, source, payload, work, phase>>

Phases == {"fetch", "received", "stored", "cleaned", "validated", "row",
           "skipped", "raised", "rejected", "upstream_error", "server_error"}

Transient == {"transport", "5xx"}

\* A 3xx is an error to raise_for_status, and as little retried as a 4xx.
Responses == Transient \cup {"none", "ok", "3xx", "4xx", "not_json"}

None == [held |-> "nothing"]

\* Types: what is in hand is a payload, then a cleaned event, then a row.
IntakeTypeOK ==
    /\ maxRetries \in RetryLimits
    /\ attempts \in Nat
    /\ response \in Responses
    /\ source \in {"nobody", "eonet", "client"}
    /\ payload = None \/ payload \in PayloadType
    /\ phase \in Phases
    /\ phase \in {"cleaned", "validated"} => work \in CleanedType
    /\ phase = "row" => work \in RowType

IntakeInit ==
    /\ maxRetries \in RetryLimits
    /\ attempts = 0
    /\ response = "none"
    /\ source = "nobody"
    /\ payload = None
    /\ work = None
    /\ phase = "fetch"

\* Mutant of Exhausted: the limit counts the retries after the first attempt.
ExhaustedLate == attempts > maxRetries

\* stop_after_attempt(max_retries), asked after an attempt has failed.
Exhausted == attempts + 1 >= maxRetries

\* Mutant of Retryable: every HTTP error status is tried again.
RetryableStatus(r) == r \in Transient \cup {"3xx", "4xx"}

\* _is_retryable: what _get raised is a transport error or a 5xx.
Retryable(r) == r \in Transient

\* _get under the retry decorator; the back-off in between changes nothing.
Attempt ==
    /\ phase = "fetch"
    /\ attempts' = attempts + 1
    /\ \/ /\ response' = "ok"
          /\ payload' \in Payloads
          /\ source' = "eonet"
          /\ phase' = "received"
       \/ /\ response' \in Transient \cup {"3xx", "4xx"}
          /\ phase' = IF Retryable(response') /\ ~Exhausted
                      THEN "fetch" ELSE "upstream_error"
          /\ UNCHANGED <<payload, source>>
       \/ /\ response' = "not_json"
          /\ phase' = "server_error"
          /\ UNCHANGED <<payload, source>>
    /\ UNCHANGED <<maxRetries, work>>

\* ingest_events: the envelope is validated and the event stored verbatim, if
\* its id fits raw_observations.external_id.
Ingest ==
    /\ phase = "received"
    /\ phase' = IF ~Ingestible(payload) THEN "rejected"
                ELSE IF payload.id = "long" THEN "server_error" ELSE "stored"
    /\ UNCHANGED <<maxRetries, attempts, response, source, payload, work>>

\* POST /raw-observations: the payload is any JSON object.
CreateRaw ==
    /\ phase = "fetch"
    /\ attempts = 0
    /\ payload' \in Payloads
    /\ source' = "client"
    /\ phase' = "stored"
    /\ UNCHANGED <<maxRetries, attempts, response, work>>

\* _process_one, first step.
CleanRaw ==
    /\ phase = "stored"
    /\ IF CleaningRaises(payload)
       THEN phase' = "raised" /\ UNCHANGED work
       ELSE phase' = "cleaned" /\ work' = Clean(payload)
    /\ UNCHANGED <<maxRetries, attempts, response, source, payload>>

\* A ValidationError becomes the DataValidationError that process_pending skips.
ValidateCleaned ==
    /\ phase = "cleaned"
    /\ phase' = IF ValidationRaises(work) THEN "raised"
                ELSE IF Validates(work) THEN "validated" ELSE "skipped"
    /\ UNCHANGED <<maxRetries, attempts, response, source, payload, work>>

\* Mutant of TransformAndStore: the columns have no length.
TransformAndStoreAny ==
    /\ phase = "validated"
    /\ IF TransformRaises(work)
       THEN phase' = "raised" /\ UNCHANGED work
       ELSE phase' = "row" /\ work' = Transform(work)
    /\ UNCHANGED <<maxRetries, attempts, response, source, payload>>

\* The transformation, and the upsert of its result.
TransformAndStore ==
    /\ phase = "validated"
    /\ IF TransformRaises(work) \/ ~Fits(Transform(work))
       THEN phase' = "raised" /\ UNCHANGED work
       ELSE phase' = "row" /\ work' = Transform(work)
    /\ UNCHANGED <<maxRetries, attempts, response, source, payload>>

IntakeNext ==
    Attempt \/ Ingest \/ CreateRaw \/ CleanRaw \/ ValidateCleaned \/ TransformAndStore

IntakeSpec == IntakeInit /\ [][IntakeNext]_intakeVars

-----------------------------------------------------------------------------
(* What holds, said of the payload as it was delivered. *)

\* The points of the payload that have two coordinates to show.
LocatedPoints == {g \in Elements(payload.geometry) : g.coords # "short"}

\* The row tells the most recent location of the event, the first category that
\* has a title, and whether it is over: cleaning and validation between the
\* capture and the row lose or reorder nothing of that.
RowIsFaithful ==
    phase = "row" =>
        /\ work.point \in LocatedPoints
        /\ \A g \in LocatedPoints : g.date.at <= work.point.date.at
        /\ \E i \in 1..Len(payload.categories) :
              /\ payload.categories[i] \notin {"absent", "empty"}
              /\ \A j \in 1..(i - 1) : payload.categories[j] \in {"absent", "empty"}
              /\ work.category = "" <=> payload.categories[i] = "blank"
        /\ work.is_open <=> payload.closed = "null"

\* A payload that is what the domain asks of an event.
Fit == /\ {payload.id, payload.title} \cap {"absent", "blank"} = {}
       /\ ~(Elements(payload.categories) \subseteq {"absent", "empty"})
       /\ LocatedPoints # {}
       /\ \A g \in LocatedPoints : g.date.zone # "none" /\ g.coords = "in"
       /\ payload.closed # "junk"

\* A payload with an element of the wrong type, which no step looks for.
Broken == \/ "broken" \in Elements(payload.categories)
          \/ \E g \in Elements(payload.geometry) : g.coords = "broken"

\* Dates that do not compare, among the points that are left to compare.
MixedZones == \E g, h \in LocatedPoints : g.date.zone # h.date.zone

\* A text that has a column, and does not fit it.
TooLong ==
    \/ "long" \in {payload.id, payload.title}
    \/ \E i \in 1..Len(payload.categories) :
          /\ payload.categories[i] = "long"
          /\ \A j \in 1..(i - 1) : payload.categories[j] \in {"absent", "empty"}

\* "out-of-range coordinates" and the other domain invariants decide, not the
\* order of the checks: a row comes only of a payload all of whose located
\* points are dated and on the Earth, and a capture is skipped for good reason.
SkippedOnlyIfUnfit ==
    /\ phase = "skipped" => ~Fit
    /\ phase = "row" => Fit

\* What aborts a batch, of captures from anyone: an element of the wrong type,
\* or what only an otherwise fit event gets as far as, dates that do not compare
\* or a text longer than its column.  In particular no point that is too short
\* reaches validate_coordinates, and nothing of the kind becomes a row.
RaisesForAReason ==
    /\ phase = "raised" => Broken \/ (Fit /\ (MixedZones \/ TooLong))
    /\ phase \in {"skipped", "row"} => ~Broken
    /\ phase = "row" => ~MixedZones /\ ~TooLong

\* The two schemas agree: an event of an accepted EONET answer, whose dates
\* have time zones and whose titles fit, is stored or skipped, and never raises
\* what would abort the batch.
EonetEventsSurvive ==
    source = "eonet" /\ phase = "raised" =>
        \/ \E g \in Elements(payload.geometry) : g.date.zone = "naive"
        \/ payload.title = "long"
        \/ "long" \in Elements(payload.categories)

\* The client never asks again after an answer that is final, asks at most
\* maxRetries times (at least once), and does not give up on a transport error
\* or a 5xx before that.
GivesUpWhenExhausted ==
    /\ phase = "fetch" => response \in {"none", "transport", "5xx"}
    /\ attempts <= 1 \/ attempts <= maxRetries
    /\ phase = "upstream_error" /\ response \in {"transport", "5xx"} =>
          attempts = IF maxRetries < 1 THEN 1 ELSE maxRetries

(* What the documentation says and the code does not do. *)

\* clean_event_payload "drops keys with None/empty values": no cleaned event
\* holds a category without a title, or a text that stands for a null.
EmptyValuesAreDropped ==
    phase = "validated" =>
        /\ "" \notin Elements(work.categories)
        /\ "None" \notin {work.id, work.title}

=============================================================================
