---------------------------- MODULE Observations ----------------------------
(***************************************************************************)
(* The two tables of the platform and the row-level operations that every  *)
(* other module is built from: raw captures (`raw_observations`) and the   *)
(* processed rows derived from them (`processed_observations`).            *)
(*                                                                         *)
(* A capture is immutable once stored, so a constant function says what    *)
(* each raw id would contain; the table of raws is the set of ids present. *)
(* A processed row is a record.  Its primary key is <<key, id>>: `id`      *)
(* names the request whose uuid4 was stored when the row was inserted.     *)
(***************************************************************************)
EXTENDS Integers, FiniteSets

CONSTANTS
    RawIds,   \* primary keys of raw observations
    RowIds,   \* who inserted a processed row (its uuid, up to the key)
    Keys,     \* upstream event ids: `external_id`, the unique index
    Sources,  \* `source` of a capture: "eonet" or what a client posted
    Columns,  \* the columns an upsert and a PATCH may change
    Values,   \* what such a column may hold
    Capture,  \* what each raw id contains
    Patches,  \* bodies of PATCH requests: values for some of the Columns
    Posts,    \* bodies of POST /processed-observations
    Seeds     \* the databases that a history may start from

Contents == [Columns -> Values]

\* What processing makes of a payload: "valid" becomes a row, "invalid" is
\* skipped (DataValidationError), "poison" raises any other exception.
CaptureType ==
    [key : Keys, source : Sources, cols : Contents,
     kind : {"valid", "invalid", "poison"}]

PatchType == UNION {[C -> Values] : C \in SUBSET Columns}

PostType == [key : Keys, raw : RawIds, source : Sources, cols : Contents]

Row == [key : Keys, id : RowIds, raw : RawIds, source : Sources,
        cols : Contents]

\* What the ingestion service records as the source of what it fetches.
SourceName == "eonet"

ASSUME CaptureAssumption == Capture \in [RawIds -> CaptureType]

ASSUME PatchesAssumption == Patches \subseteq PatchType

ASSUME PostsAssumption == Posts \subseteq PostType

-----------------------------------------------------------------------------

\* RawObservationRepository.list_unprocessed, before its LIMIT: the outer
\* join keeps a raw that no processed row points at.
Pending(raws, proc) == {r \in raws : \A x \in proc : x.raw # r}

WithKey(rows, k) == {x \in rows : x.key = k}

SameRow(x, y) == x.key = y.key /\ x.id = y.id

\* The row that processing raw r inserts under the id of request i.
NewRow(r, i) ==
    [key |-> Capture[r].key, id |-> i, raw |-> r,
     source |-> Capture[r].source, cols |-> Capture[r].cols]

\* Mutant of Overwrite: the row is made to point at the upstream event's id.
OverwriteWithEventId(x, r) ==
    [x EXCEPT !.raw = Capture[r].key, !.cols = Capture[r].cols]

\* Mutant of Overwrite: raw_observation_id is missing from `set_`.
OverwriteKeepingRaw(x, r) == [x EXCEPT !.cols = Capture[r].cols]

\* Mutant of Overwrite: source is in `set_` too.
OverwriteWithSource(x, r) ==
    [x EXCEPT !.raw = r, !.source = Capture[r].source, !.cols = Capture[r].cols]

\* The conflict branch of the upsert: `source` and `id` are not in `set_`.
Overwrite(x, r) == [x EXCEPT !.raw = r, !.cols = Capture[r].cols]

\* Mutant of Upserted: ON CONFLICT DO NOTHING.
UpsertedUnlessThere(rows, r, i) ==
    LET old == WithKey(rows, Capture[r].key)
    IN  IF old = {} THEN {NewRow(r, i)} ELSE old

\* Mutant of Upserted: the old row is deleted and a new one inserted.
UpsertedAnew(rows, r, i) == {NewRow(r, i)}

\* The version(s) of the row that INSERT ... ON CONFLICT (external_id) leaves,
\* given the rows that the statement sees.
Upserted(rows, r, i) ==
    LET old == WithKey(rows, Capture[r].key)
    IN  IF old = {} THEN {NewRow(r, i)} ELSE {Overwrite(x, r) : x \in old}

\* UPDATE ... SET the columns of C to what patch p asks.
ApplyPatch(x, p, C) ==
    [x EXCEPT !.cols = [c \in Columns |-> IF c \in C THEN p[c] ELSE x.cols[c]]]

PostedRow(post, i) ==
    [key |-> post.key, id |-> i, raw |-> post.raw, source |-> post.source,
     cols |-> post.cols]

\* Two rows never share an external id.
UniqueKeys(rows) == \A x, y \in rows : x.key = y.key => x = y

ASSUME SeedsAssumption ==
    \A s \in Seeds : /\ s.raws \subseteq RawIds
                     /\ s.proc \subseteq Row
                     /\ UniqueKeys(s.proc)
                     /\ \A x \in s.proc : x.raw \in s.raws

=============================================================================
