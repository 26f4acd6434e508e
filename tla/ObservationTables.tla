------------------------- MODULE ObservationTables --------------------------
(***************************************************************************)
(* What the platform promises of its two tables: every request changes     *)
(* them in one atomic step, or not at all.  RequestTransactions (requests  *)
(* as interleaved database transactions) implements this specification;    *)
(* PipelineSchedule (the scheduled calls) is built from its actions.       *)
(***************************************************************************)
EXTENDS Observations

VARIABLES
    raws,  \* the raw ids stored
    proc   \* the processed rows stored

vars == <<raws, proc>>

\* A row is a record of typed columns, and a row's raw is a raw id.
TypeOK == raws \subseteq RawIds /\ proc \subseteq Row

\* Unique index on processed_observations.external_id: one row per event.
UniqueKey == UniqueKeys(proc)

\* Foreign key with ON DELETE CASCADE: a processed row's raw is stored.
ReferentialIntegrity == \A x \in proc : x.raw \in raws

Init == \E s \in Seeds : raws = s.raws /\ proc = s.proc

-----------------------------------------------------------------------------

\* POST /pipeline/ingest and POST /raw-observations.
AddRaws(S) ==
    /\ S \cap raws = {}
    /\ raws' = raws \cup S
    /\ UNCHANGED proc

\* DELETE /raw-observations/{id}, with the cascade.
RemoveRaw(r) ==
    /\ r \in raws
    /\ raws' = raws \ {r}
    /\ proc' = {x \in proc : x.raw # r}

SourcesOf(k) == {Capture[r].source : r \in {o \in RawIds : Capture[o].key = k}}

\* The row that a batch leaves for the key of raw r: the existing row, now
\* showing r, or a new one.  credit[k] is the source of the first capture of k
\* in the batch: a later capture in the same batch overwrites all but that.
Processed(r, i, credit) ==
    LET k == Capture[r].key
    IN  IF WithKey(proc, k) = {}
        THEN {[NewRow(r, i) EXCEPT !.source = credit[k]]}
        ELSE {Overwrite(x, r) : x \in WithKey(proc, k)}

\* POST /pipeline/process: W are the raws that ended up shown, one per key.
ProcessBatch(W, i, credit) ==
    /\ W \subseteq raws
    /\ \A r \in W : Capture[r].kind = "valid"
    /\ \A r, s \in W : Capture[r].key = Capture[s].key => r = s
    /\ \A r \in W : credit[Capture[r].key] \in SourcesOf(Capture[r].key)
    /\ proc' = {x \in proc : \A r \in W : Capture[r].key # x.key}
                 \cup UNION {Processed(r, i, credit) : r \in W}
    /\ UNCHANGED raws

\* POST /processed-observations.
CreateRow(post, i) ==
    /\ post.raw \in raws
    /\ WithKey(proc, post.key) = {}
    /\ proc' = proc \cup {PostedRow(post, i)}
    /\ UNCHANGED raws

\* PATCH /processed-observations/{id}: the columns of C are what differed from
\* the row the handler had read.
PatchRow(x, p, C) ==
    /\ proc' = (proc \ {x}) \cup {ApplyPatch(x, p, C)}
    /\ UNCHANGED raws

\* DELETE /processed-observations/{id}.
RemoveRow(x) ==
    /\ proc' = proc \ {x}
    /\ UNCHANGED raws

Next ==
    \/ \E S \in SUBSET RawIds : AddRaws(S)
    \/ \E r \in RawIds : RemoveRaw(r)
    \/ \E W \in SUBSET raws, i \in RowIds, credit \in [Keys -> Sources] :
          ProcessBatch(W, i, credit)
    \/ \E post \in Posts, i \in RowIds : CreateRow(post, i)
    \/ \E x \in proc, p \in Patches : \E C \in SUBSET DOMAIN p : PatchRow(x, p, C)
    \/ \E x \in proc : RemoveRow(x)

Spec == Init /\ [][Next]_vars

-----------------------------------------------------------------------------

\* "an existing row keeps its original identity": whatever happens to an event
\* that has a row before and after a step, the row's id and source stay.
KeepsIdentity ==
    \A x \in proc, y \in proc' : x.key = y.key => x.id = y.id /\ x.source = y.source

IdentityKept == [][KeepsIdentity]_vars

=============================================================================
