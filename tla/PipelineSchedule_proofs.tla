---------------------- MODULE PipelineSchedule_proofs -----------------------
(***************************************************************************)
(* Whatever is captured and in whatever order the batches come, the        *)
(* scheduled calls are operations of ObservationTables, and each row shows *)
(* the capture that it points at, but for a source that may be older.      *)
(***************************************************************************)
EXTENDS PipelineSchedule, ObservationTables_proofs

\* The rows of the seeds are rows that the pipeline wrote: POST and PATCH of
\* processed rows, which may say anything, are no calls of the scheduler.
SeedsShowTheirRaws ==
    \A s \in Seeds : \A x \in s.proc : /\ Capture[x.raw].key = x.key
                                       /\ Capture[x.raw].cols = x.cols
                                       /\ Capture[x.raw].source = x.source

\* The inductive invariant: the integrity of the tables, with what has been
\* processed among what is stored.
ScheduleInv == TablesInv /\ handled \subseteq raws /\ parity \in {0, 1}

\* The row that a batch leaves for a raw holds the raw's columns, and the source
\* of the row that was there or, if none was, the one credited.
LEMMA ProcessedShows ==
    ASSUME TypeOK, NEW r \in RawIds, NEW i \in RowIds, NEW credit,
           NEW y \in Processed(r, i, credit)
    PROVE  /\ y.cols = Capture[r].cols
           /\ \/ y.source = credit[Capture[r].key]
              \/ \E x \in proc : x.key = Capture[r].key /\ x.source = y.source
<1>1. CASE WithKey(proc, Capture[r].key) = {}
  BY <1>1 DEF Processed, NewRow
<1>2. CASE WithKey(proc, Capture[r].key) # {}
  <2>1. PICK x \in WithKey(proc, Capture[r].key) : y = Overwrite(x, r)
    BY <1>2 DEF Processed
  <2>2. x \in Row
    BY DEF WithKey, TypeOK
  <2>3. x \in proc /\ x.key = Capture[r].key
    BY DEF WithKey
  <2> QED BY <2>1, <2>2, <2>3 DEF Overwrite, Row
<1> QED BY <1>1, <1>2

\* A call of the scheduler is one operation on the tables, or changes neither.
LEMMA CallImplements ==
    ASSUME ScheduleInv, [ScheduleNext]_scheduleVars
    PROVE  [Next]_vars
<1>1. CASE Ingest \/ CreateRaw
  <2>1. PICK S \in SUBSET RawIds : AddRaws(S)
    BY <1>1 DEF Ingest, CreateRaw
  <2> QED BY <2>1 DEF Next
<1>2. CASE Process
  <2>1. PICK B \in SUBSET raws : ProcessBatchOf(B)
    BY <1>2 DEF Process
  <2>2. CASE Aborts(B)
    BY <2>1, <2>2 DEF ProcessBatchOf, vars
  <2>3. CASE ~Aborts(B)
    <3>1. PICK W \in Lasts(OfKind(B, "valid")), i \in RowIds, credit \in [Keys -> Sources] :
             ProcessBatch(W, i, credit)
      BY <2>1, <2>3 DEF ProcessBatchOf
    <3>2. W \in SUBSET raws
      BY <3>1 DEF ProcessBatch
    <3> QED BY <3>1, <3>2 DEF Next
  <2> QED BY <2>2, <2>3
<1>3. CASE UNCHANGED scheduleVars
  BY <1>3 DEF scheduleVars, vars
<1> QED BY <1>1, <1>2, <1>3 DEF ScheduleNext

\* A call keeps the invariant.
LEMMA CallKeeps == ScheduleInv /\ [ScheduleNext]_scheduleVars => ScheduleInv'
<1> SUFFICES ASSUME ScheduleInv, [ScheduleNext]_scheduleVars
             PROVE  ScheduleInv'
  OBVIOUS
<1>1. TablesInv'
  BY CallImplements, TablesStep DEF ScheduleInv
<1>2. CASE Ingest \/ CreateRaw
  BY <1>1, <1>2 DEF Ingest, CreateRaw, AddRaws, ScheduleInv
<1>3. CASE Process
  <2>1. PICK B \in SUBSET raws : ProcessBatchOf(B)
    BY <1>3 DEF Process
  <2>2. raws' = raws /\ handled' \subseteq handled \cup B
    BY <2>1 DEF ProcessBatchOf, ProcessBatch, OfKind
  <2>3. parity' \in {0, 1}
    BY <2>1 DEF ProcessBatchOf, ScheduleInv
  <2> QED BY <1>1, <2>2, <2>3 DEF ScheduleInv
<1>4. CASE UNCHANGED scheduleVars
  BY <1>1, <1>4 DEF scheduleVars, ScheduleInv
<1> QED BY <1>2, <1>3, <1>4 DEF ScheduleNext

\* The tables that the scheduler starts from have it.
LEMMA ScheduleStartsSound == ScheduleInit => ScheduleInv
  BY SeedsAssumption DEF ScheduleInit, Init, ScheduleInv, TablesInv, TypeOK,
                         UniqueKey, ReferentialIntegrity

\* The tables stay sound, and only what is stored has been processed.
THEOREM ScheduleInvariant == ScheduleSpec => []ScheduleInv
  BY ScheduleStartsSound, CallKeeps, PTL DEF ScheduleSpec

\* Types of the tables and of the scheduler's history.
THEOREM ScheduleTyping == ScheduleSpec => []ScheduleTypeOK
<1>1. ScheduleInv => ScheduleTypeOK
  BY DEF ScheduleInv, TablesInv, ScheduleTypeOK
<1> QED BY <1>1, ScheduleInvariant, PTL

\* The scheduler's calls keep every promise of the tables: what ObservationTables
\* says of any history of requests holds of the pipeline's.
THEOREM ScheduleImplementsTables == ScheduleSpec => Spec
<1>1. ScheduleInit => Init
  BY DEF ScheduleInit
<1>2. ScheduleInv /\ [ScheduleNext]_scheduleVars => [Next]_vars
  BY CallImplements
<1> QED BY <1>1, <1>2, ScheduleInvariant, PTL DEF ScheduleSpec, Spec

-----------------------------------------------------------------------------

\* A call leaves each row showing the capture that it points at.
LEMMA CallShows ==
    ASSUME ScheduleInv, RowShowsItsRaw, [ScheduleNext]_scheduleVars
    PROVE  RowShowsItsRaw'
<1>1. CASE UNCHANGED proc /\ handled \subseteq handled'
  BY <1>1 DEF RowShowsItsRaw
<1>2. CASE Ingest \/ CreateRaw
  BY <1>1, <1>2 DEF Ingest, CreateRaw, AddRaws
<1>3. CASE Process
  <2>1. PICK B \in SUBSET raws : ProcessBatchOf(B)
    BY <1>3 DEF Process
  <2>2. CASE Aborts(B)
    BY <1>1, <2>1, <2>2 DEF ProcessBatchOf
  <2>3. CASE ~Aborts(B)
    <3>1. PICK W \in Lasts(OfKind(B, "valid")), i \in RowIds, credit \in [Keys -> Sources] :
             /\ Credited(OfKind(B, "valid"), W, credit)
             /\ ProcessBatch(W, i, credit)
      BY <2>1, <2>3 DEF ProcessBatchOf
    <3>2. handled' = handled \cup OfKind(B, "valid")
      BY <2>1, <2>3 DEF ProcessBatchOf
    <3>3. W \subseteq handled' /\ W \subseteq RawIds
      BY <3>1, <3>2 DEF Lasts, ProcessBatch, ScheduleInv, TablesInv, TypeOK
    <3>4. \A y \in proc' : y \in proc \/ \E r \in W : y \in Processed(r, i, credit)
      BY <3>1 DEF ProcessBatch
    <3>5. ASSUME NEW r \in W, NEW y \in Processed(r, i, credit)
          PROVE  /\ Capture[y.raw].key = y.key
                 /\ Capture[y.raw].cols = y.cols
                 /\ y.raw \in handled'
                 /\ \E c \in handled' : /\ Capture[c].key = y.key
                                       /\ Capture[c].source = y.source
      <4>1. y.key = Capture[r].key /\ y.raw = r
        BY <3>3, <3>5, ProcessedIsRow DEF ScheduleInv, TablesInv
      <4>2. /\ y.cols = Capture[r].cols
            /\ \/ y.source = credit[Capture[r].key]
               \/ \E x \in proc : x.key = Capture[r].key /\ x.source = y.source
        BY <3>3, <3>5, ProcessedShows DEF ScheduleInv, TablesInv
      <4>3. CASE y.source = credit[Capture[r].key]
        <5>1. PICK first \in OfKind(B, "valid") :
                 /\ Capture[first].key = Capture[r].key
                 /\ credit[Capture[r].key] = Capture[first].source
          BY <3>1 DEF Credited
        <5> QED BY <3>2, <3>3, <4>1, <4>2, <4>3, <5>1
      <4>4. CASE \E x \in proc : x.key = Capture[r].key /\ x.source = y.source
        BY <3>2, <3>3, <4>1, <4>2, <4>4 DEF RowShowsItsRaw
      <4> QED BY <4>2, <4>3, <4>4
    <3> QED BY <3>2, <3>4, <3>5 DEF RowShowsItsRaw
  <2> QED BY <2>2, <2>3
<1>4. CASE UNCHANGED scheduleVars
  BY <1>1, <1>4 DEF scheduleVars
<1> QED BY <1>2, <1>3, <1>4 DEF ScheduleNext

\* However often an event is captured and processed again, its row shows no
\* mixture of two captures in what the upsert sets, and a source that was one of
\* the event's: `source` stays that of the capture that made the row.
THEOREM ScheduleShowsRaws == SeedsShowTheirRaws /\ ScheduleSpec => []RowShowsItsRaw
<1>1. SeedsShowTheirRaws /\ ScheduleInit => RowShowsItsRaw
  BY DEF SeedsShowTheirRaws, ScheduleInit, Init, RowShowsItsRaw
<1>2. ScheduleInv /\ RowShowsItsRaw /\ [ScheduleNext]_scheduleVars => RowShowsItsRaw'
  BY CallShows
<1> QED BY <1>1, <1>2, ScheduleInvariant, PTL DEF ScheduleSpec

=============================================================================
