-------------------------- MODULE PipelineSchedule ---------------------------
(***************************************************************************)
(* The pipeline as its operator runs it: a scheduler outside the platform  *)
(* calls POST /pipeline/ingest and POST /pipeline/process one at a time.   *)
(* Each call is one atomic step on the tables (what ObservationTables      *)
(* promises), so this module is about what a long series of calls does:    *)
(* which raws a call selects, which events get a row, and whether the      *)
(* backlog drains.                                                         *)
(***************************************************************************)
EXTENDS ObservationTables

CONSTANT Limit  \* the `limit` of the process calls

ASSUME LimitAssumption == Limit \in Nat \ {0}

VARIABLES
    handled,  \* history: the raws that some call has upserted and committed
    parity    \* of the number of process calls: a call that changes no table
              \* is a step too, or fairness would only count useful calls

scheduleVars == <<raws, proc, handled, parity>>

ScheduleTypeOK == TypeOK /\ handled \subseteq raws /\ parity \in {0, 1}

ScheduleInit == Init /\ handled = {x.raw : x \in proc} /\ parity = 0

\* ingest_events: the raws of one EONET answer.  The same event comes back in
\* later answers, as a new raw each time.
Ingest ==
    /\ \E S \in SUBSET (RawIds \ raws) :
          /\ \A r \in S : Capture[r].source = SourceName
          /\ \A r, s \in S : Capture[r].key = Capture[s].key => r = s
          /\ AddRaws(S)
    /\ UNCHANGED <<handled, parity>>

\* POST /raw-observations: a capture by hand, from any source ("backfill").
CreateRaw ==
    /\ \E r \in RawIds \ raws : AddRaws({r})
    /\ UNCHANGED <<handled, parity>>

\* list_unprocessed: LIMIT without ORDER BY, so any such batch.
Listed(B) ==
    /\ B \subseteq Pending(raws, proc)
    /\ \/ Cardinality(B) = Limit
       \/ Cardinality(B) < Limit /\ B = Pending(raws, proc)

OfKind(B, kind) == {r \in B : Capture[r].kind = kind}

\* The raws of B that the loop can leave shown: of those of one event the last
\* upserted, in an order nobody fixes.
Lasts(B) ==
    {W \in SUBSET B : /\ \A r, s \in W : Capture[r].key = Capture[s].key => r = s
                      /\ {Capture[r].key : r \in W} = {Capture[r].key : r \in B}}

\* The source of the first raw of each event; it is not the last unless alone.
Credited(B, W, credit) ==
    \A r \in W : \E first \in B :
        /\ Capture[first].key = Capture[r].key
        /\ credit[Capture[r].key] = Capture[first].source
        /\ first = r => \A s \in B : Capture[s].key = Capture[r].key => s = r

\* Mutant of Aborts: DataValidationError leaves the loop as well.
AbortsOnSkipped(B) == \E r \in B : Capture[r].kind # "valid"

\* An exception other than DataValidationError leaves the loop.
Aborts(B) == \E r \in B : Capture[r].kind = "poison"

\* process_pending over the batch B; an abort rolls back what it has done.
ProcessBatchOf(B) ==
    /\ Listed(B)
    /\ IF Aborts(B)
       THEN UNCHANGED <<raws, proc, handled>>
       ELSE /\ \E W \in Lasts(OfKind(B, "valid")), i \in RowIds,
                  credit \in [Keys -> Sources] :
                    /\ Credited(OfKind(B, "valid"), W, credit)
                    /\ ProcessBatch(W, i, credit)
            /\ handled' = handled \cup OfKind(B, "valid")
    /\ parity' = 1 - parity

Process == \E B \in SUBSET raws : ProcessBatchOf(B)

ScheduleNext == Ingest \/ CreateRaw \/ Process

\* The scheduler keeps calling process; nobody owes further events.
ScheduleSpec ==
    ScheduleInit /\ [][ScheduleNext]_scheduleVars /\ WF_scheduleVars(Process)

-----------------------------------------------------------------------------
(* What holds. *)

\* All that a row shows of its event comes from the one capture it points at,
\* even after the event has been captured and processed again, but for `source`,
\* which the upsert does not set: that is of a capture of the same event, this
\* one or an earlier one.
RowShowsItsRaw ==
    \A x \in proc : /\ Capture[x.raw].key = x.key
                    /\ Capture[x.raw].cols = x.cols
                    /\ x.raw \in handled
                    /\ \E r \in handled : /\ Capture[r].key = x.key
                                          /\ Capture[r].source = x.source

\* With a limit that covers the backlog and no poison, every captured event
\* that is valid gets its row.
EventsGetShown ==
    \A r \in OfKind(RawIds, "valid") :
        r \in raws ~> \E x \in proc : x.key = Capture[r].key

(* What the documentation says and the code does not do.  EventsGetShown is *)
(* violated too, when the limit is smaller than the number of raws that     *)
(* never validate: they stay listed, and nothing orders them last.          *)

\* upsert: "reprocessing the same upstream event is idempotent": a call that
\* only finds what was processed before leaves the rows as they are.
ReprocessingIsIdempotent ==
    [][\A B \in SUBSET handled : ProcessBatchOf(B) => UNCHANGED proc]_scheduleVars

\* process_pending: "one bad record does not abort processing of the remaining
\* batch": a call gives a row to the event of every valid raw that it listed.
BadRecordsDoNotAbort ==
    [][\A B \in SUBSET raws : ProcessBatchOf(B) =>
          \A r \in OfKind(B, "valid") : \E x \in proc' : x.key = Capture[r].key]_scheduleVars

=============================================================================
