------------------------ MODULE RequestTransactions -------------------------
(***************************************************************************)
(* The HTTP requests that write, served concurrently, each in the database *)
(* transaction of its own session (core/di.py, get_db_session) at          *)
(* PostgreSQL's default READ COMMITTED.  One action is one awaited         *)
(* statement of the handler, so any other request may run in between.      *)
(* A request is served at most once; the database is what it has committed *)
(* (raws, proc) plus, per open transaction, the row versions it has        *)
(* written and the locks it holds until it ends.                           *)
(***************************************************************************)
EXTENDS Observations

CONSTANTS
    Requests,    \* the requests of a history
    Kinds,       \* Kinds[q]: what request q may turn out to be
    Stock,       \* Stock[q]: the raw ids q would assign to what it captures
    Limits,      \* the `limit` a process request may carry
    AnswerFirst  \* TRUE: the response is sent before the session's exit code
                 \* commits (FastAPI >= 0.118); FALSE: after it

AllKinds == {"ingest", "create_raw", "process", "delete_raw",
             "create", "patch", "delete"}

ASSUME RequestsAssumption ==
    /\ Requests \subseteq RowIds
    /\ IsFiniteSet(Requests)
    /\ Kinds \in [Requests -> SUBSET AllKinds]

ASSUME StockAssumption == Stock \in [Requests -> SUBSET RawIds]

\* The id of a new raw is a uuid4: no other request's, and of no stored raw.
ASSUME FreshStockAssumption ==
    /\ \A p, q \in Requests : p # q => Stock[p] \cap Stock[q] = {}
    /\ \A s \in Seeds, q \in Requests : s.raws \cap Stock[q] = {}

ASSUME LimitsAssumption == Limits \subseteq Nat

ASSUME AnswerFirstAssumption == AnswerFirst \in BOOLEAN

VARIABLES
    raws, proc,  \* the committed tables
    req,         \* req[q]: what the handler of q holds, and where it is
    tx           \* tx[q]: q's open transaction

vars == <<raws, proc, req, tx>>

\* What the requests come to: the same two tables, changed by whole requests.
Tables == INSTANCE ObservationTables WITH raws <- raws, proc <- proc

\* The first statement of each kind of request (that of "create" is "insert").
FirstStep == [ingest |-> "fetch", create_raw |-> "post_raw", process |-> "list",
              delete_raw |-> "get_raw", patch |-> "get_row",
              delete |-> "get_row"]

Steps == {"idle", "fetch", "post_raw", "list", "next", "upsert", "check",
          "get_raw", "delete_raw", "cascade", "insert", "get_row", "flush",
          "refresh", "delete", "handled", "committed", "aborted"}

Over == {"idle", "committed", "aborted"}

\* batch: the raws listed; done: those the loop is past; cur: the raw in hand;
\* seen: the row loaded, or to be inserted; asked: the body of a PATCH.
ReqType == [kind : AllKinds, step : Steps,
            ans : {"none", "ok", "error", "lost"},
            batch : SUBSET RawIds, done : SUBSET RawIds, cur : SUBSET RawIds,
            seen : SUBSET Row, asked : PatchType]

\* ins, del: raws inserted, deleted; shared: raws locked FOR KEY SHARE by a
\* foreign-key check; old: committed row versions superseded; fresh: the new.
TxType == [ins : SUBSET RawIds, del : SUBSET RawIds, shared : SUBSET RawIds,
           old : SUBSET Row, fresh : SUBSET Row]

TypeOK == /\ raws \subseteq RawIds
          /\ proc \subseteq Row
          /\ req \in [Requests -> ReqType]
          /\ tx \in [Requests -> TxType]

NoTx == [ins |-> {}, del |-> {}, shared |-> {}, old |-> {}, fresh |-> {}]

NoPatch == [c \in {} |-> c]

\* What a handler holds when it has just entered step s.
Fresh(kind, s, ans) ==
    [kind |-> kind, step |-> s, ans |-> ans, batch |-> {}, done |-> {},
     cur |-> {}, seen |-> {}, asked |-> NoPatch]

Init ==
    /\ \E s \in Seeds : raws = s.raws /\ proc = s.proc
    /\ req \in [Requests -> {Fresh(k, "idle", "none") : k \in AllKinds}]
    /\ \A q \in Requests : req[q].kind \in Kinds[q]
    /\ tx = [q \in Requests |-> NoTx]

-----------------------------------------------------------------------------
(* What a transaction sees, what it waits for, how it ends. *)

\* READ COMMITTED: the rows committed by now, under one's own writes.
View(q) == (proc \ tx[q].old) \cup tx[q].fresh

\* The keys whose row version q has locked or whose index entry it has made.
Written(q) == {x.key : x \in tx[q].old \cup tx[q].fresh}

\* The columns of a PATCH whose value differs from the row that was loaded:
\* the ones SQLAlchemy's unit of work puts in the UPDATE.
Changed(x, p) == {c \in DOMAIN p : p[c] # x.cols[c]}

\* What a statement of q on row x finds.
Current(q, x) == {y \in View(q) : SameRow(x, y)}

\* The statement that q is at has to wait for the transaction of p to end.
Blocks(p, q) ==
    /\ p # q
    /\ \/ /\ req[q].step = "upsert"
          /\ \E r \in req[q].cur : Capture[r].key \in Written(p)
       \/ /\ req[q].step = "insert"
          /\ \E x \in req[q].seen : x.key \in Written(p)
       \/ /\ req[q].step = "flush"
          /\ \E x \in req[q].seen : /\ Changed(x, req[q].asked) # {}
                                    /\ Current(q, x) \cap tx[p].old # {}
       \/ /\ req[q].step = "delete"
          /\ \E x \in req[q].seen : Current(q, x) \cap tx[p].old # {}
       \/ /\ req[q].step = "check"
          /\ req[q].cur \cap tx[p].del # {}
       \/ /\ req[q].step = "delete_raw"
          /\ req[q].cur \cap (tx[p].del \cup tx[p].shared) # {}
       \/ /\ req[q].step = "cascade"
          /\ \E x \in tx[p].old : x.raw \in tx[q].del

At(q, s) == req[q].step = s

\* A statement of q that needs a lock, granted.
Granted(q, s) == At(q, s) /\ \A p \in Requests : ~Blocks(p, q)

Goto(q, s) == req' = [req EXCEPT ![q].step = s]

\* The session is rolled back; the exception goes on to the error response.
Abort(q) ==
    /\ req' = [req EXCEPT ![q] = Fresh(req[q].kind, "aborted", req[q].ans)]
    /\ tx' = [tx EXCEPT ![q] = NoTx]
    /\ UNCHANGED <<raws, proc>>

\* q supersedes the versions `rows` that it sees by the versions `new`.
Write(q, rows, new) ==
    tx' = [tx EXCEPT ![q].old = @ \cup (rows \cap proc),
                     ![q].fresh = (@ \ rows) \cup new]

Start(q) ==
    /\ At(q, "idle")
    /\ \/ req[q].kind # "create" /\ Goto(q, FirstStep[req[q].kind])
       \/ /\ req[q].kind = "create"
          /\ \E post \in Posts :
                req' = [req EXCEPT ![q].step = "insert",
                                   ![q].seen = {PostedRow(post, q)}]
    /\ UNCHANGED <<raws, proc, tx>>

-----------------------------------------------------------------------------
(* POST /pipeline/ingest and POST /raw-observations. *)

\* EONET fails past the retries, or answers what does not validate or parse.
FetchFails(q) == At(q, "fetch") /\ Abort(q)

Insert(q, S) ==
    /\ Goto(q, "handled")
    /\ tx' = [tx EXCEPT ![q].ins = S]
    /\ UNCHANGED <<raws, proc>>

\* ingest_events: one flush for all the events of the answer, which may be none.
BulkAdd(q) ==
    /\ At(q, "fetch")
    /\ \E S \in SUBSET {r \in Stock[q] : Capture[r].source = SourceName} : Insert(q, S)

CreateRaw(q) == At(q, "post_raw") /\ \E r \in Stock[q] : Insert(q, {r})

(* POST /pipeline/process. *)

\* LIMIT without ORDER BY: any `limit` of the pending raws.
ListUnprocessed(q) ==
    /\ At(q, "list")
    /\ \E B \in SUBSET Pending(raws, proc), limit \in Limits :
          /\ \/ Cardinality(B) = limit
             \/ Cardinality(B) < limit /\ B = Pending(raws, proc)
          /\ req' = [req EXCEPT ![q].step = "next", ![q].batch = B]
    /\ UNCHANGED <<raws, proc, tx>>

\* Mutant of NextRecord: a skipped record stays at the head of the batch.
NextRecordAgain(q) ==
    /\ At(q, "next")
    /\ \E r \in req[q].batch \ req[q].done :
          /\ req' = IF Capture[r].kind = "valid"
                    THEN [req EXCEPT ![q].step = "upsert", ![q].cur = {r},
                                     ![q].done = @ \cup {r}]
                    ELSE req
          /\ UNCHANGED <<raws, proc, tx>>

\* The next record of the loop: cleaned, validated and transformed in memory,
\* skipped when it is invalid; an exception of any other kind leaves the loop.
NextRecord(q) ==
    /\ At(q, "next")
    /\ \E r \in req[q].batch \ req[q].done :
          \/ /\ Capture[r].kind = "valid"
             /\ req' = [req EXCEPT ![q].step = "upsert", ![q].cur = {r},
                                   ![q].done = @ \cup {r}]
             /\ UNCHANGED <<raws, proc, tx>>
          \/ /\ Capture[r].kind = "invalid"
             /\ req' = [req EXCEPT ![q].done = @ \cup {r}]
             /\ UNCHANGED <<raws, proc, tx>>
          \/ /\ Capture[r].kind = "poison"
             /\ Abort(q)

\* INSERT ... ON CONFLICT DO UPDATE.  The foreign key is checked at the end of
\* the statement, unless the row already pointed at this raw.
Upsert(q) ==
    /\ Granted(q, "upsert")
    /\ \E r \in req[q].cur :
          LET rows == WithKey(View(q), Capture[r].key)
          IN  /\ Write(q, rows, Upserted(View(q), r, q))
              /\ Goto(q, IF \E x \in rows : x.raw = r THEN "next" ELSE "check")
    /\ UNCHANGED <<raws, proc>>

\* Mutant of CheckForeignKey: the raw is looked up but not locked.
CheckWithoutLock(q) ==
    /\ At(q, "check")
    /\ req[q].cur \subseteq raws
    /\ Goto(q, IF req[q].kind = "process" THEN "next" ELSE "handled")
    /\ UNCHANGED <<raws, proc, tx>>

\* SELECT ... FOR KEY SHARE on the raw that the new row version points at.
CheckForeignKey(q) ==
    /\ Granted(q, "check")
    /\ IF req[q].cur \subseteq raws
       THEN /\ Goto(q, IF req[q].kind = "process" THEN "next" ELSE "handled")
            /\ tx' = [tx EXCEPT ![q].shared = @ \cup req[q].cur]
            /\ UNCHANGED <<raws, proc>>
       ELSE Abort(q)

BatchDone(q) ==
    /\ At(q, "next")
    /\ req[q].done = req[q].batch
    /\ Goto(q, "handled")
    /\ UNCHANGED <<raws, proc, tx>>

(* DELETE /raw-observations/{id}. *)

GetRaw(q) ==
    /\ At(q, "get_raw")
    /\ \E r \in raws : req' = [req EXCEPT ![q].step = "delete_raw", ![q].cur = {r}]
    /\ UNCHANGED <<raws, proc, tx>>

\* Zero rows deleted is only a warning in the unit of work.
DeleteRaw(q) ==
    /\ Granted(q, "delete_raw")
    /\ tx' = [tx EXCEPT ![q].del = req[q].cur \cap raws]
    /\ Goto(q, "cascade")
    /\ UNCHANGED <<raws, proc>>

\* Mutant of CascadeRow: it does not wait for who has written the row.
CascadeRowAtOnce(q) ==
    /\ At(q, "cascade")
    /\ \E x \in proc \ tx[q].old : x.raw \in tx[q].del /\ Write(q, {x}, {})
    /\ UNCHANGED <<raws, proc, req>>

\* ON DELETE CASCADE removes the rows one by one, waiting for each if need be.
CascadeRow(q) ==
    /\ At(q, "cascade")
    /\ \E x \in proc \ tx[q].old :
          /\ x.raw \in tx[q].del
          /\ \A p \in Requests \ {q} : x \notin tx[p].old
          /\ Write(q, {x}, {})
    /\ UNCHANGED <<raws, proc, req>>

\* Mutant of CascadeDone: rows are left that point at the deleted raw, as if
\* the column had no foreign key.
CascadeSkipped(q) ==
    /\ At(q, "cascade")
    /\ Goto(q, "handled")
    /\ UNCHANGED <<raws, proc, tx>>

CascadeDone(q) ==
    /\ At(q, "cascade")
    /\ \A x \in View(q) : x.raw \notin tx[q].del
    /\ Goto(q, "handled")
    /\ UNCHANGED <<raws, proc, tx>>

(* POST, PATCH and DELETE /processed-observations. *)

\* Mutant of InsertRow: external_id has no unique index.
InsertRowAnyway(q) ==
    /\ Granted(q, "insert")
    /\ \E x \in req[q].seen :
          /\ Write(q, {}, {x})
          /\ req' = [req EXCEPT ![q].step = "check", ![q].cur = {x.raw}]
    /\ UNCHANGED <<raws, proc>>

\* add: a plain INSERT, refused by the unique index on external_id.
InsertRow(q) ==
    /\ Granted(q, "insert")
    /\ \E x \in req[q].seen :
          IF WithKey(View(q), x.key) # {}
          THEN Abort(q)
          ELSE /\ Write(q, {}, {x})
               /\ req' = [req EXCEPT ![q].step = "check", ![q].cur = {x.raw}]
               /\ UNCHANGED <<raws, proc>>

\* _get_or_404 for PATCH and DELETE, and the setattr loop of PATCH.
GetRow(q) ==
    /\ At(q, "get_row")
    /\ \E x \in proc :
          \/ /\ req[q].kind = "delete"
             /\ req' = [req EXCEPT ![q].step = "delete", ![q].seen = {x}]
          \/ /\ req[q].kind = "patch"
             /\ \E p \in Patches :
                   req' = [req EXCEPT ![q].step = "flush", ![q].seen = {x},
                                      ![q].asked = p]
    /\ UNCHANGED <<raws, proc, tx>>

\* RecordNotFoundError: the id asked for is no row's.
NotFound(q) == (At(q, "get_raw") \/ At(q, "get_row")) /\ Abort(q)

\* Mutant of FlushPatch: the UPDATE sets every column, from the loaded copy.
FlushLoadedCopy(q) ==
    /\ Granted(q, "flush")
    /\ \E x \in req[q].seen :
          Write(q, Current(q, x), {ApplyPatch(x, req[q].asked, DOMAIN req[q].asked)})
    /\ Goto(q, "refresh")
    /\ UNCHANGED <<raws, proc>>

\* repository.update, the flush: no UPDATE if nothing differs from what was
\* loaded; StaleDataError if the UPDATE finds no row.
FlushPatch(q) ==
    /\ Granted(q, "flush")
    /\ \E x \in req[q].seen :
          LET C == Changed(x, req[q].asked)
          IN  IF C # {} /\ Current(q, x) = {}
              THEN Abort(q)
              ELSE /\ IF C = {}
                      THEN UNCHANGED tx
                      ELSE Write(q, Current(q, x),
                                 {ApplyPatch(y, req[q].asked, C) : y \in Current(q, x)})
                   /\ Goto(q, "refresh")
                   /\ UNCHANGED <<raws, proc>>

\* Mutant of RefreshPatch: the answer is the loaded copy, with the new values.
AnswerLoadedCopy(q) ==
    /\ At(q, "refresh")
    /\ \E x \in req[q].seen :
          req' = [req EXCEPT ![q].step = "handled",
                             ![q].seen = {ApplyPatch(x, req[q].asked,
                                                        DOMAIN req[q].asked)}]
    /\ UNCHANGED <<raws, proc, tx>>

\* repository.update, the refresh: the row as now visible is the answer;
\* InvalidRequestError if it is gone.
RefreshPatch(q) ==
    /\ At(q, "refresh")
    /\ \E x \in req[q].seen :
          IF Current(q, x) = {}
          THEN Abort(q)
          ELSE /\ req' = [req EXCEPT ![q].step = "handled",
                                     ![q].seen = Current(q, x)]
               /\ UNCHANGED <<raws, proc, tx>>

\* repository.delete: a row already gone is only a warning, the answer is 204.
DeleteRow(q) ==
    /\ Granted(q, "delete")
    /\ \E x \in req[q].seen : Write(q, Current(q, x), {})
    /\ Goto(q, "handled")
    /\ UNCHANGED <<raws, proc>>

-----------------------------------------------------------------------------
(* get_db_session after the yield, the answer, and what can go wrong. *)

MayCommit(q) == At(q, "handled") /\ (AnswerFirst => req[q].ans # "none")

Commit(q) ==
    /\ MayCommit(q)
    /\ raws' = (raws \ tx[q].del) \cup tx[q].ins
    /\ proc' = (proc \ tx[q].old) \cup tx[q].fresh
    /\ tx' = [tx EXCEPT ![q] = NoTx]
    /\ req' = [req EXCEPT ![q] = Fresh(@.kind, "committed", @.ans)]

\* COMMIT itself fails.
CommitFails(q) == MayCommit(q) /\ Abort(q)

\* An error response always comes after the rollback; a success response
\* before or after the commit.
Respond(q) ==
    /\ req[q].ans = "none"
    /\ \/ /\ At(q, IF AnswerFirst THEN "handled" ELSE "committed")
          /\ req' = [req EXCEPT ![q].ans = "ok"]
       \/ /\ At(q, "aborted")
          /\ req' = [req EXCEPT ![q].ans = "error"]
    /\ UNCHANGED <<raws, proc, tx>>

\* A statement fails (connection lost, value too long, ...).
DbError(q) == req[q].step \notin Over \cup {"fetch", "handled"} /\ Abort(q)

\* The deadlock detector ends one of the transactions that wait in a circle.
DeadlockVictim(q) ==
    /\ \E S \in SUBSET Requests :
          /\ q \in S
          /\ \A p \in S : /\ \E o \in S : Blocks(o, p)
                          /\ \E o \in S : Blocks(p, o)
    /\ Abort(q)

\* The server process dies: open transactions are rolled back, and whoever
\* still waited for an answer gets none.
Crash ==
    /\ \E q \in Requests : req[q].step \notin Over
    /\ req' = [q \in Requests |->
                 IF At(q, "idle") THEN req[q]
                 ELSE Fresh(req[q].kind,
                            IF At(q, "committed") THEN "committed" ELSE "aborted",
                            IF req[q].ans = "none" THEN "lost" ELSE req[q].ans)]
    /\ tx' = [q \in Requests |-> NoTx]
    /\ UNCHANGED <<raws, proc>>

Advance(q) ==
    \/ Start(q)
    \/ BulkAdd(q) \/ CreateRaw(q)
    \/ ListUnprocessed(q) \/ NextRecord(q) \/ Upsert(q) \/ CheckForeignKey(q)
    \/ BatchDone(q)
    \/ GetRaw(q) \/ DeleteRaw(q) \/ CascadeRow(q) \/ CascadeDone(q)
    \/ InsertRow(q)
    \/ GetRow(q) \/ NotFound(q) \/ FlushPatch(q) \/ RefreshPatch(q)
    \/ DeleteRow(q)
    \/ Commit(q) \/ Respond(q)

Fails(q) == FetchFails(q) \/ CommitFails(q) \/ DbError(q)

\* Every request has been answered (or its client disconnected).
Finished ==
    /\ \A q \in Requests : req[q].ans # "none" /\ req[q].step \in Over
    /\ UNCHANGED vars

Next ==
    \/ \E q \in Requests : Advance(q) \/ Fails(q) \/ DeadlockVictim(q)
    \/ Crash
    \/ Finished

\* The event loop runs every handler, the database runs every statement whose
\* locks are free, and the deadlock detector runs; failures are not owed.
Fairness ==
    /\ \A q \in Requests : WF_vars(Advance(q))
    /\ WF_vars(\E q \in Requests : DeadlockVictim(q))

Spec == Init /\ [][Next]_vars

FairSpec == Spec /\ Fairness

-----------------------------------------------------------------------------
(* Invariants. *)

\* Unique index on external_id, under any interleaving of inserts and upserts.
UniqueKey == UniqueKeys(proc)

\* raw_observation_id is never left dangling: neither by a delete racing with
\* an upsert nor by a POST of a row whose raw is being deleted.
ReferentialIntegrity == \A x \in proc : x.raw \in raws

\* get_db_session "commits on clean completion of the request": no request is
\* answered with success and then rolled back.
AckedIsNotLost == \A q \in Requests : req[q].ans = "ok" => ~At(q, "aborted")

(* What open transactions hold: the strengthening that makes the invariants *)
(* inductive.                                                               *)

\* Two transactions never hold the same row or index entry, and a raw that one
\* has locked for a foreign key is not being deleted by the other.
Exclusive(p, q) ==
    /\ Written(p) \cap Written(q) = {}
    /\ tx[p].shared \cap tx[q].del = {}

\* What q supersedes is still what is committed, and a version that q will
\* install has a key of its own, or one of a version that q supersedes.
WritesAreCurrent(q) ==
    /\ tx[q].old \subseteq proc
    /\ UniqueKeys(tx[q].fresh)
    /\ \A x \in tx[q].fresh, y \in proc : x.key = y.key =>
          y \in tx[q].old /\ x.id = y.id /\ x.source = y.source

\* Where the raw of a version about to be installed comes from.
FreshIsBacked(q) ==
    /\ tx[q].shared \subseteq raws
    /\ \A x \in tx[q].fresh :
          \/ x.raw \in tx[q].shared
          \/ \E y \in tx[q].old : y.key = x.key /\ y.raw = x.raw
          \/ At(q, "check") /\ x.raw \in req[q].cur

\* Only the transaction of a DELETE removes rows; any other that supersedes a
\* row installs a version of the same event.
OnlyDeletesRemove(q) ==
    req[q].kind \notin {"delete", "delete_raw"} =>
        \A y \in tx[q].old : \E x \in tx[q].fresh : x.key = y.key

\* Raws are deleted by their DELETE only, which writes no row, and which at its
\* end has removed all that pointed at what it deletes.
CascadeIsComplete(q) ==
    /\ req[q].kind # "delete_raw" => tx[q].del = {}
    /\ req[q].kind = "delete_raw" => tx[q].fresh = {}
    /\ At(q, "handled") =>
          \A x \in proc : x.raw \in tx[q].del => x \in tx[q].old

\* The statements that write are reached by the kinds of request they serve.
StepFitsKind(q) ==
    /\ req[q].step \in {"list", "next", "upsert"} => req[q].kind = "process"
    /\ At(q, "check") => req[q].kind \in {"process", "create"}
    /\ At(q, "fetch") => req[q].kind = "ingest"
    /\ At(q, "post_raw") => req[q].kind = "create_raw"
    /\ At(q, "insert") => req[q].kind = "create"
    /\ At(q, "get_row") => req[q].kind \in {"patch", "delete"}
    /\ req[q].step \in {"flush", "refresh"} => req[q].kind = "patch"
    /\ At(q, "delete") => req[q].kind = "delete"
    /\ req[q].step \in {"get_raw", "delete_raw", "cascade"} =>
          req[q].kind = "delete_raw"

LockDiscipline ==
    /\ \A q \in Requests : /\ WritesAreCurrent(q)
                           /\ FreshIsBacked(q)
                           /\ OnlyDeletesRemove(q)
                           /\ CascadeIsComplete(q)
                           /\ StepFitsKind(q)
    /\ \A p, q \in Requests : p # q => Exclusive(p, q)

(* What an open transaction has done is what one request may do: the        *)
(* strengthening that makes every commit a step of Tables.                  *)

\* The steps at which a transaction has written nothing, or is over.
Unwritten == Over \cup {"fetch", "post_raw", "list", "get_raw", "delete_raw",
                        "insert", "get_row", "flush", "delete"}

Adders == {"ingest", "create_raw"}

\* Raws are added under their own new ids, by requests that do nothing else.
AddsItsOwn(q) ==
    /\ tx[q].ins \subseteq Stock[q]
    /\ req[q].kind \notin Adders => tx[q].ins = {}
    /\ req[q].kind \in Adders => tx[q].old = {} /\ tx[q].fresh = {}

\* The DELETE of a raw removes that raw, and rows that point at it only.
DeletesOneRaw(q) ==
    req[q].kind = "delete_raw" =>
        /\ \A r, s \in req[q].cur : r = s
        /\ tx[q].del \subseteq req[q].cur
        /\ \A x \in tx[q].old : x.raw \in tx[q].del

\* A version that a batch installs shows a valid raw of the batch, under the
\* row's original identity or a new one; every valid raw that the loop is past
\* has a version of its event.
ShowsItsBatch(q) ==
    req[q].kind = "process" =>
        /\ req[q].done \subseteq req[q].batch
        /\ req[q].step \in Unwritten => req[q].done = {}
        /\ At(q, "handled") => req[q].done = req[q].batch
        /\ At(q, "upsert") =>
              /\ \A r \in req[q].cur : r \in req[q].done /\ Capture[r].kind = "valid"
              /\ \A r, s \in req[q].cur : r = s
        /\ \A x \in tx[q].fresh :
              /\ x.raw \in req[q].done
              /\ Capture[x.raw].kind = "valid"
              /\ Capture[x.raw].key = x.key
              /\ Capture[x.raw].cols = x.cols
              /\ \/ \E y \in tx[q].old : y.key = x.key
                 \/ x.id = q /\ x.source \in Tables!SourcesOf(x.key)
        /\ \A r \in req[q].done :
              \/ Capture[r].kind # "valid"
              \/ At(q, "upsert") /\ r \in req[q].cur
              \/ \E x \in tx[q].fresh : x.key = Capture[r].key

\* A POST inserts the row that it was sent.
InsertsItsPost(q) ==
    req[q].kind = "create" =>
        /\ tx[q].old = {}
        /\ tx[q].fresh \subseteq req[q].seen
        /\ \A x, y \in req[q].seen : x = y
        /\ \A x \in req[q].seen : \E post \in Posts : x = PostedRow(post, q)

\* A PATCH changes the row that it loaded, by columns of its body, and answers
\* the version that it installs.
AppliesItsPatch(q) ==
    req[q].kind = "patch" =>
        /\ At(q, "flush") => /\ req[q].asked \in Patches
                             /\ \A x, y \in req[q].seen : x = y
        /\ \A x \in tx[q].fresh, y \in req[q].seen : x.key = y.key
        /\ At(q, "handled") => tx[q].fresh = {} \/ req[q].seen \subseteq tx[q].fresh
        /\ \/ tx[q].old = {} /\ tx[q].fresh = {}
           \/ /\ req[q].asked \in Patches
              /\ \E x \in tx[q].old : \E C \in SUBSET DOMAIN req[q].asked :
                    /\ tx[q].old = {x}
                    /\ tx[q].fresh = {ApplyPatch(x, req[q].asked, C)}

\* A DELETE removes the row that it loaded.
RemovesTheLoaded(q) ==
    req[q].kind = "delete" =>
        /\ tx[q].fresh = {}
        /\ \A x, y \in req[q].seen : x = y
        /\ \A x \in tx[q].old : \E y \in req[q].seen : SameRow(y, x)

\* The raws of others: what one is to delete is there, and being deleted by no
\* other; what one may still add is not there.
RawsApart ==
    /\ \A q \in Requests : tx[q].del \subseteq raws
    /\ \A p, q \in Requests : p # q => tx[p].del \cap tx[q].del = {}
    /\ \A q \in Requests : At(q, "committed") \/ raws \cap Stock[q] = {}

WorkOfOneRequest ==
    /\ \A q \in Requests : /\ req[q].step \in Unwritten => tx[q] = NoTx
                           /\ AddsItsOwn(q)
                           /\ DeletesOneRaw(q)
                           /\ ShowsItsBatch(q)
                           /\ InsertsItsPost(q)
                           /\ AppliesItsPatch(q)
                           /\ RemovesTheLoaded(q)
    /\ RawsApart

-----------------------------------------------------------------------------
(* Action properties. *)

Commits(q) == At(q, "handled") /\ req'[q].step = "committed"

\* An existing row keeps its original identity, whatever commits.
IdentityKept == [][Tables!KeepsIdentity]_vars

\* A PATCH leaves the columns it did not name as the last commit before its
\* own left them: no lost update from the copy that it read at the start.
PatchTouchesOnlyAsked ==
    [][\A q \in Requests : Commits(q) /\ req[q].kind = "patch" =>
          \A x \in proc, y \in proc' : SameRow(x, y) =>
              \A c \in Columns \ DOMAIN req[q].asked : y.cols[c] = x.cols[c]]_vars

\* The row that a PATCH answers with is the row that it commits: it shows what
\* others committed between the SELECT and the UPDATE (repository.update's
\* refresh).  A PATCH that wrote nothing is excepted: it holds no lock, and
\* another may commit after its refresh.
PatchAnswersWhatItCommits ==
    [][\A q \in Requests :
          Commits(q) /\ req[q].kind = "patch" /\ tx[q].fresh # {} =>
              req[q].seen \subseteq proc']_vars

\* What a process request listed and found valid is shown when it commits, by
\* the row of that event and from a raw of that batch.
BatchIsShown ==
    [][\A q \in Requests : Commits(q) /\ req[q].kind = "process" =>
          \A r \in req[q].batch : Capture[r].kind = "valid" =>
              \E y \in proc' : y.key = Capture[r].key /\ y.raw \in req[q].batch]_vars

\* A row goes away only when its own DELETE commits, or that of its raw.
RowsVanishOnlyByDelete ==
    [][\A x \in proc : (\A y \in proc' : ~SameRow(x, y)) =>
          \E q \in Requests : Commits(q) /\
              \/ req[q].kind = "delete" /\ \E y \in req[q].seen : SameRow(x, y)
              \/ x.raw \in tx[q].del]_vars

(* Liveness, and the abstract specification. *)

\* No interleaving leaves a request without an answer, unless the server dies.
EveryRequestAnswered ==
    \A q \in Requests : ~At(q, "idle") ~> req[q].ans # "none"

\* Committed requests change the tables in one step each, in commit order.
ImplementsTables == Tables!Spec

=============================================================================
