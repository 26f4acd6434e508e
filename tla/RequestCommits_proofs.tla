----------------------- MODULE RequestCommits_proofs ------------------------
(***************************************************************************)
(* Interleaved requests implement ObservationTables: each commit is one    *)
(* atomic request on the two tables, and all other steps leave them alone. *)
(***************************************************************************)
EXTENDS RequestTransactions_proofs

\* The part of WorkOfOneRequest that concerns one request alone.
OwnWork(q) == /\ req[q].step \in Unwritten => tx[q] = NoTx
              /\ AddsItsOwn(q)
              /\ DeletesOneRaw(q)
              /\ ShowsItsBatch(q)
              /\ InsertsItsPost(q)
              /\ AppliesItsPatch(q)
              /\ RemovesTheLoaded(q)

\* The inductive invariant: with what IInv says of locks, what each open
\* transaction has done so far is part of one request.
CInv == IInv /\ WorkOfOneRequest

-----------------------------------------------------------------------------
(* What the steps do to the variables of a handler. *)

\* The variables of a handler that goes to step s.
LEMMA HandlerEffect ==
    ASSUME TypeOK, NEW q \in Requests, NEW s, Goto(q, s)
    PROVE  /\ req'[q].step = s
           /\ req'[q].kind = req[q].kind
           /\ req'[q].batch = req[q].batch
           /\ req'[q].done = req[q].done
           /\ req'[q].cur = req[q].cur
           /\ req'[q].seen = req[q].seen
           /\ req'[q].asked = req[q].asked
           /\ \A p \in Requests \ {q} : req'[p] = req[p]
  BY DEF Goto, TypeOK, ReqType

\* What Write does to the transactions, complete.
LEMMA WriteOutcome ==
    ASSUME TypeOK, NEW q \in Requests, NEW rows, NEW new, Write(q, rows, new)
    PROVE  /\ tx'[q].old = tx[q].old \cup (rows \cap proc)
           /\ tx'[q].fresh = (tx[q].fresh \ rows) \cup new
           /\ tx'[q].ins = tx[q].ins
           /\ tx'[q].del = tx[q].del
           /\ \A p \in Requests \ {q} : tx'[p] = tx[p]
  BY DEF Write, TypeOK, TxType

\* A rollback, and what it leaves.
LEMMA AbortEffect ==
    ASSUME TypeOK, NEW q \in Requests, Abort(q)
    PROVE  /\ req'[q] = Fresh(req[q].kind, "aborted", req[q].ans)
           /\ tx'[q] = NoTx
           /\ \A p \in Requests \ {q} : req'[p] = req[p] /\ tx'[p] = tx[p]
           /\ UNCHANGED <<raws, proc>>
  BY DEF Abort, TypeOK

\* No step of a request touches what the other requests hold.
LEMMA StepIsOwn ==
    ASSUME TypeOK, NEW q \in Requests, Advance(q) \/ Fails(q) \/ DeadlockVictim(q)
    PROVE  /\ \A p \in Requests \ {q} : req'[p] = req[p] /\ tx'[p] = tx[p]
           /\ req'[q].kind = req[q].kind
<1> DEFINE Own == /\ \A p \in Requests \ {q} : req'[p] = req[p] /\ tx'[p] = tx[p]
                  /\ req'[q].kind = req[q].kind
<1> SUFFICES Own
  OBVIOUS
<1> HIDE DEF Own
<1>1. CASE Abort(q)
  <2>1. /\ req'[q] = Fresh(req[q].kind, "aborted", req[q].ans)
        /\ \A p \in Requests \ {q} : req'[p] = req[p] /\ tx'[p] = tx[p]
    BY <1>1, AbortEffect
  <2>2. req'[q].kind = req[q].kind
    BY <2>1 DEF Fresh
  <2> QED BY <2>1, <2>2 DEF Own
<1>2. ASSUME UNCHANGED tx, NEW s, Goto(q, s)
      PROVE  Own
  <2>1. /\ req'[q].kind = req[q].kind
        /\ \A p \in Requests \ {q} : req'[p] = req[p]
    BY <1>2, HandlerEffect
  <2> QED BY <1>2, <2>1 DEF Own
<1>3. ASSUME NEW rows, NEW new, Write(q, rows, new), NEW s, Goto(q, s)
      PROVE  Own
  BY <1>3, HandlerEffect, WriteOutcome DEF Own
<1>4. CASE Start(q)
  BY <1>4 DEF Own, Start, Goto, TypeOK, ReqType
<1>5. CASE BulkAdd(q) \/ CreateRaw(q)
  <2>1. PICK S : Goto(q, "handled") /\ tx' = [tx EXCEPT ![q].ins = S]
    BY <1>5 DEF BulkAdd, CreateRaw, Insert
  <2> QED BY <2>1, HandlerEffect DEF Own, TypeOK
<1>6. CASE ListUnprocessed(q)
  BY <1>6 DEF Own, ListUnprocessed, TypeOK, ReqType
<1>7. CASE NextRecord(q)
  <2>1. CASE ~Abort(q)
    <3>1. PICK r : \/ req' = [req EXCEPT ![q].step = "upsert", ![q].cur = {r},
                                         ![q].done = @ \cup {r}]
                   \/ req' = [req EXCEPT ![q].done = @ \cup {r}]
      BY <1>7, <2>1 DEF NextRecord
    <3>2. UNCHANGED tx
      BY <1>7, <2>1 DEF NextRecord
    <3> QED BY <3>1, <3>2 DEF Own, TypeOK, ReqType
  <2> QED BY <1>1, <2>1
<1>8. CASE Upsert(q)
  BY <1>3, <1>8 DEF Upsert
<1>9. CASE CheckForeignKey(q)
  <2>1. CASE ~Abort(q)
    <3>1. PICK s : Goto(q, s) /\ tx' = [tx EXCEPT ![q].shared = @ \cup req[q].cur]
      BY <1>9, <2>1 DEF CheckForeignKey
    <3> QED BY <3>1, HandlerEffect DEF Own, TypeOK
  <2> QED BY <1>1, <2>1
<1>10. CASE BatchDone(q) \/ CascadeDone(q)
  BY <1>2, <1>10 DEF BatchDone, CascadeDone
<1>11. CASE GetRaw(q)
  BY <1>11 DEF Own, GetRaw, TypeOK, ReqType
<1>12. CASE DeleteRaw(q)
  BY <1>12, HandlerEffect DEF Own, DeleteRaw, TypeOK
<1>13. CASE CascadeRow(q)
  BY <1>13, WriteOutcome DEF Own, CascadeRow
<1>14. CASE InsertRow(q)
  <2>1. CASE ~Abort(q)
    <3>1. PICK x \in req[q].seen :
             /\ Write(q, {}, {x})
             /\ req' = [req EXCEPT ![q].step = "check", ![q].cur = {x.raw}]
      BY <1>14, <2>1 DEF InsertRow
    <3>2. \A p \in Requests \ {q} : tx'[p] = tx[p]
      BY <3>1, WriteOutcome
    <3> QED BY <3>1, <3>2 DEF Own, TypeOK, ReqType
  <2> QED BY <1>1, <2>1
<1>15. CASE GetRow(q)
  <2>1. PICK x : \/ req' = [req EXCEPT ![q].step = "delete", ![q].seen = {x}]
                 \/ \E p \in Patches : req' = [req EXCEPT ![q].step = "flush",
                                                  ![q].seen = {x}, ![q].asked = p]
    BY <1>15 DEF GetRow
  <2>2. UNCHANGED tx
    BY <1>15 DEF GetRow
  <2>3. CASE req' = [req EXCEPT ![q].step = "delete", ![q].seen = {x}]
    BY <2>2, <2>3 DEF Own, TypeOK, ReqType
  <2>4. ASSUME NEW p \in Patches,
               req' = [req EXCEPT ![q].step = "flush", ![q].seen = {x}, ![q].asked = p]
        PROVE  Own
    BY <2>2, <2>4 DEF Own, TypeOK, ReqType
  <2> QED BY <2>1, <2>3, <2>4
<1>16. CASE FlushPatch(q)
  <2>1. CASE ~Abort(q)
    BY <1>2, <1>3, <1>16, <2>1 DEF FlushPatch
  <2> QED BY <1>1, <2>1
<1>17. CASE RefreshPatch(q)
  <2>1. CASE ~Abort(q)
    <3>1. PICK S : /\ req' = [req EXCEPT ![q].step = "handled", ![q].seen = S]
                   /\ UNCHANGED tx
      BY <1>17, <2>1 DEF RefreshPatch
    <3> QED BY <3>1 DEF Own, TypeOK, ReqType
  <2> QED BY <1>1, <2>1
<1>18. CASE DeleteRow(q)
  BY <1>3, <1>18 DEF DeleteRow
<1>19. CASE Commit(q)
  BY <1>19 DEF Own, Commit, Fresh, TypeOK
<1>20. CASE Respond(q)
  <2>1. PICK a : req' = [req EXCEPT ![q].ans = a]
    BY <1>20 DEF Respond
  <2>2. UNCHANGED tx
    BY <1>20 DEF Respond
  <2> QED BY <2>1, <2>2 DEF Own, TypeOK, ReqType
<1>21. CASE Fails(q) \/ DeadlockVictim(q) \/ NotFound(q)
  BY <1>1, <1>21 DEF Fails, FetchFails, CommitFails, DbError, DeadlockVictim, NotFound
<1> QED
  BY <1>4, <1>5, <1>6, <1>7, <1>8, <1>9, <1>10, <1>11, <1>12, <1>13, <1>14, <1>15,
     <1>16, <1>17, <1>18, <1>19, <1>20, <1>21 DEF Advance

-----------------------------------------------------------------------------
(* Each step of a request leaves the work of its transaction that of one    *)
(* request.                                                                 *)

\* What a request holds is judged by its own variables alone.
LEMMA OwnWorkStays ==
    ASSUME NEW q, OwnWork(q), req'[q] = req[q], tx'[q] = tx[q]
    PROVE  OwnWork(q)'
<1>1. (req[q].step \in Unwritten => tx[q] = NoTx)'
  BY DEF OwnWork
<1>2. AddsItsOwn(q)' /\ DeletesOneRaw(q)'
  BY DEF OwnWork, AddsItsOwn, DeletesOneRaw
<1>3. ShowsItsBatch(q)'
  BY DEF OwnWork, ShowsItsBatch, At, Tables!SourcesOf
<1>4. InsertsItsPost(q)' /\ AppliesItsPatch(q)' /\ RemovesTheLoaded(q)'
  BY DEF OwnWork, InsertsItsPost, AppliesItsPatch, RemovesTheLoaded, At
<1> QED BY <1>1, <1>2, <1>3, <1>4 DEF OwnWork

\* A transaction that is over, or not begun, has done nothing.
LEMMA NothingIsOwnWork ==
    ASSUME NEW q, NEW k, NEW s \in Over, NEW a,
           req[q] = Fresh(k, s, a), tx[q] = NoTx
    PROVE  OwnWork(q)
<1> USE DEF Fresh, NoTx, Over, At
<1>1. AddsItsOwn(q) /\ DeletesOneRaw(q)
  BY DEF AddsItsOwn, DeletesOneRaw
<1>2. ShowsItsBatch(q)
  BY DEF ShowsItsBatch
<1>3. InsertsItsPost(q) /\ AppliesItsPatch(q) /\ RemovesTheLoaded(q)
  BY DEF InsertsItsPost, AppliesItsPatch, RemovesTheLoaded
<1> QED BY <1>1, <1>2, <1>3 DEF OwnWork

\* The same, of the state that a step leads to.
LEMMA NothingLeftIsOwnWork ==
    ASSUME NEW q, NEW k, NEW s \in Over, NEW a,
           req'[q] = Fresh(k, s, a), tx'[q] = NoTx
    PROVE  OwnWork(q)'
<1> USE DEF Fresh, NoTx, Over, At
<1>1. AddsItsOwn(q)' /\ DeletesOneRaw(q)'
  BY DEF AddsItsOwn, DeletesOneRaw
<1>2. ShowsItsBatch(q)'
  BY DEF ShowsItsBatch
<1>3. InsertsItsPost(q)' /\ AppliesItsPatch(q)' /\ RemovesTheLoaded(q)'
  BY DEF InsertsItsPost, AppliesItsPatch, RemovesTheLoaded
<1> QED BY <1>1, <1>2, <1>3 DEF OwnWork

\* What a request that has written nothing yet still has to tell of itself.
LEMMA UnwrittenIsOwnWork ==
    ASSUME NEW q, tx'[q] = NoTx,
           req'[q].kind = "process" =>
              req'[q].done = {} /\ req'[q].step \notin {"upsert", "handled"},
           req'[q].kind = "delete_raw" => \A r, s \in req'[q].cur : r = s,
           req'[q].kind = "create" =>
              /\ \A x, y \in req'[q].seen : x = y
              /\ \A x \in req'[q].seen : \E post \in Posts : x = PostedRow(post, q),
           req'[q].kind = "patch" /\ req'[q].step = "flush" =>
              req'[q].asked \in Patches /\ \A x, y \in req'[q].seen : x = y,
           req'[q].kind = "delete" => \A x, y \in req'[q].seen : x = y
    PROVE  OwnWork(q)'
<1> USE DEF NoTx, At
<1>1. AddsItsOwn(q)' /\ DeletesOneRaw(q)'
  BY DEF AddsItsOwn, DeletesOneRaw
<1>2. ShowsItsBatch(q)'
  BY DEF ShowsItsBatch
<1>3. InsertsItsPost(q)' /\ AppliesItsPatch(q)' /\ RemovesTheLoaded(q)'
  BY DEF InsertsItsPost, AppliesItsPatch, RemovesTheLoaded
<1> QED BY <1>1, <1>2, <1>3 DEF OwnWork

\* Entering the handler, and reading what a request is about.
LEMMA ReadsAreOwnWork ==
    ASSUME IInv, NEW q \in Requests, OwnWork(q),
           Start(q) \/ ListUnprocessed(q) \/ GetRaw(q) \/ GetRow(q)
    PROVE  OwnWork(q)'
<1> USE DEF At
<1>1. /\ StepFitsKind(q) /\ req[q].kind \in AllKinds
      /\ req \in [Requests -> ReqType]
  BY DEF IInv, LockDiscipline, TypeOK, ReqType
<1>2. req[q].step \in Unwritten /\ UNCHANGED tx
  BY DEF Start, ListUnprocessed, GetRaw, GetRow, Unwritten, Over
<1>3. /\ tx'[q] = NoTx
      /\ req[q].kind = "process" => req[q].done = {}
      /\ req[q].kind = "delete_raw" => \A r, s \in req[q].cur : r = s
      /\ req[q].kind = "create" =>
            /\ \A x, y \in req[q].seen : x = y
            /\ \A x \in req[q].seen : \E post \in Posts : x = PostedRow(post, q)
      /\ req[q].kind = "delete" => \A x, y \in req[q].seen : x = y
  BY <1>2 DEF OwnWork, ShowsItsBatch, DeletesOneRaw, InsertsItsPost, RemovesTheLoaded
<1>4. CASE Start(q) /\ req[q].kind # "create"
  <2>1. Goto(q, FirstStep[req[q].kind])
    BY <1>4 DEF Start
  <2>2. /\ req'[q].step = FirstStep[req[q].kind]
        /\ req'[q].kind = req[q].kind
        /\ req'[q].done = req[q].done
        /\ req'[q].cur = req[q].cur
        /\ req'[q].seen = req[q].seen
    BY <2>1, HandlerEffect DEF IInv
  <2>3. FirstStep[req[q].kind] \notin {"upsert", "handled", "flush"}
    BY <1>1, <1>4 DEF FirstStep, AllKinds
  <2> QED BY <1>3, <1>4, <2>2, <2>3, UnwrittenIsOwnWork
<1>5. CASE Start(q) /\ req[q].kind = "create"
  <2>1. PICK post \in Posts : req' = [req EXCEPT ![q].step = "insert",
                                                 ![q].seen = {PostedRow(post, q)}]
    BY <1>5 DEF Start
  <2>2. req'[q].kind = "create" /\ req'[q].seen = {PostedRow(post, q)}
    BY <1>1, <1>5, <2>1 DEF ReqType
  <2> QED BY <1>3, <2>2, UnwrittenIsOwnWork
<1>6. CASE ListUnprocessed(q)
  <2>1. PICK B : req' = [req EXCEPT ![q].step = "next", ![q].batch = B]
    BY <1>6 DEF ListUnprocessed
  <2>2. req[q].kind = "process"
    BY <1>1, <1>6 DEF StepFitsKind, ListUnprocessed
  <2>3. req'[q].kind = "process" /\ req'[q].done = req[q].done /\ req'[q].step = "next"
    BY <1>1, <2>1, <2>2 DEF ReqType
  <2> QED BY <1>3, <2>2, <2>3, UnwrittenIsOwnWork
<1>7. CASE GetRaw(q)
  <2>1. PICK r : req' = [req EXCEPT ![q].step = "delete_raw", ![q].cur = {r}]
    BY <1>7 DEF GetRaw
  <2>2. req[q].kind = "delete_raw"
    BY <1>1, <1>7 DEF StepFitsKind, GetRaw
  <2>3. req'[q].kind = "delete_raw" /\ req'[q].cur = {r}
    BY <1>1, <2>1, <2>2 DEF ReqType
  <2> QED BY <1>3, <2>3, UnwrittenIsOwnWork
<1>8. CASE GetRow(q)
  <2>1. PICK x : \/ /\ req[q].kind = "delete"
                    /\ req' = [req EXCEPT ![q].step = "delete", ![q].seen = {x}]
                 \/ /\ req[q].kind = "patch"
                    /\ \E p \in Patches :
                          req' = [req EXCEPT ![q].step = "flush", ![q].seen = {x},
                                             ![q].asked = p]
    BY <1>8 DEF GetRow
  <2>2. CASE /\ req[q].kind = "delete"
             /\ req' = [req EXCEPT ![q].step = "delete", ![q].seen = {x}]
    <3>1. req'[q].kind = "delete" /\ req'[q].seen = {x}
      BY <1>1, <2>2 DEF ReqType
    <3> QED BY <1>3, <3>1, UnwrittenIsOwnWork
  <2>3. ASSUME req[q].kind = "patch", NEW p \in Patches,
               req' = [req EXCEPT ![q].step = "flush", ![q].seen = {x}, ![q].asked = p]
        PROVE  OwnWork(q)'
    <3>1. req'[q].kind = "patch" /\ req'[q].asked = p /\ req'[q].seen = {x}
      BY <1>1, <2>3 DEF ReqType
    <3> QED BY <1>3, <3>1, UnwrittenIsOwnWork
  <2> QED BY <2>1, <2>2, <2>3
<1> QED BY <1>4, <1>5, <1>6, <1>7, <1>8

\* A step after which the request holds the same, but for a step of another
\* name, at which nothing more is asked of it.
LEMMA MovesAreOwnWork ==
    ASSUME NEW q, OwnWork(q), tx'[q] = tx[q],
           req'[q].kind = req[q].kind, req'[q].batch = req[q].batch,
           req'[q].done = req[q].done, req'[q].cur = req[q].cur,
           req'[q].asked = req[q].asked,
           req'[q].seen = req[q].seen,
           req[q].kind = "patch" => req'[q].step = req[q].step,
           req'[q].step \notin Unwritten \cup {"upsert"} \/ req'[q].step = req[q].step,
           req[q].step # "upsert" \/ req'[q].step = req[q].step,
           req[q].kind = "process" /\ At(q, "handled")' => req[q].done = req[q].batch
    PROVE  OwnWork(q)'
<1>1. (req[q].step \in Unwritten => tx[q] = NoTx)'
  BY DEF OwnWork
<1>2. AddsItsOwn(q)' /\ DeletesOneRaw(q)'
  BY DEF OwnWork, AddsItsOwn, DeletesOneRaw
<1>3. ShowsItsBatch(q)'
  BY DEF OwnWork, ShowsItsBatch, At, Tables!SourcesOf
<1>4. InsertsItsPost(q)' /\ AppliesItsPatch(q)' /\ RemovesTheLoaded(q)'
  BY DEF OwnWork, InsertsItsPost, AppliesItsPatch, RemovesTheLoaded, At, Unwritten
<1> QED BY <1>1, <1>2, <1>3, <1>4 DEF OwnWork

\* The refresh of a PATCH that has written finds the version it has written:
\* no other row has that key.
LEMMA RefreshIsOwnWork ==
    ASSUME IInv, NEW q \in Requests, OwnWork(q), RefreshPatch(q), ~Abort(q)
    PROVE  OwnWork(q)'
<1>1. PICK x \in req[q].seen :
         req' = [req EXCEPT ![q].step = "handled", ![q].seen = Current(q, x)]
  BY DEF RefreshPatch
<1>2. /\ req \in [Requests -> ReqType] /\ tx' = tx
      /\ req[q].kind = "patch" /\ req[q].step = "refresh"
      /\ WritesAreCurrent(q)
  BY DEF RefreshPatch, At, IInv, TypeOK, LockDiscipline, StepFitsKind
<1>3. /\ req'[q].step = "handled"
      /\ req'[q].kind = "patch"
      /\ req'[q].seen = Current(q, x)
      /\ req'[q].asked = req[q].asked
  BY <1>1, <1>2 DEF ReqType
<1>4. /\ AppliesItsPatch(q) /\ AddsItsOwn(q)
      /\ \A y \in tx[q].fresh : y.key = x.key
  BY <1>2 DEF OwnWork, AppliesItsPatch
<1>5. \A y \in Current(q, x) : y.key = x.key /\ (y \in proc \ tx[q].old \/ y \in tx[q].fresh)
  BY DEF Current, SameRow, View
<1>6. tx[q].fresh = {} \/ Current(q, x) \subseteq tx[q].fresh
  BY <1>2, <1>4, <1>5 DEF WritesAreCurrent
<1>7. AppliesItsPatch(q)'
  BY <1>2, <1>3, <1>4, <1>5, <1>6 DEF AppliesItsPatch, At
<1> QED BY <1>2, <1>3, <1>4, <1>7
    DEF OwnWork, AddsItsOwn, DeletesOneRaw, ShowsItsBatch, InsertsItsPost,
        RemovesTheLoaded, Adders, Unwritten, Over

\* The loop over a batch, the refresh of a PATCH, the ends of the handlers.
LEMMA LocalsAreOwnWork ==
    ASSUME IInv, NEW q \in Requests, OwnWork(q),
           \/ NextRecord(q) \/ BatchDone(q) \/ CascadeDone(q) \/ RefreshPatch(q)
           \/ Respond(q),
           ~Abort(q)
    PROVE  OwnWork(q)'
<1>1. /\ StepFitsKind(q) /\ TypeOK /\ req \in [Requests -> ReqType]
  BY DEF IInv, LockDiscipline, TypeOK
<1>2. CASE NextRecord(q)
  <2>1. PICK r \in req[q].batch \ req[q].done :
           \/ /\ Capture[r].kind = "valid"
              /\ req' = [req EXCEPT ![q].step = "upsert", ![q].cur = {r},
                                    ![q].done = @ \cup {r}]
           \/ /\ Capture[r].kind = "invalid"
              /\ req' = [req EXCEPT ![q].done = @ \cup {r}]
    BY <1>2 DEF NextRecord
  <2>2. req[q].kind = "process" /\ req[q].step = "next" /\ tx'[q] = tx[q]
    BY <1>1, <1>2 DEF NextRecord, StepFitsKind, At
  <2>3. /\ req'[q].kind = "process"
        /\ req'[q].batch = req[q].batch
        /\ req'[q].done = req[q].done \cup {r}
        /\ \/ /\ Capture[r].kind = "valid"
              /\ req'[q].step = "upsert" /\ req'[q].cur = {r}
           \/ /\ Capture[r].kind = "invalid"
              /\ req'[q].step = "next"
    BY <1>1, <2>1, <2>2 DEF ReqType
  <2>4. ShowsItsBatch(q) /\ AddsItsOwn(q)
    BY DEF OwnWork
  <2>5. ShowsItsBatch(q)'
    <3>1. /\ req'[q].done \subseteq req'[q].batch
          /\ req'[q].step \notin Unwritten \cup {"handled"}
          /\ At(q, "upsert")' => \A o \in req'[q].cur :
                o \in req'[q].done /\ Capture[o].kind = "valid"
          /\ At(q, "upsert")' => \A n, o \in req'[q].cur : n = o
      BY <2>1, <2>2, <2>3, <2>4 DEF ShowsItsBatch, At, Unwritten, Over
    <3>2. \A x \in tx[q].fresh :
             /\ x.raw \in req'[q].done
             /\ Capture[x.raw].kind = "valid"
             /\ Capture[x.raw].key = x.key
             /\ Capture[x.raw].cols = x.cols
             /\ \/ \E y \in tx[q].old : y.key = x.key
                \/ x.id = q /\ x.source \in Tables!SourcesOf(x.key)
      BY <2>2, <2>3, <2>4 DEF ShowsItsBatch
    <3>3. \A o \in req[q].done : Capture[o].kind # "valid"
             \/ \E x \in tx[q].fresh : x.key = Capture[o].key
      BY <2>2, <2>4 DEF ShowsItsBatch, At
    <3>4. \A o \in req'[q].done : \/ Capture[o].kind # "valid"
                                  \/ At(q, "upsert")' /\ o \in req'[q].cur
                                  \/ \E x \in tx[q].fresh : x.key = Capture[o].key
      BY <2>3, <3>3 DEF At
    <3> QED BY <2>2, <3>1, <3>2, <3>4 DEF ShowsItsBatch, At, Tables!SourcesOf
  <2>6. AddsItsOwn(q)'
    BY <2>2, <2>3, <2>4 DEF AddsItsOwn
  <2> QED BY <2>3, <2>5, <2>6 DEF OwnWork, DeletesOneRaw, InsertsItsPost,
                                  AppliesItsPatch, RemovesTheLoaded, Unwritten, Over
<1>3. CASE BatchDone(q) \/ CascadeDone(q)
  <2>1. /\ Goto(q, "handled") /\ tx'[q] = tx[q]
        /\ req[q].step \in {"next", "cascade"}
        /\ req[q].kind # "patch"
        /\ req[q].kind = "process" => req[q].done = req[q].batch
    BY <1>1, <1>3 DEF BatchDone, CascadeDone, At, StepFitsKind
  <2>2. /\ req'[q].step = "handled"
        /\ req'[q].kind = req[q].kind
        /\ req'[q].batch = req[q].batch
        /\ req'[q].done = req[q].done
        /\ req'[q].cur = req[q].cur
        /\ req'[q].seen = req[q].seen
        /\ req'[q].asked = req[q].asked
    BY <1>1, <2>1, HandlerEffect
  <2> QED BY <2>1, <2>2, MovesAreOwnWork DEF Unwritten, Over
<1>4. CASE RefreshPatch(q)
  BY <1>4, RefreshIsOwnWork
<1>5. CASE Respond(q)
  <2>1. PICK a : req' = [req EXCEPT ![q].ans = a]
    BY <1>5 DEF Respond
  <2>2. UNCHANGED tx
    BY <1>5 DEF Respond
  <2>3. /\ req'[q].step = req[q].step
        /\ req'[q].kind = req[q].kind
        /\ req'[q].batch = req[q].batch
        /\ req'[q].done = req[q].done
        /\ req'[q].cur = req[q].cur
        /\ req'[q].seen = req[q].seen
        /\ req'[q].asked = req[q].asked
    BY <1>1, <2>1 DEF ReqType
  <2>4. req[q].kind = "process" /\ At(q, "handled")' => req[q].done = req[q].batch
    BY <2>3 DEF OwnWork, ShowsItsBatch, At
  <2> QED BY <2>2, <2>3, <2>4, MovesAreOwnWork
<1> QED BY <1>2, <1>3, <1>4, <1>5

\* The version that an upsert installs: of the raw's event, showing the raw,
\* with the identity of the row it overwrites or a new one.
LEMMA UpsertedShows ==
    ASSUME NEW rows \in SUBSET Row, NEW r \in RawIds, NEW i \in RowIds
    PROVE  /\ \E x \in Upserted(rows, r, i) : x.key = Capture[r].key
           /\ \A x \in Upserted(rows, r, i) :
                 /\ x.raw = r
                 /\ x.key = Capture[r].key
                 /\ x.cols = Capture[r].cols
                 /\ \/ \E y \in WithKey(rows, Capture[r].key) :
                          x.id = y.id /\ x.source = y.source
                    \/ x.id = i /\ x.source = Capture[r].source
<1> DEFINE old == WithKey(rows, Capture[r].key)
<1>1. CASE old = {}
  <2>1. Upserted(rows, r, i) = {NewRow(r, i)}
    BY <1>1 DEF Upserted
  <2> QED BY <2>1 DEF NewRow
<1>2. CASE old # {}
  <2>1. Upserted(rows, r, i) = {Overwrite(x, r) : x \in old}
    BY <1>2 DEF Upserted
  <2>2. \A x \in old : x \in Row /\ x.key = Capture[r].key
    BY DEF WithKey
  <2> HIDE DEF old
  <2>3. \A x \in old : /\ Overwrite(x, r).key = Capture[r].key
                       /\ Overwrite(x, r).raw = r
                       /\ Overwrite(x, r).id = x.id
                       /\ Overwrite(x, r).source = x.source
    BY <2>2, OverwriteIsRow
  <2>4. \A x \in old : Overwrite(x, r).cols = Capture[r].cols
    BY <2>2 DEF Overwrite, Row
  <2> QED BY <1>2, <2>1, <2>3, <2>4 DEF old
<1> QED BY <1>1, <1>2

\* An upsert of a batch installs a version that shows the raw in hand.
LEMMA UpsertIsOwnWork ==
    ASSUME IInv, NEW q \in Requests, OwnWork(q), Upsert(q)
    PROVE  OwnWork(q)'
<1>1. PICK r \in req[q].cur :
         LET rows == WithKey(View(q), Capture[r].key)
         IN  /\ Write(q, rows, Upserted(View(q), r, q))
             /\ Goto(q, IF \E x \in rows : x.raw = r THEN "next" ELSE "check")
  BY DEF Upsert
<1> DEFINE k == Capture[r].key
           rows == WithKey(View(q), k)
           new == Upserted(View(q), r, q)
           s == IF \E x \in rows : x.raw = r THEN "next" ELSE "check"
<1>2. r \in RawIds /\ q \in RowIds /\ View(q) \in SUBSET Row /\ TypeOK
  BY ViewIsRows, RequestsAssumption DEF IInv, TypeOK, ReqType
<1>3. req[q].kind = "process" /\ req[q].step = "upsert"
  BY DEF Upsert, Granted, At, IInv, LockDiscipline, StepFitsKind
<1>4. /\ \E x \in new : x.key = k
      /\ \A x \in new :
            /\ x.raw = r /\ x.key = k /\ x.cols = Capture[r].cols
            /\ \/ \E y \in rows : x.id = y.id /\ x.source = y.source
               \/ x.id = q /\ x.source = Capture[r].source
  BY <1>2, UpsertedShows
<1>5. \A y \in rows : y.key = k /\ (y \in proc \/ y \in tx[q].fresh)
  BY DEF WithKey, View
<1>6. Write(q, rows, new) /\ Goto(q, s) /\ s \in {"next", "check"}
  BY <1>1
<1>7. k = Capture[r].key
  OBVIOUS
<1> HIDE DEF k, rows, new, s
<1>8. /\ tx'[q].old = tx[q].old \cup (rows \cap proc)
      /\ tx'[q].fresh = (tx[q].fresh \ rows) \cup new
      /\ tx'[q].ins = tx[q].ins
      /\ tx'[q].del = tx[q].del
  BY <1>2, <1>6, WriteOutcome
<1>9. /\ req'[q].step = s
      /\ req'[q].kind = req[q].kind
      /\ req'[q].batch = req[q].batch
      /\ req'[q].done = req[q].done
  BY <1>2, <1>6, HandlerEffect
<1>10. ShowsItsBatch(q) /\ AddsItsOwn(q)
  BY DEF OwnWork
<1>11. Capture[r].source \in Tables!SourcesOf(k)
  BY <1>2, <1>7 DEF Tables!SourcesOf
<1>12. \A x \in tx[q].fresh : \/ \E y \in tx[q].old : y.key = x.key
                              \/ x.id = q /\ x.source \in Tables!SourcesOf(x.key)
  BY <1>3, <1>10 DEF ShowsItsBatch
<1>13. ASSUME NEW x \in tx'[q].fresh
       PROVE  \/ \E y \in tx'[q].old : y.key = x.key
              \/ x.id = q /\ x.source \in Tables!SourcesOf(x.key)
  <2>1. CASE x \in new /\ \E y \in rows : x.id = y.id /\ x.source = y.source
    <3>1. PICK y \in rows : x.id = y.id /\ x.source = y.source
      BY <2>1
    <3>2. y.key = x.key
      BY <1>4, <1>5, <2>1
    <3>3. CASE y \in proc
      BY <1>8, <3>2, <3>3
    <3>4. CASE y \in tx[q].fresh
      BY <1>8, <1>12, <3>1, <3>2, <3>4
    <3> QED BY <1>5, <3>3, <3>4
  <2>2. CASE x \in new /\ x.id = q /\ x.source = Capture[r].source
    BY <1>4, <1>11, <2>2
  <2>3. CASE x \in tx[q].fresh
    BY <1>8, <1>12, <2>3
  <2> QED BY <1>4, <1>8, <2>1, <2>2, <2>3
<1>14. r \in req[q].done /\ Capture[r].kind = "valid" /\ req[q].done \subseteq req[q].batch
  BY <1>1, <1>3, <1>10 DEF ShowsItsBatch, At
<1>15. \A x \in tx'[q].fresh : /\ x.raw \in req[q].done
                               /\ Capture[x.raw].kind = "valid"
                               /\ Capture[x.raw].key = x.key
                               /\ Capture[x.raw].cols = x.cols
  BY <1>3, <1>4, <1>7, <1>8, <1>10, <1>14 DEF ShowsItsBatch
<1>16. ASSUME NEW o \in req[q].done, Capture[o].kind = "valid"
       PROVE  \E x \in tx'[q].fresh : x.key = Capture[o].key
  <2>1. CASE Capture[o].key = k
    BY <1>4, <1>8, <2>1
  <2>2. CASE Capture[o].key # k
    <3>1. PICK x \in tx[q].fresh : x.key = Capture[o].key
      <4>1. o \notin req[q].cur
        BY <1>1, <1>3, <1>7, <1>10, <2>2 DEF ShowsItsBatch, At
      <4> QED BY <1>3, <1>10, <1>16, <4>1 DEF ShowsItsBatch
    <3>2. x \notin rows
      BY <1>5, <2>2, <3>1
    <3> QED BY <1>8, <3>1, <3>2
  <2> QED BY <2>1, <2>2
<1>17. ShowsItsBatch(q)'
  BY <1>3, <1>6, <1>9, <1>13, <1>14, <1>15, <1>16
     DEF ShowsItsBatch, At, Unwritten, Over, Tables!SourcesOf
<1>18. AddsItsOwn(q)'
  BY <1>3, <1>8, <1>9, <1>10 DEF AddsItsOwn, Adders
<1> QED BY <1>3, <1>6, <1>9, <1>17, <1>18
    DEF OwnWork, DeletesOneRaw, InsertsItsPost, AppliesItsPatch, RemovesTheLoaded,
        Unwritten, Over

\* A foreign-key check only locks: the batch goes on, or the POST is at its end.
LEMMA CheckIsOwnWork ==
    ASSUME IInv, NEW q \in Requests, OwnWork(q), CheckForeignKey(q), ~Abort(q)
    PROVE  OwnWork(q)'
<1> DEFINE s == IF req[q].kind = "process" THEN "next" ELSE "handled"
<1>1. Goto(q, s) /\ tx' = [tx EXCEPT ![q].shared = @ \cup req[q].cur]
  BY DEF CheckForeignKey
<1>2. TypeOK /\ req[q].step = "check" /\ req[q].kind \in {"process", "create"}
  BY DEF CheckForeignKey, Granted, At, IInv, LockDiscipline, StepFitsKind
<1>3. tx'[q].ins = tx[q].ins /\ tx'[q].old = tx[q].old /\ tx'[q].fresh = tx[q].fresh
  BY <1>1, <1>2 DEF TypeOK, TxType
<1>4. /\ req'[q].step = s
      /\ req'[q].kind = req[q].kind
      /\ req'[q].batch = req[q].batch
      /\ req'[q].done = req[q].done
      /\ req'[q].seen = req[q].seen
  BY <1>1, <1>2, HandlerEffect
<1>5. AddsItsOwn(q)'
  BY <1>3, <1>4 DEF OwnWork, AddsItsOwn
<1>6. ShowsItsBatch(q)'
  BY <1>2, <1>3, <1>4
     DEF OwnWork, ShowsItsBatch, At, Unwritten, Over, Tables!SourcesOf
<1>7. InsertsItsPost(q)'
  BY <1>3, <1>4 DEF OwnWork, InsertsItsPost
<1> QED BY <1>2, <1>4, <1>5, <1>6, <1>7
    DEF OwnWork, DeletesOneRaw, AppliesItsPatch, RemovesTheLoaded, Unwritten, Over

\* Raws are inserted under the ids in the request's stock.
LEMMA AddIsOwnWork ==
    ASSUME IInv, NEW q \in Requests, OwnWork(q), BulkAdd(q) \/ CreateRaw(q)
    PROVE  OwnWork(q)'
<1>1. PICK S \in SUBSET Stock[q] : Insert(q, S)
  BY DEF BulkAdd, CreateRaw
<1>2. /\ TypeOK /\ req[q].step \in Unwritten /\ req[q].kind \in {"ingest", "create_raw"}
  BY DEF BulkAdd, CreateRaw, At, IInv, LockDiscipline, StepFitsKind, Unwritten
<1>3. tx[q] = NoTx
  BY <1>2 DEF OwnWork
<1>4. tx'[q].ins = S /\ tx'[q].old = {} /\ tx'[q].fresh = {} /\ tx'[q].del = {}
  BY <1>1, <1>2, <1>3 DEF Insert, TypeOK, TxType, NoTx
<1>5. req'[q].step = "handled" /\ req'[q].kind = req[q].kind
  BY <1>1, <1>2, HandlerEffect DEF Insert
<1> QED BY <1>2, <1>4, <1>5
    DEF OwnWork, AddsItsOwn, DeletesOneRaw, ShowsItsBatch, InsertsItsPost,
        AppliesItsPatch, RemovesTheLoaded, Adders, Unwritten, Over

\* The DELETE of a raw marks that raw, then the rows that point at it.
LEMMA DeleteRawIsOwnWork ==
    ASSUME IInv, NEW q \in Requests, OwnWork(q), DeleteRaw(q) \/ CascadeRow(q)
    PROVE  OwnWork(q)'
<1>1. TypeOK /\ req[q].kind = "delete_raw" /\ DeletesOneRaw(q) /\ AddsItsOwn(q)
  BY DEF DeleteRaw, CascadeRow, Granted, At, IInv, LockDiscipline, StepFitsKind,
         OwnWork
<1>2. CASE DeleteRaw(q)
  <2>1. tx[q] = NoTx
    BY <1>2 DEF DeleteRaw, Granted, At, OwnWork, Unwritten
  <2>2. /\ tx'[q].ins = {} /\ tx'[q].old = {}
        /\ tx'[q].del = req[q].cur \cap raws
    BY <1>1, <1>2, <2>1 DEF DeleteRaw, TypeOK, TxType, NoTx
  <2>3. /\ req'[q].step = "cascade"
        /\ req'[q].kind = req[q].kind
        /\ req'[q].cur = req[q].cur
    BY <1>1, <1>2, HandlerEffect DEF DeleteRaw
  <2> QED BY <1>1, <2>2, <2>3
      DEF OwnWork, AddsItsOwn, DeletesOneRaw, ShowsItsBatch, InsertsItsPost,
          AppliesItsPatch, RemovesTheLoaded, Adders, Unwritten, Over
<1>3. CASE CascadeRow(q)
  <2>1. PICK x \in proc \ tx[q].old : x.raw \in tx[q].del /\ Write(q, {x}, {})
    BY <1>3 DEF CascadeRow
  <2>2. /\ tx'[q].old = tx[q].old \cup {x}
        /\ tx'[q].ins = tx[q].ins
        /\ tx'[q].del = tx[q].del
    BY <1>1, <2>1, WriteOutcome
  <2>3. req'[q] = req[q] /\ req[q].step = "cascade"
    BY <1>3 DEF CascadeRow, At
  <2> QED BY <1>1, <2>1, <2>2, <2>3
      DEF OwnWork, AddsItsOwn, DeletesOneRaw, ShowsItsBatch, InsertsItsPost,
          AppliesItsPatch, RemovesTheLoaded, Adders, Unwritten, Over
<1> QED BY <1>2, <1>3

\* A POST inserts its row, a DELETE removes the row that it has loaded.
LEMMA RowIsOwnWork ==
    ASSUME IInv, NEW q \in Requests, OwnWork(q), InsertRow(q) \/ DeleteRow(q), ~Abort(q)
    PROVE  OwnWork(q)'
<1>1. CASE InsertRow(q)
  <2>1. PICK x \in req[q].seen :
           /\ Write(q, {}, {x})
           /\ req' = [req EXCEPT ![q].step = "check", ![q].cur = {x.raw}]
    BY <1>1 DEF InsertRow
  <2>2. TypeOK /\ req[q].kind = "create" /\ req[q].step = "insert"
    BY <1>1 DEF InsertRow, Granted, At, IInv, LockDiscipline, StepFitsKind
  <2>3. tx[q] = NoTx /\ InsertsItsPost(q)
    BY <2>2 DEF OwnWork, Unwritten
  <2>4. tx'[q].ins = {} /\ tx'[q].old = {} /\ tx'[q].fresh = {x}
    BY <2>1, <2>2, <2>3, WriteOutcome DEF NoTx
  <2>5. /\ req'[q].step = "check"
        /\ req'[q].kind = "create"
        /\ req'[q].seen = req[q].seen
    BY <2>1, <2>2 DEF TypeOK, ReqType
  <2> QED BY <2>2, <2>3, <2>4, <2>5
      DEF OwnWork, AddsItsOwn, DeletesOneRaw, ShowsItsBatch, InsertsItsPost,
          AppliesItsPatch, RemovesTheLoaded, Adders, Unwritten, Over
<1>2. CASE DeleteRow(q)
  <2>1. PICK x \in req[q].seen : Write(q, Current(q, x), {})
    BY <1>2 DEF DeleteRow
  <2>2. TypeOK /\ req[q].kind = "delete" /\ req[q].step = "delete"
    BY <1>2 DEF DeleteRow, Granted, At, IInv, LockDiscipline, StepFitsKind
  <2>3. tx[q] = NoTx /\ RemovesTheLoaded(q)
    BY <2>2 DEF OwnWork, Unwritten
  <2>4. /\ tx'[q].ins = {} /\ tx'[q].fresh = {}
        /\ \A y \in tx'[q].old : SameRow(x, y)
    BY <2>1, <2>2, <2>3, WriteOutcome DEF NoTx, Current
  <2>5. /\ req'[q].step = "handled"
        /\ req'[q].kind = "delete"
        /\ req'[q].seen = req[q].seen
    BY <1>2, <2>2, HandlerEffect DEF DeleteRow
  <2> QED BY <2>1, <2>2, <2>3, <2>4, <2>5
      DEF OwnWork, AddsItsOwn, DeletesOneRaw, ShowsItsBatch, InsertsItsPost,
          AppliesItsPatch, RemovesTheLoaded, Adders, Unwritten, Over
<1> QED BY <1>1, <1>2

\* The flush of a PATCH applies columns of its body to one row, or to none.
LEMMA FlushIsOwnWork ==
    ASSUME IInv, NEW q \in Requests, OwnWork(q), FlushPatch(q), ~Abort(q)
    PROVE  OwnWork(q)'
<1>1. PICK x \in req[q].seen :
         LET C == Changed(x, req[q].asked)
         IN  /\ C = {} \/ Current(q, x) # {}
             /\ IF C = {}
                THEN UNCHANGED tx
                ELSE Write(q, Current(q, x),
                           {ApplyPatch(y, req[q].asked, C) : y \in Current(q, x)})
             /\ Goto(q, "refresh")
  BY DEF FlushPatch
<1> DEFINE C == Changed(x, req[q].asked)
           rows == Current(q, x)
<1>2. TypeOK /\ req[q].kind = "patch" /\ req[q].step = "flush"
  BY DEF FlushPatch, Granted, At, IInv, LockDiscipline, StepFitsKind
<1>3. /\ tx[q] = NoTx /\ req[q].asked \in Patches
      /\ \A y \in req[q].seen : y = x
  BY <1>2 DEF OwnWork, AppliesItsPatch, Unwritten, At
<1>4. /\ req'[q].step = "refresh"
      /\ req'[q].kind = "patch"
      /\ req'[q].asked = req[q].asked
      /\ req'[q].seen = req[q].seen
  BY <1>1, <1>2, HandlerEffect
<1>5. /\ tx'[q].ins = {}
      /\ \/ tx'[q].old = {} /\ tx'[q].fresh = {}
         \/ \E y \in tx'[q].old : \E D \in SUBSET DOMAIN req[q].asked :
               /\ tx'[q].old = {y}
               /\ tx'[q].fresh = {ApplyPatch(y, req[q].asked, D)}
      /\ \A y \in tx'[q].fresh : y.key = x.key
  <2>1. CASE C = {}
    BY <1>1, <1>3, <2>1 DEF NoTx
  <2>2. CASE C # {}
    <3>1. Write(q, rows, {ApplyPatch(y, req[q].asked, C) : y \in rows}) /\ rows # {}
      BY <1>1, <2>2
    <3>2. rows \subseteq proc
      BY <1>3 DEF Current, View, NoTx
    <3>3. PICK y \in rows : rows = {y} /\ y.key = x.key /\ y \in Row
      <4>1. PICK y \in rows : TRUE
        BY <3>1
      <4>2. \A z \in rows : z = y
        BY <4>1, ViewIsUnique DEF Current, SameRow, UniqueKeys
      <4>3. y.key = x.key /\ y \in Row
        BY <1>2, <3>2, <4>1 DEF Current, SameRow, TypeOK
      <4> QED BY <4>1, <4>2, <4>3
    <3>4. C \in SUBSET DOMAIN req[q].asked
      BY DEF Changed
    <3> HIDE DEF C, rows
    <3>5. Write(q, {y}, {ApplyPatch(y, req[q].asked, C)})
      BY <3>1, <3>3
    <3>6. /\ tx'[q].ins = {}
          /\ tx'[q].old = {y}
          /\ tx'[q].fresh = {ApplyPatch(y, req[q].asked, C)}
      BY <1>2, <1>3, <3>2, <3>3, <3>5, WriteOutcome DEF NoTx
    <3>7. ApplyPatch(y, req[q].asked, C).key = y.key
      BY <3>3 DEF ApplyPatch, Row
    <3> QED BY <3>3, <3>4, <3>6, <3>7
  <2> QED BY <2>1, <2>2
<1>6. AppliesItsPatch(q)'
  BY <1>3, <1>4, <1>5 DEF AppliesItsPatch, At
<1> QED BY <1>2, <1>4, <1>5, <1>6
    DEF OwnWork, AddsItsOwn, DeletesOneRaw, ShowsItsBatch, InsertsItsPost,
        RemovesTheLoaded, Adders, Unwritten, Over

\* Whatever a request does, its transaction stays that of one request.
LEMMA StepIsOwnWork ==
    ASSUME IInv, NEW q \in Requests, OwnWork(q),
           Advance(q) \/ Fails(q) \/ DeadlockVictim(q)
    PROVE  OwnWork(q)'
<1>1. CASE Abort(q)
  <2>1. /\ req'[q] = Fresh(req[q].kind, "aborted", req[q].ans)
        /\ tx'[q] = NoTx
    BY <1>1, AbortEffect DEF IInv
  <2> QED BY <2>1, NothingLeftIsOwnWork DEF Over
<1>2. CASE Commit(q)
  <2>1. /\ req'[q] = Fresh(req[q].kind, "committed", req[q].ans)
        /\ tx'[q] = NoTx
    BY <1>2 DEF Commit, IInv, TypeOK
  <2> QED BY <2>1, NothingLeftIsOwnWork DEF Over
<1>3. CASE ~Abort(q) /\ ~Commit(q)
  BY <1>3, ReadsAreOwnWork, LocalsAreOwnWork, UpsertIsOwnWork, CheckIsOwnWork,
     AddIsOwnWork, DeleteRawIsOwnWork, RowIsOwnWork, FlushIsOwnWork
     DEF Advance, Fails, FetchFails, CommitFails, DbError, DeadlockVictim, NotFound
<1> QED BY <1>1, <1>2, <1>3

-----------------------------------------------------------------------------
(* The raws that requests add and delete stay apart. *)

\* A request that has committed stays so.
LEMMA CommittedIsFinal ==
    ASSUME TypeOK, NEW q \in Requests, At(q, "committed"),
           Advance(q) \/ Fails(q) \/ DeadlockVictim(q)
    PROVE  At(q, "committed")' /\ UNCHANGED <<raws, proc, tx>>
<1>1. Respond(q)
  BY DEF Advance, Start, BulkAdd, CreateRaw, ListUnprocessed, NextRecord, Upsert,
     CheckForeignKey, BatchDone, GetRaw, DeleteRaw, CascadeRow, CascadeDone,
     InsertRow, GetRow, NotFound, FlushPatch, RefreshPatch, DeleteRow, Commit,
     MayCommit, Granted, Fails, FetchFails, CommitFails, DbError, DeadlockVictim,
     Blocks, At, Over
<1>2. PICK a : req' = [req EXCEPT ![q].ans = a]
  BY <1>1 DEF Respond
<1> QED BY <1>1, <1>2 DEF Respond, TypeOK, ReqType, At

\* What a transaction deletes is settled by its DELETE, and given up at its end.
LEMMA DeletedIsSettled ==
    ASSUME IInv, NEW q \in Requests, Advance(q) \/ Fails(q) \/ DeadlockVictim(q),
           ~DeleteRaw(q)
    PROVE  tx'[q].del \subseteq tx[q].del
<1>1. CASE req[q].kind # "delete_raw"
  <2>1. IInv' /\ req'[q].kind = req[q].kind
    BY NextKeeps, StepIsOwn DEF IInv, Next
  <2> QED BY <1>1, <2>1 DEF IInv, LockDiscipline, CascadeIsComplete
<1>2. CASE req[q].kind = "delete_raw"
  <2>1. CASE Abort(q) \/ Commit(q)
    <3>1. tx'[q] = NoTx
      BY <2>1, AbortEffect DEF Commit, IInv, TypeOK
    <3> QED BY <3>1 DEF NoTx
  <2>2. CASE CascadeRow(q)
    BY <2>2, WriteOutcome DEF CascadeRow, IInv
  <2>3. CASE ~Abort(q) /\ ~Commit(q) /\ ~CascadeRow(q)
    <3>1. StepFitsKind(q)
      BY DEF IInv, LockDiscipline
    <3>2. \/ Start(q) \/ GetRaw(q) \/ CascadeDone(q) \/ Respond(q)
      BY <1>2, <2>3, <3>1
         DEF Advance, BulkAdd, CreateRaw, ListUnprocessed, NextRecord, Upsert,
             CheckForeignKey, BatchDone, InsertRow, GetRow, NotFound, FlushPatch,
             RefreshPatch, DeleteRow, Granted, Fails, FetchFails, CommitFails,
             DbError, DeadlockVictim, At, StepFitsKind
    <3>3. UNCHANGED tx
      BY <3>2 DEF Start, GetRaw, CascadeDone, Respond
    <3> QED BY <3>3
  <2> QED BY <2>1, <2>2, <2>3
<1> QED BY <1>1, <1>2

\* Only a commit changes the raws.
LEMMA OnlyCommitsTouchRaws ==
    ASSUME NEW q \in Requests, Advance(q) \/ Fails(q) \/ DeadlockVictim(q), ~Commit(q)
    PROVE  UNCHANGED <<raws, proc>>
  BY DEF Advance, Start, BulkAdd, CreateRaw, Insert, ListUnprocessed,
     NextRecord, Upsert, CheckForeignKey, BatchDone, GetRaw, DeleteRaw,
     CascadeRow, CascadeDone, InsertRow, GetRow, NotFound, FlushPatch,
     RefreshPatch, DeleteRow, Respond, Abort, Fails, FetchFails, CommitFails,
     DbError, DeadlockVictim

\* Deletes wait for each other, and new ids are new.
LEMMA StepKeepsApart ==
    ASSUME CInv, NEW q \in Requests, Advance(q) \/ Fails(q) \/ DeadlockVictim(q)
    PROVE  RawsApart'
<1>1. /\ TypeOK
      /\ \A p \in Requests : tx[p].del \subseteq raws
      /\ \A o, p \in Requests : o # p => tx[o].del \cap tx[p].del = {}
      /\ \A p \in Requests : At(p, "committed") \/ raws \cap Stock[p] = {}
  BY DEF CInv, IInv, WorkOfOneRequest, RawsApart
<1>2. \A p \in Requests \ {q} : req'[p] = req[p] /\ tx'[p] = tx[p]
  BY <1>1, StepIsOwn
<1>3. CASE Commit(q)
  <2>1. /\ raws' = (raws \ tx[q].del) \cup tx[q].ins
        /\ tx'[q] = NoTx
        /\ At(q, "committed")'
    BY <1>1, <1>3 DEF Commit, Fresh, TypeOK, At
  <2>2. tx[q].ins \subseteq Stock[q]
    BY DEF CInv, WorkOfOneRequest, AddsItsOwn
  <2>3. \A p \in Requests : tx'[p].del \subseteq raws'
    BY <1>1, <1>2, <2>1 DEF NoTx
  <2>4. \A o, p \in Requests : o # p => tx'[o].del \cap tx'[p].del = {}
    BY <1>1, <1>2, <2>1 DEF NoTx
  <2>5. \A p \in Requests : At(p, "committed")' \/ raws' \cap Stock[p] = {}
    BY <1>1, <1>2, <2>1, <2>2, FreshStockAssumption DEF At
  <2> QED BY <2>3, <2>4, <2>5 DEF RawsApart
<1>4. CASE ~Commit(q)
  <2>1. raws' = raws
    BY <1>4, OnlyCommitsTouchRaws
  <2>2. At(q, "committed") => At(q, "committed")'
    BY <1>1, CommittedIsFinal
  <2>3. tx'[q].del \subseteq raws /\ \A p \in Requests \ {q} : tx'[q].del \cap tx[p].del = {}
    <3>1. CASE DeleteRaw(q)
      <4>1. tx'[q].del = req[q].cur \cap raws
        BY <1>1, <3>1 DEF DeleteRaw, TypeOK, TxType
      <4>2. \A p \in Requests \ {q} : req[q].cur \cap tx[p].del = {}
        BY <3>1 DEF DeleteRaw, Granted, Blocks, At
      <4> QED BY <4>1, <4>2
    <3>2. CASE ~DeleteRaw(q)
      <4>1. tx'[q].del \subseteq tx[q].del
        BY <3>2, DeletedIsSettled DEF CInv
      <4> QED BY <1>1, <4>1
    <3> QED BY <3>1, <3>2
  <2>4. \A p \in Requests : tx'[p].del \subseteq raws'
    BY <1>1, <1>2, <2>1, <2>3
  <2>5. \A o, p \in Requests : o # p => tx'[o].del \cap tx'[p].del = {}
    BY <1>1, <1>2, <2>3
  <2>6. \A p \in Requests : At(p, "committed")' \/ raws' \cap Stock[p] = {}
    BY <1>1, <1>2, <2>1, <2>2 DEF At
  <2> QED BY <2>4, <2>5, <2>6 DEF RawsApart
<1> QED BY <1>3, <1>4

\* A crash leaves no transaction, and what has committed committed.
LEMMA CrashKeepsWork ==
    ASSUME CInv, Crash
    PROVE  WorkOfOneRequest'
<1>1. ASSUME NEW q \in Requests
      PROVE  OwnWork(q)'
  <2>1. tx'[q] = NoTx
    BY DEF Crash
  <2>2. CASE At(q, "idle")
    <3>1. req'[q] = req[q]
      BY <2>2 DEF Crash
    <3>2. OwnWork(q) /\ tx[q] = NoTx
      BY <2>2 DEF CInv, WorkOfOneRequest, OwnWork, At, Unwritten, Over
    <3> QED BY <2>1, <3>1, <3>2, OwnWorkStays
  <2>3. CASE ~At(q, "idle")
    <3>1. PICK s \in Over : \E a : req'[q] = Fresh(req[q].kind, s, a)
      BY <2>3 DEF Crash, Over
    <3>2. PICK a : req'[q] = Fresh(req[q].kind, s, a)
      BY <3>1
    <3> QED BY <2>1, <3>2, NothingLeftIsOwnWork
  <2> QED BY <2>2, <2>3
<1>2. RawsApart'
  <2>1. \A q \in Requests : At(q, "committed") => At(q, "committed")'
    BY DEF Crash, At, Fresh
  <2>2. raws' = raws /\ \A q \in Requests : tx'[q].del = {}
    BY DEF Crash, NoTx
  <2> QED BY <2>1, <2>2 DEF CInv, WorkOfOneRequest, RawsApart
<1> QED BY <1>1, <1>2 DEF WorkOfOneRequest, OwnWork

\* The invariant is inductive.
LEMMA NextKeepsWork == CInv /\ [Next]_vars => CInv'
<1> SUFFICES ASSUME CInv, [Next]_vars
             PROVE  WorkOfOneRequest'
  BY NextKeeps DEF CInv
<1>1. \A q \in Requests : OwnWork(q)
  BY DEF CInv, WorkOfOneRequest, OwnWork
<1>2. ASSUME NEW q \in Requests, Advance(q) \/ Fails(q) \/ DeadlockVictim(q)
      PROVE  WorkOfOneRequest'
  <2>1. \A p \in Requests \ {q} : req'[p] = req[p] /\ tx'[p] = tx[p]
    BY <1>2, StepIsOwn DEF CInv, IInv
  <2>2. \A p \in Requests \ {q} : OwnWork(p)'
    BY <1>1, <2>1, OwnWorkStays
  <2>3. OwnWork(q)'
    BY <1>1, <1>2, StepIsOwnWork DEF CInv
  <2>4. RawsApart'
    BY <1>2, StepKeepsApart
  <2>5. \A p \in Requests : OwnWork(p)'
    BY <2>2, <2>3
  <2> QED BY <2>4, <2>5 DEF WorkOfOneRequest, OwnWork
<1>3. CASE Crash
  BY <1>3, CrashKeepsWork
<1>4. CASE Finished \/ UNCHANGED vars
  <2>1. raws' = raws /\ req' = req /\ tx' = tx
    BY <1>4 DEF Finished, vars
  <2>2. \A p \in Requests : OwnWork(p)'
    BY <1>1, <2>1, OwnWorkStays
  <2>3. RawsApart'
    BY <2>1 DEF CInv, WorkOfOneRequest, RawsApart, At
  <2> QED BY <2>2, <2>3 DEF WorkOfOneRequest, OwnWork
<1> QED BY <1>2, <1>3, <1>4 DEF Next

\* It holds at the start.
LEMMA InitIsOneRequest == Init => CInv
<1> SUFFICES ASSUME Init
             PROVE  WorkOfOneRequest
  BY InitIsSound DEF CInv
<1>1. ASSUME NEW q \in Requests
      PROVE  OwnWork(q)
  <2>1. PICK k : req[q] = Fresh(k, "idle", "none")
    BY DEF Init
  <2>2. tx[q] = NoTx
    BY DEF Init
  <2> QED BY <2>1, <2>2, NothingIsOwnWork DEF Over
<1>2. RawsApart
  BY FreshStockAssumption DEF Init, RawsApart, NoTx
<1> QED BY <1>1, <1>2 DEF WorkOfOneRequest, OwnWork

\* What open transactions have done is always what one request may do.
THEOREM RequestsWork == Spec => []CInv
  BY InitIsOneRequest, NextKeepsWork, PTL DEF Spec

-----------------------------------------------------------------------------
(* Each commit is one action of ObservationTables. *)

\* A transaction at its end: what it removes and installs is current.
LEMMA AtCommit ==
    ASSUME CInv, NEW q \in Requests, Commit(q)
    PROVE  /\ At(q, "handled") /\ OwnWork(q) /\ OwnOk(q)
           /\ raws \subseteq RawIds /\ proc \subseteq Row
           /\ UniqueKeys(proc)
           /\ raws' = (raws \ tx[q].del) \cup tx[q].ins
           /\ proc' = (proc \ tx[q].old) \cup tx[q].fresh
           /\ tx[q].old \subseteq proc
           /\ tx[q].fresh \subseteq Row
           /\ \A x \in tx[q].fresh : x.raw \in raws
<1>1. At(q, "handled") /\ OwnWork(q) /\ OwnOk(q) /\ TypeOK
  BY DEF Commit, MayCommit, CInv, IInv, WorkOfOneRequest, OwnWork, LockDiscipline, OwnOk
<1>2. \A x \in tx[q].fresh : x.raw \in raws
  BY <1>1 DEF OwnOk, FreshIsBacked, WritesAreCurrent, At, CInv, IInv,
              ReferentialIntegrity
<1>3. tx[q].fresh \subseteq Row
  BY <1>1 DEF TypeOK, TxType
<1> QED BY <1>1, <1>2, <1>3
    DEF Commit, CInv, IInv, TypeOK, UniqueKey, OwnOk, WritesAreCurrent

\* POST /pipeline/ingest and POST /raw-observations.
LEMMA AddersCommit ==
    ASSUME CInv, NEW q \in Requests, Commit(q), req[q].kind \in Adders
    PROVE  Tables!AddRaws(tx[q].ins) /\ tx[q].ins \in SUBSET RawIds
<1>1. /\ tx[q].ins \subseteq Stock[q] /\ tx[q].old = {} /\ tx[q].fresh = {}
      /\ tx[q].del = {}
  BY AtCommit DEF OwnWork, AddsItsOwn, OwnOk, CascadeIsComplete, Adders
<1>2. raws \cap Stock[q] = {}
  BY AtCommit DEF CInv, WorkOfOneRequest, RawsApart, At
<1> QED BY <1>1, <1>2, AtCommit, StockAssumption DEF Tables!AddRaws

\* DELETE /raw-observations/{id}.
LEMMA DeleteRawCommits ==
    ASSUME CInv, NEW q \in Requests, Commit(q), req[q].kind = "delete_raw"
    PROVE  \/ \E r \in RawIds : Tables!RemoveRaw(r)
           \/ UNCHANGED <<raws, proc>>
<1>1. /\ tx[q].ins = {} /\ tx[q].fresh = {}
      /\ \A r, s \in tx[q].del : r = s
      /\ \A x \in tx[q].old : x.raw \in tx[q].del
      /\ \A x \in proc : x.raw \in tx[q].del => x \in tx[q].old
  BY AtCommit DEF OwnWork, AddsItsOwn, DeletesOneRaw, OwnOk, CascadeIsComplete, Adders
<1>2. tx[q].del \subseteq raws
  BY DEF CInv, WorkOfOneRequest, RawsApart
<1>3. CASE tx[q].del = {}
  BY <1>1, <1>3, AtCommit
<1>4. CASE tx[q].del # {}
  <2>1. PICK r \in tx[q].del : TRUE
    BY <1>4
  <2>2. tx[q].del = {r} /\ r \in raws
    BY <1>1, <1>2, <2>1
  <2>3. raws' = raws \ {r}
    BY <1>1, <2>2, AtCommit
  <2>4. proc' = {x \in proc : x.raw # r}
    BY <1>1, <2>2, AtCommit
  <2> QED BY <2>2, <2>3, <2>4, AtCommit DEF Tables!RemoveRaw
<1> QED BY <1>3, <1>4

\* POST /processed-observations.
LEMMA CreateCommits ==
    ASSUME CInv, NEW q \in Requests, Commit(q), req[q].kind = "create"
    PROVE  \/ \E post \in Posts, i \in RowIds : Tables!CreateRow(post, i)
           \/ UNCHANGED <<raws, proc>>
<1>1. /\ tx[q].ins = {} /\ tx[q].del = {} /\ tx[q].old = {}
      /\ tx[q].fresh \subseteq req[q].seen
      /\ \A x, y \in req[q].seen : x = y
      /\ \A x \in req[q].seen : \E post \in Posts : x = PostedRow(post, q)
  BY AtCommit DEF OwnWork, AddsItsOwn, InsertsItsPost, OwnOk, CascadeIsComplete, Adders
<1>2. raws' = raws
  BY <1>1, AtCommit
<1>3. CASE tx[q].fresh = {}
  BY <1>1, <1>2, <1>3, AtCommit
<1>4. CASE tx[q].fresh # {}
  <2>1. PICK x \in tx[q].fresh : TRUE
    BY <1>4
  <2>2. PICK post \in Posts : x = PostedRow(post, q)
    BY <1>1, <2>1
  <2>3. tx[q].fresh = {PostedRow(post, q)} /\ q \in RowIds
    BY <1>1, <2>1, <2>2, RequestsAssumption
  <2>4. post.raw \in raws
    BY <2>2, <2>3, AtCommit DEF PostedRow
  <2>5. \A y \in proc : y.key # post.key
    <3>1. x.key = post.key
      BY <2>2 DEF PostedRow
    <3>2. \A y \in proc : y.key = x.key => y \in tx[q].old
      BY <2>1, AtCommit DEF OwnOk, WritesAreCurrent
    <3> QED BY <1>1, <3>1, <3>2
  <2>6. proc' = proc \cup {Tables!PostedRow(post, q)}
    BY <1>1, <2>3, AtCommit DEF Tables!PostedRow, PostedRow
  <2> QED BY <1>2, <2>3, <2>4, <2>5, <2>6 DEF Tables!CreateRow, Tables!WithKey
<1> QED BY <1>3, <1>4

\* PATCH /processed-observations/{id}.
LEMMA PatchCommits ==
    ASSUME CInv, NEW q \in Requests, Commit(q), req[q].kind = "patch"
    PROVE  \/ \E x \in proc, p \in Patches : \E C \in SUBSET DOMAIN p :
                 /\ p = req[q].asked
                 /\ tx[q].fresh = {ApplyPatch(x, p, C)}
                 /\ Tables!PatchRow(x, p, C)
           \/ UNCHANGED <<raws, proc>>
<1>1. /\ tx[q].ins = {} /\ tx[q].del = {}
      /\ \/ tx[q].old = {} /\ tx[q].fresh = {}
         \/ /\ req[q].asked \in Patches
            /\ \E x \in tx[q].old : \E C \in SUBSET DOMAIN req[q].asked :
                  /\ tx[q].old = {x}
                  /\ tx[q].fresh = {ApplyPatch(x, req[q].asked, C)}
  BY AtCommit DEF OwnWork, AddsItsOwn, AppliesItsPatch, OwnOk, CascadeIsComplete, Adders
<1>2. raws' = raws
  BY <1>1, AtCommit
<1>3. CASE tx[q].old = {} /\ tx[q].fresh = {}
  BY <1>2, <1>3, AtCommit
<1>4. ASSUME req[q].asked \in Patches,
             NEW x \in tx[q].old, NEW C \in SUBSET DOMAIN req[q].asked,
             tx[q].old = {x}, tx[q].fresh = {ApplyPatch(x, req[q].asked, C)}
      PROVE  /\ x \in proc
             /\ Tables!PatchRow(x, req[q].asked, C)
  <2>1. proc' = (proc \ {x}) \cup {Tables!ApplyPatch(x, req[q].asked, C)}
    BY <1>4, AtCommit DEF Tables!ApplyPatch, ApplyPatch
  <2> QED BY <1>2, <1>4, <2>1, AtCommit DEF Tables!PatchRow
<1> QED BY <1>1, <1>3, <1>4

\* DELETE /processed-observations/{id}.
LEMMA DeleteCommits ==
    ASSUME CInv, NEW q \in Requests, Commit(q), req[q].kind = "delete"
    PROVE  \/ \E x \in proc : Tables!RemoveRow(x)
           \/ UNCHANGED <<raws, proc>>
<1>1. /\ tx[q].ins = {} /\ tx[q].del = {} /\ tx[q].fresh = {}
      /\ \A x, y \in req[q].seen : x = y
      /\ \A x \in tx[q].old : \E y \in req[q].seen : SameRow(y, x)
  BY AtCommit DEF OwnWork, AddsItsOwn, RemovesTheLoaded, OwnOk, CascadeIsComplete, Adders
<1>2. \A x, y \in tx[q].old : x = y
  BY <1>1, AtCommit DEF SameRow, UniqueKeys
<1>3. raws' = raws
  BY <1>1, AtCommit
<1>4. CASE tx[q].old = {}
  BY <1>1, <1>3, <1>4, AtCommit
<1>5. CASE tx[q].old # {}
  <2>1. PICK x \in tx[q].old : TRUE
    BY <1>5
  <2>2. tx[q].old = {x}
    BY <1>2, <2>1
  <2> QED BY <1>1, <1>3, <2>2, AtCommit DEF Tables!RemoveRow
<1> QED BY <1>4, <1>5

\* POST /pipeline/process: the raws shown at the end of the batch, one for each
\* event that it wrote, and for new rows the source of the first of the event's.
LEMMA BatchCommits ==
    ASSUME CInv, NEW q \in Requests, Commit(q), req[q].kind = "process"
    PROVE  \/ \E W \in SUBSET raws, i \in RowIds, credit \in [Keys -> Sources] :
                 Tables!ProcessBatch(W, i, credit)
           \/ UNCHANGED <<raws, proc>>
<1>1. /\ tx[q].ins = {} /\ tx[q].del = {}
      /\ \A y \in tx[q].old : \E x \in tx[q].fresh : x.key = y.key
  BY AtCommit DEF OwnWork, AddsItsOwn, OwnOk, OnlyDeletesRemove, CascadeIsComplete,
                  Adders
<1>2. /\ UniqueKeys(tx[q].fresh)
      /\ \A x \in tx[q].fresh, y \in proc : x.key = y.key =>
            y \in tx[q].old /\ x.id = y.id /\ x.source = y.source
  BY AtCommit DEF OwnOk, WritesAreCurrent
<1>3. \A x \in tx[q].fresh : /\ Capture[x.raw].kind = "valid"
                             /\ Capture[x.raw].key = x.key
                             /\ Capture[x.raw].cols = x.cols
                             /\ \/ \E y \in tx[q].old : y.key = x.key
                                \/ x.id = q /\ x.source \in Tables!SourcesOf(x.key)
  BY AtCommit DEF OwnWork, ShowsItsBatch
<1>4. /\ raws' = raws
      /\ proc' = (proc \ tx[q].old) \cup tx[q].fresh
      /\ tx[q].old \subseteq proc /\ tx[q].fresh \subseteq Row /\ proc \subseteq Row
      /\ UniqueKeys(proc)
      /\ raws \subseteq RawIds
      /\ \A x \in tx[q].fresh : x.raw \in raws
  BY <1>1, AtCommit
<1>5. CASE tx[q].fresh = {}
  BY <1>1, <1>4, <1>5
<1>6. CASE tx[q].fresh # {}
  <2> DEFINE fresh == tx[q].fresh
             old == tx[q].old
             W == {x.raw : x \in fresh}
             Credits(k, s) ==
                \A x \in fresh : x.key = k =>
                   /\ s \in Tables!SourcesOf(k)
                   /\ (\A y \in proc : y.key # k) => s = x.source
             credit == [k \in Keys |-> CHOOSE s \in Sources : Credits(k, s)]
  <2>1. \A x \in fresh : Capture[x.raw].source \in Sources
    BY <1>4, CaptureAssumption DEF CaptureType
  <2>2. ASSUME NEW k \in Keys
        PROVE  \E s \in Sources : Credits(k, s)
    <3>1. CASE \A x \in fresh : x.key # k
      BY <1>6, <2>1, <3>1
    <3>2. ASSUME NEW x \in fresh, x.key = k
          PROVE  \E s \in Sources : Credits(k, s)
      <4>1. \A z \in fresh : z.key = k => z = x
        BY <1>2, <3>2 DEF UniqueKeys
      <4>2. Capture[x.raw].source \in Tables!SourcesOf(k)
        BY <1>3, <1>4, <3>2 DEF Tables!SourcesOf
      <4>3. CASE \E y \in proc : y.key = k
        BY <2>1, <4>1, <4>2, <4>3
      <4>4. CASE \A y \in proc : y.key # k
        <5>1. x.source \in Tables!SourcesOf(k) /\ x.source \in Sources
          BY <1>3, <1>4, <3>2, <4>4 DEF Row
        <5> QED BY <4>1, <5>1
      <4> QED BY <4>3, <4>4
    <3> QED BY <3>1, <3>2
  <2>3. \A k \in Keys : credit[k] \in Sources /\ Credits(k, credit[k])
    BY <2>2
  <2>4. credit \in [Keys -> Sources]
    BY <2>3
  <2> HIDE DEF credit
  <2>5. W \subseteq raws /\ \A r \in W : \E x \in fresh : x.raw = r
    BY <1>4
  <2>6. \A r \in W : Capture[r].kind = "valid"
    BY <1>3, <2>5
  <2>7. \A r, s \in W : Capture[r].key = Capture[s].key => r = s
    BY <1>2, <1>3, <2>5 DEF UniqueKeys
  <2>8. \A x \in fresh : x.key \in Keys
    BY <1>4 DEF Row
  <2>9. \A r \in W : credit[Capture[r].key] \in Tables!SourcesOf(Capture[r].key)
    BY <1>3, <2>3, <2>5, <2>8
  <2>10. ASSUME NEW x \in fresh
         PROVE  Tables!Processed(x.raw, q, credit) = {x}
    <3>1. /\ x \in Row /\ Capture[x.raw].key = x.key
          /\ Capture[x.raw].cols = x.cols
          /\ x.key \in Keys
      BY <1>3, <1>4, <2>8
    <3>2. CASE \A y \in proc : y.key # x.key
      <4>1. Tables!WithKey(proc, x.key) = {}
        BY <3>2 DEF Tables!WithKey
      <4>2. Tables!Processed(x.raw, q, credit)
              = {[Tables!NewRow(x.raw, q) EXCEPT !.source = credit[x.key]]}
        BY <3>1, <4>1 DEF Tables!Processed
      <4>3. x.id = q /\ credit[x.key] = x.source
        BY <1>3, <1>4, <2>3, <3>1, <3>2
      <4>4. [Tables!NewRow(x.raw, q) EXCEPT !.source = credit[x.key]] = x
        BY <3>1, <4>3 DEF Tables!NewRow, Row
      <4> QED BY <4>2, <4>4
    <3>3. ASSUME NEW y \in proc, y.key = x.key
          PROVE  Tables!Processed(x.raw, q, credit) = {x}
      <4>1. Tables!WithKey(proc, x.key) = {y}
        BY <1>4, <3>3 DEF Tables!WithKey, UniqueKeys
      <4>2. Tables!Processed(x.raw, q, credit) = {Tables!Overwrite(y, x.raw)}
        BY <3>1, <4>1 DEF Tables!Processed
      <4>3. y \in Row /\ x.id = y.id /\ x.source = y.source
        BY <1>2, <1>4, <3>3
      <4>4. Tables!Overwrite(y, x.raw) = x
        BY <3>1, <3>3, <4>3 DEF Tables!Overwrite, Row
      <4> QED BY <4>2, <4>4
    <3> QED BY <3>2, <3>3
  <2>11. UNION {Tables!Processed(r, q, credit) : r \in W} = fresh
    BY <2>10
  <2>12. proc \ old = {x \in proc : \A r \in W : Capture[r].key # x.key}
    <3>1. ASSUME NEW y \in proc, NEW r \in W, Capture[r].key = y.key
          PROVE  y \in old
      BY <1>2, <1>3, <2>5, <3>1
    <3>2. ASSUME NEW y \in old
          PROVE  \E r \in W : Capture[r].key = y.key
      BY <1>1, <1>3
    <3> QED BY <3>1, <3>2
  <2>13. proc' = {x \in proc : \A r \in W : Capture[r].key # x.key}
                   \cup UNION {Tables!Processed(r, q, credit) : r \in W}
    BY <1>4, <2>11, <2>12
  <2> HIDE DEF W, fresh, old
  <2>14. Tables!ProcessBatch(W, q, credit)
    BY <1>4, <2>5, <2>6, <2>7, <2>9, <2>13 DEF Tables!ProcessBatch
  <2> QED BY <2>4, <2>5, <2>14, RequestsAssumption
<1> QED BY <1>5, <1>6

\* Every step of the requests is a step of the tables, or leaves them alone.
LEMMA StepImplements == CInv /\ [Next]_vars => [Tables!Next]_(Tables!vars)
<1> SUFFICES ASSUME CInv, [Next]_vars
             PROVE  Tables!Next \/ UNCHANGED <<raws, proc>>
  BY DEF Tables!vars
<1>1. ASSUME NEW q \in Requests, Commit(q)
      PROVE  Tables!Next \/ UNCHANGED <<raws, proc>>
  <2>1. req[q].kind \in AllKinds
    BY DEF CInv, IInv, TypeOK, ReqType
  <2>2. CASE req[q].kind \in Adders
    BY <1>1, <2>2, AddersCommit DEF Tables!Next
  <2>3. CASE req[q].kind = "delete_raw"
    BY <1>1, <2>3, DeleteRawCommits DEF Tables!Next
  <2>4. CASE req[q].kind = "create"
    BY <1>1, <2>4, CreateCommits DEF Tables!Next
  <2>5. CASE req[q].kind = "patch"
    BY <1>1, <2>5, PatchCommits DEF Tables!Next
  <2>6. CASE req[q].kind = "delete"
    BY <1>1, <2>6, DeleteCommits DEF Tables!Next
  <2>7. CASE req[q].kind = "process"
    BY <1>1, <2>7, BatchCommits DEF Tables!Next
  <2> QED BY <2>1, <2>2, <2>3, <2>4, <2>5, <2>6, <2>7 DEF AllKinds, Adders
<1>2. ASSUME NEW q \in Requests, Advance(q) \/ Fails(q) \/ DeadlockVictim(q), ~Commit(q)
      PROVE  UNCHANGED <<raws, proc>>
  BY <1>2, OnlyCommitsTouchRaws
<1> QED BY <1>1, <1>2 DEF Next, Crash, Finished, vars

\* However requests interleave, fail, deadlock or crash, what they do to the two
\* tables is a sequence of whole requests: get_db_session's unit of work.
THEOREM RequestsImplementTables == Spec => ImplementsTables
<1>1. Init => Tables!Init
  BY DEF Init, Tables!Init
<1> QED
  BY <1>1, StepImplements, RequestsWork, PTL DEF Spec, ImplementsTables, Tables!Spec

-----------------------------------------------------------------------------
(* What may be said of a commit, by the kind of its request. *)

\* A request gets from "handled" to "committed" by its commit only.
LEMMA OnlyCommitCommits ==
    ASSUME TypeOK, [Next]_vars, NEW q \in Requests, Commits(q)
    PROVE  Commit(q)
<1>1. req[q].step = "handled" /\ req'[q].step = "committed"
  BY DEF Commits, At
<1>2. ASSUME NEW p \in Requests, Advance(p) \/ Fails(p) \/ DeadlockVictim(p)
      PROVE  p = q
  BY <1>1, <1>2, StepIsOwn
<1>3. ~Abort(q)
  <2>1. ASSUME Abort(q)
        PROVE  req'[q].step = "aborted"
    <3>1. req'[q] = Fresh(req[q].kind, "aborted", req[q].ans)
      BY <2>1, AbortEffect
    <3> QED BY <3>1 DEF Fresh
  <2> QED BY <1>1, <2>1
<1>4. CASE Advance(q)
  <2>1. Commit(q) \/ Respond(q)
    BY <1>1, <1>4 DEF Advance, Start, BulkAdd, CreateRaw, ListUnprocessed, NextRecord,
       Upsert, CheckForeignKey, BatchDone, GetRaw, DeleteRaw, CascadeRow, CascadeDone,
       InsertRow, GetRow, NotFound, FlushPatch, RefreshPatch, DeleteRow, Granted, At
  <2>2. ASSUME Respond(q)
        PROVE  req'[q].step = req[q].step
    <3>1. PICK a : req' = [req EXCEPT ![q].ans = a]
      BY <2>2 DEF Respond
    <3> QED BY <3>1 DEF TypeOK, ReqType
  <2> QED BY <1>1, <2>1, <2>2
<1>5. CASE Fails(q) \/ DeadlockVictim(q)
  BY <1>3, <1>5 DEF Fails, FetchFails, CommitFails, DbError, DeadlockVictim
<1>6. ~Crash
  <2>1. ASSUME Crash
        PROVE  req'[q].step = "aborted"
    BY <1>1, <2>1 DEF Crash, Fresh, At
  <2> QED BY <1>1, <2>1
<1>7. ~Finished /\ ~UNCHANGED vars
  BY <1>1 DEF Finished, vars
<1> QED BY <1>2, <1>4, <1>5, <1>6, <1>7 DEF Next

\* Every other column of the patched row is as committed before.
LEMMA StepTouchesOnlyAsked ==
    ASSUME CInv, [Next]_vars, NEW q \in Requests, Commits(q), req[q].kind = "patch",
           NEW x \in proc, NEW y \in proc', SameRow(x, y),
           NEW c \in Columns \ DOMAIN req[q].asked
    PROVE  y.cols[c] = x.cols[c]
<1>1. Commit(q)
  BY OnlyCommitCommits DEF CInv, IInv
<1>2. UniqueKeys(proc) /\ proc' = (proc \ tx[q].old) \cup tx[q].fresh /\ proc \subseteq Row
  BY <1>1, AtCommit
<1>3. CASE y \in proc
  BY <1>2, <1>3 DEF UniqueKeys, SameRow
<1>4. CASE y \in tx[q].fresh
  <2>1. PICK z \in tx[q].old, C \in SUBSET DOMAIN req[q].asked :
           tx[q].fresh = {ApplyPatch(z, req[q].asked, C)}
    BY <1>1, <1>4, AtCommit DEF OwnWork, AppliesItsPatch
  <2>2. z \in proc /\ z \in Row /\ y = ApplyPatch(z, req[q].asked, C)
    BY <1>1, <1>2, <1>4, <2>1, AtCommit
  <2>3. z = x
    BY <1>2, <2>2 DEF UniqueKeys, SameRow, ApplyPatch, Row
  <2>4. y.cols = [d \in Columns |-> IF d \in C THEN req[q].asked[d] ELSE z.cols[d]]
    BY <2>2 DEF ApplyPatch, Row
  <2> QED BY <2>3, <2>4
<1> QED BY <1>2, <1>3, <1>4

\* A PATCH never writes a column that it was not asked to: whatever committed
\* between its read and its UPDATE stays (unit of work, PATCH endpoint).
THEOREM RequestsTouchOnlyAsked == Spec => PatchTouchesOnlyAsked
<1> DEFINE Touches == \A q \in Requests : Commits(q) /\ req[q].kind = "patch" =>
                         \A x \in proc, y \in proc' : SameRow(x, y) =>
                            \A c \in Columns \ DOMAIN req[q].asked :
                               y.cols[c] = x.cols[c]
<1>1. CInv /\ [Next]_vars => [Touches]_vars
  BY StepTouchesOnlyAsked
<1> QED BY <1>1, RequestsWork, PTL DEF Spec, PatchTouchesOnlyAsked

\* What a PATCH that has written answers is what its commit installs.
LEMMA StepAnswersWhatItCommits ==
    ASSUME CInv, [Next]_vars, NEW q \in Requests, Commits(q), req[q].kind = "patch",
           tx[q].fresh # {}
    PROVE  req[q].seen \subseteq proc'
<1>1. Commit(q)
  BY OnlyCommitCommits DEF CInv, IInv
<1>2. proc' = (proc \ tx[q].old) \cup tx[q].fresh /\ req[q].seen \subseteq tx[q].fresh
  BY <1>1, AtCommit DEF OwnWork, AppliesItsPatch, Commits
<1> QED BY <1>2

\* A client that has patched a row is shown the row that it has left there, with
\* what others committed after the SELECT (repository.update, the refresh).
THEOREM RequestsAnswerWhatTheyCommit == Spec => PatchAnswersWhatItCommits
<1> DEFINE Answers == \A q \in Requests :
                         Commits(q) /\ req[q].kind = "patch" /\ tx[q].fresh # {} =>
                            req[q].seen \subseteq proc'
<1>1. CInv /\ [Next]_vars => [Answers]_vars
  BY StepAnswersWhatItCommits
<1> QED BY <1>1, RequestsWork, PTL DEF Spec, PatchAnswersWhatItCommits

\* At its commit, a batch has a row for each valid raw it listed.
LEMMA StepShowsBatch ==
    ASSUME CInv, [Next]_vars, NEW q \in Requests, Commits(q), req[q].kind = "process",
           NEW r \in req[q].batch, Capture[r].kind = "valid"
    PROVE  \E y \in proc' : y.key = Capture[r].key /\ y.raw \in req[q].batch
<1>1. Commit(q)
  BY OnlyCommitCommits DEF CInv, IInv
<1>2. /\ proc' = (proc \ tx[q].old) \cup tx[q].fresh
      /\ req[q].done = req[q].batch
      /\ \A x \in tx[q].fresh : x.raw \in req[q].done
      /\ \A o \in req[q].done : \/ Capture[o].kind # "valid"
                                \/ \E x \in tx[q].fresh : x.key = Capture[o].key
  BY <1>1, AtCommit DEF OwnWork, ShowsItsBatch, At
<1> QED BY <1>2

\* No valid raw of a batch is lost: neither to an invalid neighbour, nor to
\* another capture of its event in the same batch, nor to other requests.
THEOREM RequestsShowBatches == Spec => BatchIsShown
<1> DEFINE Shows == \A q \in Requests : Commits(q) /\ req[q].kind = "process" =>
                       \A r \in req[q].batch : Capture[r].kind = "valid" =>
                          \E y \in proc' : y.key = Capture[r].key
                                             /\ y.raw \in req[q].batch
<1>1. CInv /\ [Next]_vars => [Shows]_vars
  BY StepShowsBatch
<1> QED BY <1>1, RequestsWork, PTL DEF Spec, BatchIsShown

\* A row that is gone was deleted, or its raw was.
LEMMA StepVanishesOnlyByDelete ==
    ASSUME CInv, [Next]_vars, NEW x \in proc, \A y \in proc' : ~SameRow(x, y)
    PROVE  \E q \in Requests : Commits(q) /\
              \/ req[q].kind = "delete" /\ \E y \in req[q].seen : SameRow(x, y)
              \/ x.raw \in tx[q].del
<1>1. SameRow(x, x)
  BY DEF SameRow
<1>2. PICK q \in Requests : Commit(q)
  BY <1>1, OnlyCommitsWrite
<1>3. Commits(q)
  BY <1>2 DEF Commit, MayCommit, Commits, At, Fresh, CInv, IInv, TypeOK
<1>4. x \in tx[q].old
  BY <1>1, <1>2, AtCommit
<1>5. req[q].kind \in {"delete", "delete_raw"}
  <2>1. ASSUME req[q].kind \notin {"delete", "delete_raw"}
        PROVE  FALSE
    <3>1. PICK y \in tx[q].fresh : y.key = x.key
      BY <1>2, <1>4, <2>1, AtCommit DEF OwnOk, OnlyDeletesRemove
    <3>2. y.id = x.id
      BY <1>2, <3>1, AtCommit DEF OwnOk, WritesAreCurrent
    <3> QED BY <1>2, <3>1, <3>2, AtCommit DEF SameRow
  <2> QED BY <2>1
<1>6. CASE req[q].kind = "delete"
  BY <1>2, <1>3, <1>4, <1>6, AtCommit DEF OwnWork, RemovesTheLoaded, SameRow
<1>7. CASE req[q].kind = "delete_raw"
  BY <1>2, <1>3, <1>4, <1>7, AtCommit DEF OwnWork, DeletesOneRaw
<1> QED BY <1>5, <1>6, <1>7

\* No upsert, edit or failure makes a processed row disappear.
THEOREM RequestsVanishOnlyByDelete == Spec => RowsVanishOnlyByDelete
<1> DEFINE Vanish == \A x \in proc : (\A y \in proc' : ~SameRow(x, y)) =>
                        \E q \in Requests : Commits(q) /\
                           \/ req[q].kind = "delete" /\ \E y \in req[q].seen : SameRow(x, y)
                           \/ x.raw \in tx[q].del
<1>1. CInv /\ [Next]_vars => [Vanish]_vars
  BY StepVanishesOnlyByDelete
<1> QED BY <1>1, RequestsWork, PTL DEF Spec, RowsVanishOnlyByDelete

\* Every open transaction has done what one request of its kind may do.
THEOREM RequestsDoOneThing == Spec => []WorkOfOneRequest
<1>1. CInv => WorkOfOneRequest
  BY DEF CInv
<1> QED BY <1>1, RequestsWork, PTL

=============================================================================
