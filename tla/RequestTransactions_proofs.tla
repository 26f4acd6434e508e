--------------------- MODULE RequestTransactions_proofs ---------------------
(***************************************************************************)
(* Interleaved requests keep the tables typed, one row per event, and every*)
(* row backed by a raw, for any requests, captures and interleavings.      *)
(***************************************************************************)
EXTENDS RequestTransactions, Observations_proofs

\* What a handler holds on entering a step is well-typed.
LEMMA FreshIsTyped ==
    ASSUME NEW k \in AllKinds, NEW s \in Steps,
           NEW a \in {"none", "ok", "error", "lost"}
    PROVE  Fresh(k, s, a) \in ReqType
<1>1. NoPatch \in [{} -> Values]
  BY DEF NoPatch
<1>2. NoPatch \in PatchType
  BY <1>1 DEF PatchType
<1> HIDE DEF NoPatch
<1> QED BY <1>2 DEF Fresh, ReqType

\* The transaction that has done nothing is a transaction.
LEMMA NoTxIsTyped == NoTx \in TxType
  BY DEF NoTx, TxType

\* A rollback keeps the types.
LEMMA AbortIsTyped ==
    ASSUME TypeOK, NEW q \in Requests, Abort(q)
    PROVE  TypeOK'
<1>1. Fresh(req[q].kind, "aborted", req[q].ans) \in ReqType
  BY FreshIsTyped DEF TypeOK, ReqType, Steps
<1>2. QED BY <1>1, NoTxIsTyped DEF Abort, TypeOK

\* Rows superseded and installed by a statement keep the types.
LEMMA WriteIsTyped ==
    ASSUME TypeOK, NEW q \in Requests, NEW rows, NEW new \in SUBSET Row,
           Write(q, rows, new)
    PROVE  tx' \in [Requests -> TxType]
<1> DEFINE old == tx[q].old \cup (rows \cap proc)
           fresh == (tx[q].fresh \ rows) \cup new
<1>1. tx \in [Requests -> TxType] /\ proc \subseteq Row
  BY DEF TypeOK
<1>2. old \subseteq Row /\ fresh \subseteq Row
  BY <1>1 DEF TxType
<1>3. tx' = [tx EXCEPT ![q].old = old, ![q].fresh = fresh]
  BY DEF Write
<1> HIDE DEF old, fresh
<1> QED BY <1>1, <1>2, <1>3 DEF TxType

\* Moving a handler on to another of the steps keeps it typed.
LEMMA GotoIsTyped ==
    ASSUME TypeOK, NEW q \in Requests, NEW s \in Steps, Goto(q, s)
    PROVE  req' \in [Requests -> ReqType]
  BY DEF Goto, TypeOK, ReqType

\* A statement that also leaves something in one of the handler's variables.
LEMMA LocalsAreTyped ==
    ASSUME TypeOK, NEW q \in Requests, NEW s \in Steps,
           NEW R \in SUBSET RawIds, NEW X \in SUBSET Row
    PROVE  /\ [req EXCEPT ![q].step = s, ![q].cur = R] \in [Requests -> ReqType]
           /\ [req EXCEPT ![q].step = s, ![q].batch = R] \in [Requests -> ReqType]
           /\ [req EXCEPT ![q].step = s, ![q].seen = X] \in [Requests -> ReqType]
<1> DEFINE at == [req EXCEPT ![q].step = s]
<1>1. at \in [Requests -> ReqType]
  BY DEF TypeOK, ReqType
<1> HIDE DEF at
<1>2. /\ [at EXCEPT ![q].cur = R] \in [Requests -> ReqType]
      /\ [at EXCEPT ![q].batch = R] \in [Requests -> ReqType]
      /\ [at EXCEPT ![q].seen = X] \in [Requests -> ReqType]
  BY <1>1 DEF ReqType
<1> QED BY <1>2 DEF at

\* The rows that a transaction sees are rows.
LEMMA ViewIsRows ==
    ASSUME TypeOK, NEW q \in Requests
    PROVE  View(q) \subseteq Row
  BY DEF View, TypeOK, TxType

-----------------------------------------------------------------------------

\* Every step of a handler keeps the types.
LEMMA AdvanceIsTyped ==
    ASSUME TypeOK, NEW q \in Requests, Advance(q)
    PROVE  TypeOK'
<1>1. CASE Start(q)
  <2>1. req[q].kind # "create" => FirstStep[req[q].kind] \in Steps
    BY DEF TypeOK, ReqType, AllKinds, FirstStep, Steps
  <2>2. \A post \in Posts : PostedRow(post, q) \in Row
    BY RequestsAssumption, PostedRowIsRow
  <2>3. req' \in [Requests -> ReqType]
    BY <1>1, <2>1, <2>2 DEF Start, Goto, TypeOK, ReqType, Steps
  <2> QED BY <1>1, <2>3 DEF Start, TypeOK
<1>2. CASE BulkAdd(q) \/ CreateRaw(q)
  <2>1. PICK S \in SUBSET RawIds : Insert(q, S)
    BY <1>2, StockAssumption DEF BulkAdd, CreateRaw
  <2> QED BY <2>1, GotoIsTyped DEF Insert, TypeOK, TxType, Steps
<1>3. CASE ListUnprocessed(q)
  <2>1. PICK B \in SUBSET RawIds :
           req' = [req EXCEPT ![q].step = "next", ![q].batch = B]
    BY <1>3 DEF ListUnprocessed, Pending, TypeOK
  <2>2. "next" \in Steps
    BY DEF Steps
  <2>3. [req EXCEPT ![q].step = "next", ![q].batch = B] \in [Requests -> ReqType]
    BY <2>2, LocalsAreTyped
  <2> QED BY <1>3, <2>1, <2>3, <2>2 DEF ListUnprocessed, TypeOK
<1>4. CASE NextRecord(q)
  <2>1. CASE Abort(q)
    BY <2>1, AbortIsTyped
  <2>2. CASE ~Abort(q)
    BY <1>4, <2>2 DEF NextRecord, TypeOK, ReqType, Steps
  <2> QED BY <2>1, <2>2
<1>5. CASE BatchDone(q)
  BY <1>5, GotoIsTyped DEF BatchDone, TypeOK, Steps
<1>6. CASE CheckForeignKey(q)
  <2>1. CASE Abort(q)
    BY <2>1, AbortIsTyped
  <2>2. CASE ~Abort(q)
    <3>1. /\ Goto(q, IF req[q].kind = "process" THEN "next" ELSE "handled")
          /\ tx' = [tx EXCEPT ![q].shared = @ \cup req[q].cur]
          /\ UNCHANGED <<raws, proc>>
      BY <1>6, <2>2 DEF CheckForeignKey
    <3>2. tx' \in [Requests -> TxType]
      <4> DEFINE shared == tx[q].shared \cup req[q].cur
      <4>1. tx \in [Requests -> TxType] /\ shared \subseteq RawIds
        BY DEF TypeOK, TxType, ReqType
      <4>2. tx' = [tx EXCEPT ![q].shared = shared]
        BY <3>1
      <4> HIDE DEF shared
      <4> QED BY <4>1, <4>2 DEF TxType
    <3>3. (IF req[q].kind = "process" THEN "next" ELSE "handled") \in Steps
      BY DEF Steps
    <3>4. req' \in [Requests -> ReqType]
      BY <3>1, <3>3, GotoIsTyped
    <3> QED BY <3>1, <3>2, <3>4 DEF TypeOK
  <2> QED BY <2>1, <2>2
<1>7. CASE GetRaw(q)
  <2>1. PICK r \in raws : req' = [req EXCEPT ![q].step = "delete_raw", ![q].cur = {r}]
    BY <1>7 DEF GetRaw
  <2>2. {r} \in SUBSET RawIds
    BY DEF TypeOK
  <2>3. req' \in [Requests -> ReqType]
    BY <2>1, <2>2, LocalsAreTyped DEF Steps
  <2> QED BY <1>7, <2>3 DEF GetRaw, TypeOK
<1>8. CASE DeleteRaw(q)
  <2>1. tx' \in [Requests -> TxType]
    BY <1>8 DEF DeleteRaw, TypeOK, TxType
  <2> QED BY <1>8, <2>1, GotoIsTyped DEF DeleteRaw, TypeOK, Steps
<1>9. CASE CascadeRow(q)
  BY <1>9, WriteIsTyped DEF CascadeRow, TypeOK
<1>10. CASE CascadeDone(q)
  BY <1>10, GotoIsTyped DEF CascadeDone, TypeOK, Steps
<1>11. CASE InsertRow(q)
  <2>1. CASE Abort(q)
    BY <2>1, AbortIsTyped
  <2>2. CASE ~Abort(q)
    <3>1. PICK x \in req[q].seen :
             /\ Write(q, {}, {x})
             /\ req' = [req EXCEPT ![q].step = "check", ![q].cur = {x.raw}]
             /\ UNCHANGED <<raws, proc>>
      BY <1>11, <2>2 DEF InsertRow
    <3>2. x \in Row /\ {x.raw} \in SUBSET RawIds
      BY DEF TypeOK, ReqType, Row
    <3>3. req' \in [Requests -> ReqType]
      BY <3>1, <3>2, LocalsAreTyped DEF Steps
    <3> QED BY <3>1, <3>2, <3>3, WriteIsTyped DEF TypeOK
  <2> QED BY <2>1, <2>2
<1>12. CASE GetRow(q)
  <2>1. PICK x \in proc :
           \/ req' = [req EXCEPT ![q].step = "delete", ![q].seen = {x}]
           \/ \E p \in Patches :
                 req' = [req EXCEPT ![q].step = "flush", ![q].seen = {x}, ![q].asked = p]
    BY <1>12 DEF GetRow
  <2>2. {x} \in SUBSET Row
    BY DEF TypeOK
  <2>3. CASE req' = [req EXCEPT ![q].step = "delete", ![q].seen = {x}]
    <3>1. "delete" \in Steps
      BY DEF Steps
    <3>2. req' \in [Requests -> ReqType]
      BY <2>2, <2>3, <3>1, LocalsAreTyped
    <3> QED BY <1>12, <3>2 DEF GetRow, TypeOK
  <2>4. ASSUME NEW p \in Patches,
               req' = [req EXCEPT ![q].step = "flush", ![q].seen = {x}, ![q].asked = p]
        PROVE  TypeOK'
    <3> DEFINE seen == [req EXCEPT ![q].step = "flush", ![q].seen = {x}]
    <3>0. "flush" \in Steps
      BY DEF Steps
    <3>1. seen \in [Requests -> ReqType]
      BY <2>2, <3>0, LocalsAreTyped
    <3>2. req' = [seen EXCEPT ![q].asked = p] /\ p \in PatchType
      BY <2>4, PatchesAssumption DEF TypeOK
    <3> HIDE DEF seen
    <3>3. req' \in [Requests -> ReqType]
      BY <3>1, <3>2 DEF ReqType
    <3> QED BY <1>12, <3>3 DEF GetRow, TypeOK
  <2> QED BY <2>1, <2>3, <2>4
<1>13. CASE NotFound(q)
  BY <1>13, AbortIsTyped DEF NotFound
<1>14. CASE FlushPatch(q)
  <2>1. CASE Abort(q)
    BY <2>1, AbortIsTyped
  <2>2. CASE ~Abort(q)
    <3>1. PICK x \in req[q].seen :
             LET C == Changed(x, req[q].asked)
             IN  /\ IF C = {}
                    THEN UNCHANGED tx
                    ELSE Write(q, Current(q, x),
                               {ApplyPatch(y, req[q].asked, C) : y \in Current(q, x)})
                 /\ Goto(q, "refresh")
                 /\ UNCHANGED <<raws, proc>>
      BY <1>14, <2>2 DEF FlushPatch
    <3> DEFINE C == Changed(x, req[q].asked)
               new == {ApplyPatch(y, req[q].asked, C) : y \in Current(q, x)}
    <3>2. C \subseteq DOMAIN req[q].asked
      BY DEF Changed
    <3>3. req[q].asked \in PatchType /\ Current(q, x) \subseteq Row
      BY ViewIsRows DEF TypeOK, ReqType, Current
    <3> HIDE DEF C
    <3>4. new \subseteq Row
      BY <3>2, <3>3, ApplyPatchIsRow
    <3> HIDE DEF new
    <3>5. tx' = tx \/ Write(q, Current(q, x), new)
      BY <3>1 DEF C, new
    <3>6. tx' \in [Requests -> TxType]
      BY <3>4, <3>5, WriteIsTyped DEF TypeOK
    <3> QED BY <3>1, <3>6, GotoIsTyped DEF TypeOK, Steps
  <2> QED BY <2>1, <2>2
<1>15. CASE RefreshPatch(q)
  <2>1. CASE Abort(q)
    BY <2>1, AbortIsTyped
  <2>2. CASE ~Abort(q)
    <3>1. PICK now \in SUBSET View(q) :
             /\ req' = [req EXCEPT ![q].step = "handled", ![q].seen = now]
             /\ UNCHANGED <<raws, proc, tx>>
      BY <1>15, <2>2 DEF RefreshPatch, Current
    <3>2. now \in SUBSET Row
      BY ViewIsRows
    <3>3. "handled" \in Steps
      BY DEF Steps
    <3>4. [req EXCEPT ![q].step = "handled", ![q].seen = now] \in [Requests -> ReqType]
      BY <3>2, <3>3, LocalsAreTyped
    <3> QED BY <3>1, <3>4 DEF TypeOK
  <2> QED BY <2>1, <2>2
<1>16. CASE DeleteRow(q)
  BY <1>16, WriteIsTyped, GotoIsTyped DEF DeleteRow, TypeOK, Steps
<1>17. CASE Commit(q)
  <2>1. Fresh(req[q].kind, "committed", req[q].ans) \in ReqType
    BY FreshIsTyped DEF TypeOK, ReqType, Steps
  <2>2. req' \in [Requests -> ReqType] /\ tx' \in [Requests -> TxType]
    BY <1>17, <2>1, NoTxIsTyped DEF Commit, TypeOK
  <2>3. raws' \subseteq RawIds /\ proc' \subseteq Row
    BY <1>17 DEF Commit, TypeOK, TxType
  <2> QED BY <2>2, <2>3 DEF TypeOK
<1>18. CASE Respond(q)
  <2>1. PICK a \in {"ok", "error"} : req' = [req EXCEPT ![q].ans = a]
    BY <1>18 DEF Respond
  <2>2. req' \in [Requests -> ReqType]
    BY <2>1 DEF TypeOK, ReqType
  <2> QED BY <1>18, <2>2 DEF Respond, TypeOK
<1>19. CASE Upsert(q)
  <2>1. PICK r \in req[q].cur :
           LET rows == WithKey(View(q), Capture[r].key)
           IN  /\ Write(q, rows, Upserted(View(q), r, q))
               /\ Goto(q, IF \E x \in rows : x.raw = r THEN "next" ELSE "check")
    BY <1>19 DEF Upsert
  <2>2. r \in RawIds /\ q \in RowIds
    BY RequestsAssumption DEF TypeOK, ReqType
  <2>3. Upserted(View(q), r, q) \subseteq Row
    BY <2>2, ViewIsRows, NewRowIsRow, OverwriteIsRow DEF Upserted, WithKey
  <2>4. tx' \in [Requests -> TxType]
    BY <2>1, <2>3, WriteIsTyped
  <2>5. req' \in [Requests -> ReqType]
    BY <2>1, GotoIsTyped DEF Steps
  <2> QED BY <1>19, <2>4, <2>5 DEF Upsert, TypeOK
<1> QED
  BY <1>1, <1>2, <1>3, <1>4, <1>5, <1>6, <1>7, <1>8, <1>9, <1>10, <1>11, <1>12,
     <1>13, <1>14, <1>15, <1>16, <1>17, <1>18, <1>19 DEF Advance

\* A crash keeps the types.
LEMMA CrashIsTyped ==
    ASSUME TypeOK, Crash
    PROVE  TypeOK'
<1>1. \A q \in Requests :
         Fresh(req[q].kind,
               IF At(q, "committed") THEN "committed" ELSE "aborted",
               IF req[q].ans = "none" THEN "lost" ELSE req[q].ans) \in ReqType
  BY FreshIsTyped DEF TypeOK, ReqType, Steps
<1> QED BY <1>1, NoTxIsTyped DEF Crash, TypeOK

\* Every step keeps the types.
LEMMA NextIsTyped == TypeOK /\ [Next]_vars => TypeOK'
<1> SUFFICES ASSUME TypeOK, [Next]_vars
             PROVE  TypeOK'
  OBVIOUS
<1>1. ASSUME NEW q \in Requests, Advance(q)
      PROVE  TypeOK'
  BY <1>1, AdvanceIsTyped
<1>2. ASSUME NEW q \in Requests, Fails(q) \/ DeadlockVictim(q)
      PROVE  TypeOK'
  BY <1>2, AbortIsTyped DEF Fails, FetchFails, CommitFails, DbError, DeadlockVictim
<1>3. CASE Crash
  BY <1>3, CrashIsTyped
<1>4. CASE Finished \/ UNCHANGED vars
  BY <1>4 DEF Finished, vars, TypeOK
<1> QED BY <1>1, <1>2, <1>3, <1>4 DEF Next

\* The seeds are typed tables.
LEMMA InitIsTyped == Init => TypeOK
<1> SUFFICES ASSUME Init
             PROVE  TypeOK
  OBVIOUS
<1>1. \A k \in AllKinds : Fresh(k, "idle", "none") \in ReqType
  BY FreshIsTyped DEF Steps
<1>2. req \in [Requests -> ReqType]
  BY <1>1 DEF Init
<1>3. raws \subseteq RawIds /\ proc \subseteq Row
  BY SeedsAssumption DEF Init
<1> QED BY <1>2, <1>3, NoTxIsTyped DEF Init, TypeOK

\* Every state of every history is well-typed.
THEOREM RequestsTyping == Spec => []TypeOK
  BY InitIsTyped, NextIsTyped, PTL DEF Spec

-----------------------------------------------------------------------------
(* The inductive invariant: the integrity of the tables, and what the open  *)
(* transactions must hold for their commits to keep it.                     *)

IInv == TypeOK /\ UniqueKey /\ ReferentialIntegrity /\ LockDiscipline

\* The part of LockDiscipline that concerns one request alone.
OwnOk(q) == /\ WritesAreCurrent(q)
            /\ FreshIsBacked(q)
            /\ OnlyDeletesRemove(q)
            /\ CascadeIsComplete(q)
            /\ StepFitsKind(q)

\* A step of q that leaves the tables alone has only q's own part to restore.
LEMMA OwnStep ==
    ASSUME IInv, NEW q \in Requests, TypeOK', UNCHANGED <<raws, proc>>,
           \A p \in Requests \ {q} : req'[p] = req[p] /\ tx'[p] = tx[p],
           OwnOk(q)',
           \A p \in Requests \ {q} : Exclusive(p, q)' /\ Exclusive(q, p)'
    PROVE  IInv'
<1>1. UniqueKey' /\ ReferentialIntegrity'
  BY DEF IInv, UniqueKey, ReferentialIntegrity
<1>2. ASSUME NEW p \in Requests \ {q}
      PROVE  OwnOk(p)'
  <2>1. req'[p] = req[p] /\ tx'[p] = tx[p] /\ raws' = raws /\ proc' = proc
    OBVIOUS
  <2>2. WritesAreCurrent(p) /\ FreshIsBacked(p) /\ OnlyDeletesRemove(p)
          /\ CascadeIsComplete(p) /\ StepFitsKind(p)
    BY DEF IInv, LockDiscipline
  <2>3. WritesAreCurrent(p)'
    BY <2>1, <2>2 DEF WritesAreCurrent
  <2>4. FreshIsBacked(p)'
    BY <2>1, <2>2 DEF FreshIsBacked, At
  <2>5. OnlyDeletesRemove(p)'
    BY <2>1, <2>2 DEF OnlyDeletesRemove
  <2>6. CascadeIsComplete(p)'
    BY <2>1, <2>2 DEF CascadeIsComplete, At
  <2>7. StepFitsKind(p)'
    BY <2>1, <2>2 DEF StepFitsKind, At
  <2> QED BY <2>3, <2>4, <2>5, <2>6, <2>7 DEF OwnOk
<1>3. ASSUME NEW o \in Requests, NEW p \in Requests, o # p
      PROVE  Exclusive(o, p)'
  <2>1. CASE o = q \/ p = q
    BY <1>3, <2>1
  <2>2. CASE o # q /\ p # q
    <3>1. Exclusive(o, p) /\ tx'[o] = tx[o] /\ tx'[p] = tx[p]
      BY <1>3, <2>2 DEF IInv, LockDiscipline
    <3> QED BY <3>1 DEF Exclusive, Written
  <2> QED BY <2>1, <2>2
<1> QED BY <1>1, <1>2, <1>3 DEF IInv, LockDiscipline, OwnOk

\* A rollback leaves nothing of the transaction.
LEMMA AbortKeeps ==
    ASSUME IInv, NEW q \in Requests, Abort(q)
    PROVE  IInv'
<1>1. TypeOK'
  BY AbortIsTyped DEF IInv
<1>2. /\ tx'[q] = NoTx
      /\ req'[q] = Fresh(req[q].kind, "aborted", req[q].ans)
      /\ UNCHANGED <<raws, proc>>
      /\ \A p \in Requests \ {q} : req'[p] = req[p] /\ tx'[p] = tx[p]
  BY DEF Abort, IInv, TypeOK
<1>3. OwnOk(q)'
  BY <1>2 DEF OwnOk, WritesAreCurrent, FreshIsBacked, OnlyDeletesRemove,
              CascadeIsComplete, StepFitsKind, At, NoTx, Fresh, UniqueKeys
<1>4. \A p \in Requests \ {q} : Exclusive(p, q)' /\ Exclusive(q, p)'
  BY <1>2 DEF Exclusive, Written, NoTx
<1> QED BY <1>1, <1>2, <1>3, <1>4, OwnStep

\* A step in which q neither writes nor locks: what it holds must fit where
\* the handler goes.
LEMMA LocalKeeps ==
    ASSUME IInv, NEW q \in Requests, TypeOK', UNCHANGED <<raws, proc, tx>>,
           \A p \in Requests \ {q} : req'[p] = req[p],
           req'[q].kind = req[q].kind,
           ~At(q, "check") \/ req'[q] = req[q],
           At(q, "handled")' =>
              \/ At(q, "handled")
              \/ req[q].kind # "delete_raw"
              \/ \A x \in proc : x.raw \in tx[q].del => x \in tx[q].old,
           StepFitsKind(q)'
    PROVE  IInv'
<1>1. OwnOk(q)
  BY DEF IInv, LockDiscipline, OwnOk
<1>2. raws' = raws /\ proc' = proc /\ tx'[q] = tx[q]
  OBVIOUS
<1>3. WritesAreCurrent(q)'
  BY <1>1, <1>2 DEF OwnOk, WritesAreCurrent
<1>4. FreshIsBacked(q)'
  BY <1>1, <1>2 DEF OwnOk, FreshIsBacked, At
<1>5. OnlyDeletesRemove(q)'
  BY <1>1, <1>2 DEF OwnOk, OnlyDeletesRemove
<1>6. CascadeIsComplete(q)'
  BY <1>1, <1>2 DEF OwnOk, CascadeIsComplete, At
<1>7. OwnOk(q)'
  BY <1>3, <1>4, <1>5, <1>6 DEF OwnOk
<1>8. \A p \in Requests \ {q} : Exclusive(p, q)' /\ Exclusive(q, p)'
  BY DEF IInv, LockDiscipline, Exclusive, Written
<1> QED BY <1>7, <1>8, OwnStep

-----------------------------------------------------------------------------
(* Statements that write rows. *)

\* A transaction sees at most one row per event.
LEMMA ViewIsUnique ==
    ASSUME IInv, NEW q \in Requests
    PROVE  UniqueKeys(View(q))
<1>1. UniqueKeys(proc) /\ WritesAreCurrent(q)
  BY DEF IInv, UniqueKey, LockDiscipline
<1> QED BY <1>1 DEF WritesAreCurrent, UniqueKeys, View

\* A row that q sees and no other transaction has superseded is locked by no
\* other transaction.
LEMMA SeenIsFree ==
    ASSUME IInv, NEW q \in Requests, NEW p \in Requests \ {q},
           NEW x \in View(q), x \notin tx[p].old
    PROVE  x.key \notin Written(p)
<1>1. CASE x \in tx[q].fresh
  BY <1>1 DEF IInv, LockDiscipline, Exclusive, Written
<1>2. CASE x \in proc
  <2>1. WritesAreCurrent(p) /\ UniqueKeys(proc)
    BY DEF IInv, UniqueKey, LockDiscipline
  <2> QED BY <1>2, <2>1 DEF WritesAreCurrent, UniqueKeys, Written
<1> QED BY <1>1, <1>2 DEF View

\* What Write does to the transactions.
LEMMA WriteEffect ==
    ASSUME TypeOK, NEW q \in Requests, NEW rows, NEW new, Write(q, rows, new)
    PROVE  /\ tx'[q].old = tx[q].old \cup (rows \cap proc)
           /\ tx'[q].fresh = (tx[q].fresh \ rows) \cup new
           /\ tx'[q].shared = tx[q].shared
           /\ tx'[q].del = tx[q].del
           /\ \A p \in Requests \ {q} : tx'[p] = tx[p]
  BY DEF Write, TypeOK, TxType

\* A statement of q that supersedes rows that it sees by new versions, none of
\* them locked by another transaction, keeps the invariant.
LEMMA WriteKeeps ==
    ASSUME IInv, TypeOK', NEW q \in Requests,
           NEW rows \in SUBSET View(q), NEW new \in SUBSET Row,
           Write(q, rows, new), UNCHANGED <<raws, proc>>,
           \A p \in Requests \ {q} : req'[p] = req[p],
           req'[q].kind = req[q].kind,
           ~At(q, "check"), StepFitsKind(q)',
           At(q, "handled")' => req[q].kind # "delete_raw",
           \A x \in rows \cup new, p \in Requests \ {q} : x.key \notin Written(p),
           UniqueKeys(new),
           new # {} => req[q].kind \notin {"delete", "delete_raw"},
           req[q].kind \notin {"delete", "delete_raw"} =>
              \A y \in rows : \E x \in new : x.key = y.key,
           \A x \in new, y \in View(q) : x.key = y.key =>
              y \in rows /\ x.id = y.id /\ x.source = y.source,
           \A x \in new : \/ \E y \in rows : y.key = x.key /\ y.raw = x.raw
                          \/ At(q, "check")' /\ x.raw \in req'[q].cur
    PROVE  IInv'
<1>1. /\ tx'[q].old = tx[q].old \cup (rows \cap proc)
      /\ tx'[q].fresh = (tx[q].fresh \ rows) \cup new
      /\ tx'[q].shared = tx[q].shared
      /\ tx'[q].del = tx[q].del
      /\ \A p \in Requests \ {q} : tx'[p] = tx[p]
  BY WriteEffect DEF IInv
<1>2. raws' = raws /\ proc' = proc
  OBVIOUS
<1>3. /\ WritesAreCurrent(q)
      /\ FreshIsBacked(q)
      /\ OnlyDeletesRemove(q)
      /\ CascadeIsComplete(q)
  BY DEF IInv, LockDiscipline
<1>4. tx[q].fresh \subseteq View(q) /\ proc \ tx[q].old \subseteq View(q)
  BY DEF View
<1>5. rows \subseteq proc \cup tx[q].fresh
  BY DEF View
<1>6. WritesAreCurrent(q)'
  <2>1. tx'[q].old \subseteq proc'
    BY <1>1, <1>2, <1>3 DEF WritesAreCurrent
  <2>2. UniqueKeys(tx'[q].fresh)
    BY <1>1, <1>3, <1>4 DEF WritesAreCurrent, UniqueKeys
  <2>3. ASSUME NEW x \in tx'[q].fresh, NEW y \in proc, x.key = y.key
        PROVE  y \in tx'[q].old /\ x.id = y.id /\ x.source = y.source
    <3>1. CASE x \in tx[q].fresh
      BY <1>1, <1>3, <2>3, <3>1 DEF WritesAreCurrent
    <3>2. CASE x \in new /\ y \notin tx[q].old
      BY <1>1, <1>4, <2>3, <3>2
    <3>3. CASE x \in new /\ y \in tx[q].old
      <4>1. PICK z \in tx[q].fresh : z.key = y.key
        BY <1>3, <3>3 DEF OnlyDeletesRemove
      <4>2. z.id = y.id /\ z.source = y.source
        BY <1>3, <4>1 DEF WritesAreCurrent
      <4>3. x.id = z.id /\ x.source = z.source
        BY <1>4, <2>3, <3>3, <4>1
      <4> QED BY <1>1, <3>3, <4>2, <4>3
    <3> QED BY <1>1, <3>1, <3>2, <3>3
  <2> QED BY <1>2, <2>1, <2>2, <2>3 DEF WritesAreCurrent
<1>7. FreshIsBacked(q)'
  <2>1. ASSUME NEW x \in tx[q].fresh
        PROVE  \/ x.raw \in tx[q].shared
               \/ \E y \in tx[q].old : y.key = x.key /\ y.raw = x.raw
    BY <1>3 DEF FreshIsBacked
  <2>2. ASSUME NEW x \in tx'[q].fresh
        PROVE  \/ x.raw \in tx'[q].shared
               \/ \E y \in tx'[q].old : y.key = x.key /\ y.raw = x.raw
               \/ At(q, "check")' /\ x.raw \in req'[q].cur
    <3>1. CASE x \in tx[q].fresh
      BY <1>1, <2>1, <3>1
    <3>2. CASE x \in new
      <4>1. CASE At(q, "check")' /\ x.raw \in req'[q].cur
        BY <4>1
      <4>2. ASSUME NEW y \in rows, y.key = x.key, y.raw = x.raw
            PROVE  \/ x.raw \in tx'[q].shared
                   \/ \E z \in tx'[q].old : z.key = x.key /\ z.raw = x.raw
        BY <1>1, <1>5, <2>1, <4>2
      <4> QED BY <3>2, <4>1, <4>2
    <3> QED BY <1>1, <3>1, <3>2
  <2> QED BY <1>1, <1>2, <1>3, <2>2 DEF FreshIsBacked
<1>8. OnlyDeletesRemove(q)'
  <2> SUFFICES ASSUME req[q].kind \notin {"delete", "delete_raw"},
                      NEW y \in tx'[q].old
               PROVE  \E x \in tx'[q].fresh : x.key = y.key
    BY DEF OnlyDeletesRemove
  <2>1. CASE y \in rows
    BY <1>1, <2>1
  <2>2. CASE y \in tx[q].old
    <3>1. PICK z \in tx[q].fresh : z.key = y.key
      BY <1>3, <2>2 DEF OnlyDeletesRemove
    <3>2. z \in rows => \E x \in new : x.key = y.key
      BY <3>1
    <3> QED BY <1>1, <3>1, <3>2
  <2> QED BY <1>1, <2>1, <2>2
<1>9. CascadeIsComplete(q)'
  BY <1>1, <1>3 DEF CascadeIsComplete, At
<1>10. OwnOk(q)'
  BY <1>6, <1>7, <1>8, <1>9 DEF OwnOk
<1>11. ASSUME NEW p \in Requests \ {q}
       PROVE  Exclusive(p, q)' /\ Exclusive(q, p)'
  <2>1. Exclusive(p, q) /\ Exclusive(q, p)
    BY DEF IInv, LockDiscipline
  <2>2. \A k \in Written(q)' : k \in Written(q) \/ \E x \in rows \cup new : x.key = k
    BY <1>1 DEF Written
  <2>3. Written(p)' = Written(p)
    BY <1>1 DEF Written
  <2> QED BY <1>1, <2>1, <2>2, <2>3 DEF Exclusive
<1> QED BY <1>1, <1>10, <1>11, OwnStep

\* What a step that a handler takes by itself does to the variables of others.
LEMMA GotoEffect ==
    ASSUME TypeOK, NEW q \in Requests, NEW s, Goto(q, s)
    PROVE  /\ req'[q] = [req[q] EXCEPT !.step = s]
           /\ req'[q].step = s
           /\ req'[q].kind = req[q].kind
           /\ req'[q].cur = req[q].cur
           /\ \A p \in Requests \ {q} : req'[p] = req[p]
  BY DEF Goto, TypeOK, ReqType

\* INSERT ... ON CONFLICT keeps the invariant.
LEMMA UpsertKeeps ==
    ASSUME IInv, NEW q \in Requests, Upsert(q)
    PROVE  IInv'
<1>0. TypeOK'
  BY AdvanceIsTyped DEF IInv, Advance
<1>1. PICK r \in req[q].cur :
         LET rows == WithKey(View(q), Capture[r].key)
         IN  /\ Write(q, rows, Upserted(View(q), r, q))
             /\ Goto(q, IF \E x \in rows : x.raw = r THEN "next" ELSE "check")
  BY DEF Upsert
<1> DEFINE k == Capture[r].key
           rows == WithKey(View(q), k)
           new == Upserted(View(q), r, q)
<1>2. r \in RawIds /\ q \in RowIds /\ View(q) \in SUBSET Row
  BY ViewIsRows, RequestsAssumption DEF IInv, TypeOK, ReqType
<1>3. UniqueKeys(View(q))
  BY ViewIsUnique
<1>4. /\ new \subseteq Row
      /\ UniqueKeys(new)
      /\ \A y \in new : /\ y.key = k
                        /\ y.raw = r
                        /\ \A x \in View(q) : x.key = y.key =>
                              x.id = y.id /\ x.source = y.source
  BY <1>2, <1>3, UpsertedIsRows
<1>5. \A x \in rows : x \in View(q) /\ x.key = k
  BY DEF WithKey
<1>6. \A y \in View(q) : y.key = k => y \in rows
  BY DEF WithKey
<1>7. \E x \in new : TRUE
  BY DEF Upserted
<1>8. req[q].kind = "process" /\ At(q, "upsert")
  BY DEF Upsert, Granted, At, IInv, LockDiscipline, StepFitsKind
<1>9. \A p \in Requests \ {q} : k \notin Written(p)
  BY <1>8 DEF Upsert, Granted, Blocks, At
<1>10. Write(q, rows, new) /\ UNCHANGED <<raws, proc>>
  BY <1>1 DEF Upsert
<1>11. Goto(q, IF \E x \in rows : x.raw = r THEN "next" ELSE "check")
  BY <1>1
<1> HIDE DEF rows, new, k
<1>12. /\ req'[q].step = IF \E x \in rows : x.raw = r THEN "next" ELSE "check"
       /\ req'[q].kind = req[q].kind
       /\ req'[q].cur = req[q].cur
       /\ \A p \in Requests \ {q} : req'[p] = req[p]
  BY <1>11, GotoEffect DEF IInv
<1>13. StepFitsKind(q)' /\ ~At(q, "check") /\ ~At(q, "handled")'
  BY <1>8, <1>12 DEF StepFitsKind, At
<1>14. \A x \in new : \/ \E y \in rows : y.key = x.key /\ y.raw = x.raw
                      \/ At(q, "check")' /\ x.raw \in req'[q].cur
  BY <1>4, <1>5, <1>12 DEF At
<1>15. \A x \in rows \cup new, p \in Requests \ {q} : x.key \notin Written(p)
  BY <1>4, <1>5, <1>9
<1>16. \A y \in rows : \E x \in new : x.key = y.key
  BY <1>4, <1>5, <1>7
<1>17. \A x \in new, y \in View(q) : x.key = y.key =>
          y \in rows /\ x.id = y.id /\ x.source = y.source
  BY <1>4, <1>6
<1>18. rows \in SUBSET View(q)
  BY <1>5
<1> QED
  BY <1>0, <1>4, <1>8, <1>10, <1>12, <1>13, <1>14, <1>15, <1>16, <1>17, <1>18,
     WriteKeeps

\* The plain INSERT keeps the invariant.
LEMMA InsertRowKeeps ==
    ASSUME IInv, NEW q \in Requests, InsertRow(q)
    PROVE  IInv'
<1>0. TypeOK'
  BY AdvanceIsTyped DEF IInv, Advance
<1>1. CASE Abort(q)
  BY <1>1, AbortKeeps
<1>2. CASE ~Abort(q)
  <2>1. PICK x \in req[q].seen :
           /\ WithKey(View(q), x.key) = {}
           /\ Write(q, {}, {x})
           /\ req' = [req EXCEPT ![q].step = "check", ![q].cur = {x.raw}]
           /\ UNCHANGED <<raws, proc>>
    BY <1>2 DEF InsertRow
  <2>2. x \in Row
    BY DEF IInv, TypeOK, ReqType
  <2>3. \A y \in View(q) : y.key # x.key
    BY <2>1 DEF WithKey
  <2>4. req[q].kind = "create" /\ At(q, "insert")
    BY DEF InsertRow, Granted, At, IInv, LockDiscipline, StepFitsKind
  <2>5. \A p \in Requests \ {q} : x.key \notin Written(p)
    BY <2>4 DEF InsertRow, Granted, Blocks, At
  <2>6. /\ req'[q].step = "check"
        /\ req'[q].kind = req[q].kind
        /\ req'[q].cur = {x.raw}
        /\ \A p \in Requests \ {q} : req'[p] = req[p]
    BY <2>1 DEF IInv, TypeOK, ReqType
  <2>7. /\ StepFitsKind(q)' /\ ~At(q, "check") /\ ~At(q, "handled")'
        /\ At(q, "check")'
    BY <2>4, <2>6 DEF StepFitsKind, At
  <2>8. UniqueKeys({x})
    BY DEF UniqueKeys
  <2> DEFINE new == {x}
             none == {}
  <2>9. new \in SUBSET Row /\ none \in SUBSET View(q)
    BY <2>2
  <2>10. Write(q, none, new) /\ UniqueKeys(new)
    BY <2>1, <2>8
  <2>11. \A y \in new : y = x
    OBVIOUS
  <2>12. \A y \in none : FALSE
    OBVIOUS
  <2> HIDE DEF new, none
  <2>13. \A y \in none \cup new, p \in Requests \ {q} : y.key \notin Written(p)
    BY <2>5, <2>11, <2>12
  <2>14. \A y \in none : \E z \in new : z.key = y.key
    BY <2>12
  <2>15. \A z \in new, y \in View(q) : z.key = y.key =>
            y \in none /\ z.id = y.id /\ z.source = y.source
    BY <2>3, <2>11
  <2>16. \A z \in new : At(q, "check")' /\ z.raw \in req'[q].cur
    <3>1. x.raw \in req'[q].cur
      BY <2>6
    <3> QED BY <2>7, <2>11, <3>1
  <2>17. req[q].kind \notin {"delete", "delete_raw"}
    BY <2>4
  <2> QED
    BY <1>0, <2>1, <2>6, <2>7, <2>9, <2>10, <2>13, <2>14, <2>15, <2>16, <2>17,
       WriteKeeps
<1> QED BY <1>1, <1>2

\* The flush of a PATCH keeps the invariant.
LEMMA FlushPatchKeeps ==
    ASSUME IInv, NEW q \in Requests, FlushPatch(q)
    PROVE  IInv'
<1>0. TypeOK'
  BY AdvanceIsTyped DEF IInv, Advance
<1>1. CASE Abort(q)
  BY <1>1, AbortKeeps
<1>2. CASE ~Abort(q)
  <2>1. PICK x \in req[q].seen :
           LET C == Changed(x, req[q].asked)
           IN  /\ IF C = {}
                  THEN UNCHANGED tx
                  ELSE Write(q, Current(q, x),
                             {ApplyPatch(y, req[q].asked, C) : y \in Current(q, x)})
               /\ Goto(q, "refresh")
               /\ UNCHANGED <<raws, proc>>
    BY <1>2 DEF FlushPatch
  <2> DEFINE C == Changed(x, req[q].asked)
             rows == Current(q, x)
             new == {ApplyPatch(y, req[q].asked, C) : y \in rows}
  <2>2. req[q].kind = "patch" /\ At(q, "flush")
    BY DEF FlushPatch, Granted, At, IInv, LockDiscipline, StepFitsKind
  <2>3. /\ req'[q].step = "refresh"
        /\ req'[q].kind = req[q].kind
        /\ \A p \in Requests \ {q} : req'[p] = req[p]
    BY <2>1, GotoEffect DEF IInv
  <2>4. /\ StepFitsKind(q)' /\ ~At(q, "check") /\ ~At(q, "handled")'
    BY <2>2, <2>3 DEF StepFitsKind, At
  <2>5. CASE UNCHANGED tx
    BY <1>0, <2>1, <2>3, <2>4, <2>5, LocalKeeps
  <2>6. CASE ~UNCHANGED tx
    <3>1. C # {} /\ Write(q, rows, new)
      BY <2>1, <2>6
    <3>2. C \subseteq DOMAIN req[q].asked
      BY DEF Changed
    <3>3. /\ req[q].asked \in PatchType
          /\ rows \in SUBSET View(q)
          /\ rows \subseteq Row
      BY ViewIsRows DEF IInv, TypeOK, ReqType, Current
    <3>4. \A p \in Requests \ {q}, y \in rows : y \notin tx[p].old
      BY <2>1, <2>2, <3>1 DEF FlushPatch, Granted, Blocks, At
    <3>5. \A p \in Requests \ {q}, y \in rows : y.key \notin Written(p)
      BY <3>3, <3>4, SeenIsFree
    <3>6. UniqueKeys(rows)
      BY <3>3, ViewIsUnique DEF UniqueKeys
    <3>7. \A y \in rows, z \in View(q) : y.key = z.key => z = y
      BY <3>3, ViewIsUnique DEF UniqueKeys
    <3> HIDE DEF C, rows
    <3>8. \A y \in rows : LET z == ApplyPatch(y, req[q].asked, C)
                          IN  /\ z \in Row /\ z.key = y.key /\ z.id = y.id
                              /\ z.source = y.source /\ z.raw = y.raw
      BY <3>2, <3>3, ApplyPatchIsRow
    <3>9. \A z \in new : \E y \in rows :
             z = ApplyPatch(y, req[q].asked, C) /\ z \in Row /\ z.key = y.key
               /\ z.id = y.id /\ z.source = y.source /\ z.raw = y.raw
      BY <3>8
    <3>10. \A y \in rows : \E z \in new : z.key = y.key
      BY <3>8
    <3>11. new \in SUBSET Row /\ UniqueKeys(new)
      BY <3>6, <3>9 DEF UniqueKeys
    <3> HIDE DEF new
    <3>12. \A z \in rows \cup new, p \in Requests \ {q} : z.key \notin Written(p)
      BY <3>5, <3>9
    <3>13. \A z \in new, y \in View(q) : z.key = y.key =>
              y \in rows /\ z.id = y.id /\ z.source = y.source
      BY <3>7, <3>9
    <3>14. \A z \in new : \E y \in rows : y.key = z.key /\ y.raw = z.raw
      BY <3>9
    <3>15. req[q].kind \notin {"delete", "delete_raw"}
      BY <2>2
    <3> QED
      BY <1>0, <2>1, <2>3, <2>4, <3>1, <3>3, <3>10, <3>11, <3>12, <3>13, <3>14,
         <3>15, WriteKeeps
  <2> QED BY <2>5, <2>6
<1> QED BY <1>1, <1>2

\* A statement that only removes rows that q sees keeps the invariant.
LEMMA RemoveKeeps ==
    ASSUME IInv, TypeOK', NEW q \in Requests, NEW rows \in SUBSET View(q),
           Write(q, rows, {}), UNCHANGED <<raws, proc>>,
           \A p \in Requests \ {q} : req'[p] = req[p],
           req'[q].kind = req[q].kind,
           req[q].kind \in {"delete", "delete_raw"},
           ~At(q, "check"), StepFitsKind(q)',
           At(q, "handled")' => req[q].kind # "delete_raw",
           \A x \in rows, p \in Requests \ {q} : x \notin tx[p].old
    PROVE  IInv'
<1> DEFINE none == {}
<1>1. /\ none \in SUBSET Row /\ UniqueKeys(none)
      /\ Write(q, rows, none)
      /\ none = {}
      /\ \A x \in none : FALSE
  BY DEF UniqueKeys
<1>2. \A x \in rows, p \in Requests \ {q} : x.key \notin Written(p)
  BY SeenIsFree
<1> HIDE DEF none
<1>3. \A x \in rows \cup none, p \in Requests \ {q} : x.key \notin Written(p)
  BY <1>1, <1>2
<1> QED BY <1>1, <1>3, WriteKeeps

\* The cascade of a raw's deletion, row by row, keeps the invariant.
LEMMA CascadeRowKeeps ==
    ASSUME IInv, NEW q \in Requests, CascadeRow(q)
    PROVE  IInv'
<1>0. TypeOK'
  BY AdvanceIsTyped DEF IInv, Advance
<1>1. PICK x \in proc \ tx[q].old :
         /\ \A p \in Requests \ {q} : x \notin tx[p].old
         /\ Write(q, {x}, {})
  BY DEF CascadeRow
<1>2. req[q].kind = "delete_raw" /\ At(q, "cascade") /\ StepFitsKind(q)
  BY DEF CascadeRow, At, IInv, LockDiscipline, StepFitsKind
<1>3. req' = req /\ UNCHANGED <<raws, proc>>
  BY DEF CascadeRow
<1>4. StepFitsKind(q)' /\ ~At(q, "check") /\ ~At(q, "handled")'
  BY <1>2, <1>3 DEF StepFitsKind, At
<1>5. {x} \in SUBSET View(q)
  BY DEF View
<1> QED BY <1>0, <1>1, <1>2, <1>3, <1>4, <1>5, RemoveKeeps

\* The DELETE of a processed row keeps the invariant.
LEMMA DeleteRowKeeps ==
    ASSUME IInv, NEW q \in Requests, DeleteRow(q)
    PROVE  IInv'
<1>0. TypeOK'
  BY AdvanceIsTyped DEF IInv, Advance
<1>1. PICK x \in req[q].seen : Write(q, Current(q, x), {})
  BY DEF DeleteRow
<1>2. req[q].kind = "delete" /\ At(q, "delete")
  BY DEF DeleteRow, Granted, At, IInv, LockDiscipline, StepFitsKind
<1>3. Goto(q, "handled") /\ UNCHANGED <<raws, proc>>
  BY DEF DeleteRow
<1>4. /\ req'[q].step = "handled"
      /\ req'[q].kind = req[q].kind
      /\ \A p \in Requests \ {q} : req'[p] = req[p]
  BY <1>3, GotoEffect DEF IInv
<1>5. StepFitsKind(q)' /\ ~At(q, "check")
  BY <1>2, <1>4 DEF StepFitsKind, At
<1>6. Current(q, x) \in SUBSET View(q)
  BY DEF Current
<1>7. \A y \in Current(q, x), p \in Requests \ {q} : y \notin tx[p].old
  BY <1>2 DEF DeleteRow, Granted, Blocks, At
<1> QED BY <1>0, <1>1, <1>2, <1>3, <1>4, <1>5, <1>6, <1>7, RemoveKeeps

-----------------------------------------------------------------------------
(* Statements that lock or add raws. *)

\* The inserts of raws keep the invariant.
LEMMA InsertKeeps ==
    ASSUME IInv, NEW q \in Requests, BulkAdd(q) \/ CreateRaw(q)
    PROVE  IInv'
<1>0. TypeOK'
  BY AdvanceIsTyped DEF IInv, Advance
<1>1. PICK S : Insert(q, S)
  BY DEF BulkAdd, CreateRaw
<1>2. req[q].kind \in {"ingest", "create_raw"} /\ ~At(q, "check")
  BY DEF BulkAdd, CreateRaw, At, IInv, LockDiscipline, StepFitsKind
<1>3. /\ req'[q].step = "handled"
      /\ req'[q].kind = req[q].kind
      /\ \A p \in Requests \ {q} : req'[p] = req[p]
  BY <1>1, GotoEffect DEF IInv, Insert
<1>4. /\ tx'[q].old = tx[q].old /\ tx'[q].fresh = tx[q].fresh
      /\ tx'[q].del = tx[q].del /\ tx'[q].shared = tx[q].shared
      /\ \A p \in Requests \ {q} : tx'[p] = tx[p]
      /\ raws' = raws /\ proc' = proc
  BY <1>1 DEF Insert, IInv, TypeOK, TxType
<1>5. OwnOk(q)
  BY DEF IInv, LockDiscipline, OwnOk
<1>6. WritesAreCurrent(q)'
  BY <1>4, <1>5 DEF OwnOk, WritesAreCurrent
<1>7. FreshIsBacked(q)'
  BY <1>2, <1>4, <1>5 DEF OwnOk, FreshIsBacked, At
<1>8. OnlyDeletesRemove(q)'
  BY <1>3, <1>4, <1>5 DEF OwnOk, OnlyDeletesRemove
<1>9. CascadeIsComplete(q)'
  BY <1>2, <1>3, <1>4, <1>5 DEF OwnOk, CascadeIsComplete
<1>10. StepFitsKind(q)'
  BY <1>3 DEF StepFitsKind, At
<1>11. \A p \in Requests \ {q} : Exclusive(p, q)' /\ Exclusive(q, p)'
  BY <1>4 DEF IInv, LockDiscipline, Exclusive, Written
<1> QED
  BY <1>0, <1>3, <1>4, <1>6, <1>7, <1>8, <1>9, <1>10, <1>11, OwnStep DEF OwnOk

\* The foreign-key check keeps the invariant: it locks a raw that is stored
\* and that no other transaction is deleting.
LEMMA CheckForeignKeyKeeps ==
    ASSUME IInv, NEW q \in Requests, CheckForeignKey(q)
    PROVE  IInv'
<1>0. TypeOK'
  BY AdvanceIsTyped DEF IInv, Advance
<1>1. CASE Abort(q)
  BY <1>1, AbortKeeps
<1>2. CASE ~Abort(q)
  <2>1. /\ req[q].cur \subseteq raws
        /\ Goto(q, IF req[q].kind = "process" THEN "next" ELSE "handled")
        /\ tx' = [tx EXCEPT ![q].shared = @ \cup req[q].cur]
        /\ UNCHANGED <<raws, proc>>
    BY <1>2 DEF CheckForeignKey
  <2>2. At(q, "check") /\ req[q].kind \in {"process", "create"}
    BY DEF CheckForeignKey, Granted, At, IInv, LockDiscipline, StepFitsKind
  <2>3. \A p \in Requests \ {q} : req[q].cur \cap tx[p].del = {}
    BY <2>2 DEF CheckForeignKey, Granted, Blocks, At
  <2>4. /\ req'[q].step = IF req[q].kind = "process" THEN "next" ELSE "handled"
        /\ req'[q].kind = req[q].kind
        /\ \A p \in Requests \ {q} : req'[p] = req[p]
    BY <2>1, GotoEffect DEF IInv
  <2>5. /\ tx'[q].old = tx[q].old /\ tx'[q].fresh = tx[q].fresh
        /\ tx'[q].del = tx[q].del
        /\ tx'[q].shared = tx[q].shared \cup req[q].cur
        /\ \A p \in Requests \ {q} : tx'[p] = tx[p]
        /\ raws' = raws /\ proc' = proc
    BY <2>1 DEF IInv, TypeOK, TxType
  <2>6. OwnOk(q)
    BY DEF IInv, LockDiscipline, OwnOk
  <2>7. WritesAreCurrent(q)'
    BY <2>5, <2>6 DEF OwnOk, WritesAreCurrent
  <2>8. FreshIsBacked(q)'
    BY <2>1, <2>5, <2>6 DEF OwnOk, FreshIsBacked
  <2>9. OnlyDeletesRemove(q)'
    BY <2>4, <2>5, <2>6 DEF OwnOk, OnlyDeletesRemove
  <2>10. CascadeIsComplete(q)'
    BY <2>2, <2>4, <2>5, <2>6 DEF OwnOk, CascadeIsComplete
  <2>11. StepFitsKind(q)'
    BY <2>2, <2>4 DEF StepFitsKind, At
  <2>12. \A p \in Requests \ {q} : Exclusive(p, q)' /\ Exclusive(q, p)'
    BY <2>3, <2>5 DEF IInv, LockDiscipline, Exclusive, Written
  <2> QED
    BY <1>0, <2>4, <2>5, <2>7, <2>8, <2>9, <2>10, <2>11, <2>12, OwnStep DEF OwnOk
<1> QED BY <1>1, <1>2

\* The DELETE of a raw keeps the invariant: no foreign-key check holds it.
LEMMA DeleteRawKeeps ==
    ASSUME IInv, NEW q \in Requests, DeleteRaw(q)
    PROVE  IInv'
<1>0. TypeOK'
  BY AdvanceIsTyped DEF IInv, Advance
<1>1. req[q].kind = "delete_raw" /\ At(q, "delete_raw")
  BY DEF DeleteRaw, Granted, At, IInv, LockDiscipline, StepFitsKind
<1>2. \A p \in Requests \ {q} : req[q].cur \cap tx[p].shared = {}
  BY <1>1 DEF DeleteRaw, Granted, Blocks, At
<1>3. /\ req'[q].step = "cascade"
      /\ req'[q].kind = req[q].kind
      /\ \A p \in Requests \ {q} : req'[p] = req[p]
  BY GotoEffect DEF DeleteRaw, IInv
<1>4. /\ tx'[q].old = tx[q].old /\ tx'[q].fresh = tx[q].fresh
      /\ tx'[q].del \subseteq req[q].cur
      /\ tx'[q].shared = tx[q].shared
      /\ \A p \in Requests \ {q} : tx'[p] = tx[p]
      /\ raws' = raws /\ proc' = proc
  BY DEF DeleteRaw, IInv, TypeOK, TxType
<1>5. OwnOk(q)
  BY DEF IInv, LockDiscipline, OwnOk
<1>6. WritesAreCurrent(q)'
  BY <1>4, <1>5 DEF OwnOk, WritesAreCurrent
<1>7. FreshIsBacked(q)'
  BY <1>1, <1>4, <1>5 DEF OwnOk, FreshIsBacked, At
<1>8. OnlyDeletesRemove(q)' /\ CascadeIsComplete(q)' /\ StepFitsKind(q)'
  BY <1>1, <1>3, <1>4, <1>5
     DEF OwnOk, OnlyDeletesRemove, CascadeIsComplete, StepFitsKind, At
<1>9. \A p \in Requests \ {q} : tx'[q].shared \cap tx'[p].del = {}
  BY <1>4 DEF IInv, LockDiscipline, Exclusive
<1>10. \A p \in Requests \ {q} : tx'[p].shared \cap tx'[q].del = {}
  BY <1>2, <1>4
<1>11. \A p \in Requests \ {q} : Exclusive(p, q)' /\ Exclusive(q, p)'
  BY <1>4, <1>9, <1>10 DEF IInv, LockDiscipline, Exclusive, Written
<1> QED BY <1>0, <1>3, <1>4, <1>6, <1>7, <1>8, <1>11, OwnStep DEF OwnOk

-----------------------------------------------------------------------------
(* The other steps, and the theorems. *)

\* Reads, decisions in memory and answers keep the invariant.
LEMMA LocalStepsKeep ==
    ASSUME IInv, NEW q \in Requests,
           \/ Start(q) \/ ListUnprocessed(q) \/ NextRecord(q) \/ BatchDone(q)
           \/ GetRaw(q) \/ CascadeDone(q) \/ GetRow(q) \/ RefreshPatch(q)
           \/ Respond(q)
    PROVE  IInv'
<1>0. TypeOK'
  BY AdvanceIsTyped DEF IInv, Advance
<1>1. StepFitsKind(q) /\ req[q].kind \in AllKinds /\ req \in [Requests -> ReqType]
  BY DEF IInv, LockDiscipline, TypeOK, ReqType
<1> USE DEF At
<1>2. CASE Start(q)
  <2>1. /\ req'[q].kind = req[q].kind
        /\ \/ req'[q].step = FirstStep[req[q].kind] /\ req[q].kind # "create"
           \/ req'[q].step = "insert" /\ req[q].kind = "create"
        /\ \A p \in Requests \ {q} : req'[p] = req[p]
    BY <1>1, <1>2 DEF Start, Goto, ReqType
  <2>2. StepFitsKind(q)' /\ ~At(q, "handled")'
    BY <1>1, <2>1 DEF StepFitsKind, FirstStep, AllKinds
  <2> QED BY <1>0, <1>2, <2>1, <2>2, LocalKeeps DEF Start
<1>3. CASE ListUnprocessed(q)
  <2>1. /\ req'[q].step = "next" /\ req'[q].kind = req[q].kind
        /\ \A p \in Requests \ {q} : req'[p] = req[p]
    BY <1>1, <1>3 DEF ListUnprocessed, ReqType
  <2>2. StepFitsKind(q)'
    BY <1>1, <1>3, <2>1 DEF StepFitsKind, ListUnprocessed
  <2> QED BY <1>0, <1>3, <2>1, <2>2, LocalKeeps DEF ListUnprocessed
<1>4. CASE NextRecord(q)
  <2>1. CASE Abort(q)
    BY <2>1, AbortKeeps
  <2>2. CASE ~Abort(q)
    <3>1. /\ req'[q].step \in {"next", "upsert"} /\ req'[q].kind = req[q].kind
          /\ \A p \in Requests \ {q} : req'[p] = req[p]
          /\ UNCHANGED <<raws, proc, tx>>
      <4>1. At(q, "next") /\ UNCHANGED <<raws, proc, tx>>
        BY <1>4, <2>2 DEF NextRecord
      <4>2. PICK r : \/ req' = [req EXCEPT ![q].step = "upsert", ![q].cur = {r},
                                           ![q].done = @ \cup {r}]
                     \/ req' = [req EXCEPT ![q].done = @ \cup {r}]
        BY <1>4, <2>2 DEF NextRecord
      <4> QED BY <1>1, <4>1, <4>2 DEF ReqType
    <3>2. StepFitsKind(q)'
      BY <1>1, <1>4, <3>1 DEF StepFitsKind, NextRecord
    <3> QED BY <1>0, <1>4, <3>1, <3>2, LocalKeeps DEF NextRecord
  <2> QED BY <2>1, <2>2
<1>5. CASE BatchDone(q)
  <2>1. /\ req'[q].step = "handled" /\ req'[q].kind = req[q].kind
        /\ \A p \in Requests \ {q} : req'[p] = req[p]
    BY <1>5, GotoEffect DEF BatchDone, IInv
  <2>2. StepFitsKind(q)' /\ req[q].kind = "process"
    BY <1>1, <1>5, <2>1 DEF StepFitsKind, BatchDone
  <2> QED BY <1>0, <1>5, <2>1, <2>2, LocalKeeps DEF BatchDone
<1>6. CASE GetRaw(q)
  <2>1. /\ req'[q].step = "delete_raw" /\ req'[q].kind = req[q].kind
        /\ \A p \in Requests \ {q} : req'[p] = req[p]
    BY <1>1, <1>6 DEF GetRaw, ReqType
  <2>2. StepFitsKind(q)'
    BY <1>1, <1>6, <2>1 DEF StepFitsKind, GetRaw
  <2> QED BY <1>0, <1>6, <2>1, <2>2, LocalKeeps DEF GetRaw
<1>7. CASE CascadeDone(q)
  <2>1. /\ req'[q].step = "handled" /\ req'[q].kind = req[q].kind
        /\ \A p \in Requests \ {q} : req'[p] = req[p]
    BY <1>7, GotoEffect DEF CascadeDone, IInv
  <2>2. StepFitsKind(q)'
    BY <2>1 DEF StepFitsKind
  <2>3. \A x \in proc : x.raw \in tx[q].del => x \in tx[q].old
    BY <1>7 DEF CascadeDone, View
  <2> QED BY <1>0, <1>7, <2>1, <2>2, <2>3, LocalKeeps DEF CascadeDone
<1>8. CASE GetRow(q)
  <2>1. /\ \/ req'[q].step = "delete" /\ req[q].kind = "delete"
           \/ req'[q].step = "flush" /\ req[q].kind = "patch"
        /\ req'[q].kind = req[q].kind
        /\ \A p \in Requests \ {q} : req'[p] = req[p]
    <3>1. PICK x \in proc :
             \/ /\ req[q].kind = "delete"
                /\ req' = [req EXCEPT ![q].step = "delete", ![q].seen = {x}]
             \/ /\ req[q].kind = "patch"
                /\ \E p \in Patches :
                      req' = [req EXCEPT ![q].step = "flush", ![q].seen = {x}, ![q].asked = p]
      BY <1>8 DEF GetRow
    <3>2. CASE /\ req[q].kind = "delete"
               /\ req' = [req EXCEPT ![q].step = "delete", ![q].seen = {x}]
      BY <1>1, <3>2 DEF ReqType
    <3>3. ASSUME NEW p \in Patches, req[q].kind = "patch",
                 req' = [req EXCEPT ![q].step = "flush", ![q].seen = {x}, ![q].asked = p]
          PROVE  /\ req'[q].step = "flush" /\ req'[q].kind = req[q].kind
                 /\ \A t \in Requests \ {q} : req'[t] = req[t]
      BY <1>1, <3>3 DEF ReqType
    <3> QED BY <3>1, <3>2, <3>3
  <2>2. StepFitsKind(q)'
    BY <2>1 DEF StepFitsKind
  <2> QED BY <1>0, <1>8, <2>1, <2>2, LocalKeeps DEF GetRow
<1>9. CASE RefreshPatch(q)
  <2>1. CASE Abort(q)
    BY <2>1, AbortKeeps
  <2>2. CASE ~Abort(q)
    <3>1. /\ req'[q].step = "handled" /\ req'[q].kind = req[q].kind
          /\ \A p \in Requests \ {q} : req'[p] = req[p]
          /\ UNCHANGED <<raws, proc, tx>>
      BY <1>1, <1>9, <2>2 DEF RefreshPatch, ReqType
    <3>2. StepFitsKind(q)' /\ req[q].kind = "patch"
      BY <1>1, <1>9, <3>1 DEF StepFitsKind, RefreshPatch
    <3> QED BY <1>0, <1>9, <3>1, <3>2, LocalKeeps DEF RefreshPatch
  <2> QED BY <2>1, <2>2
<1>10. CASE Respond(q)
  <2>1. /\ req'[q].step = req[q].step /\ req'[q].kind = req[q].kind
        /\ req[q].step # "check"
        /\ \A p \in Requests \ {q} : req'[p] = req[p]
    BY <1>1, <1>10 DEF Respond, ReqType
  <2>2. StepFitsKind(q)'
    BY <1>1, <2>1 DEF StepFitsKind
  <2> QED BY <1>0, <1>10, <2>1, <2>2, LocalKeeps DEF Respond
<1> QED BY <1>2, <1>3, <1>4, <1>5, <1>6, <1>7, <1>8, <1>9, <1>10

\* A commit keeps the invariant: what it installs is unique among what stays,
\* backed by raws that stay, and apart from what the others still hold.
LEMMA CommitKeeps ==
    ASSUME IInv, NEW q \in Requests, Commit(q)
    PROVE  IInv'
<1>0. TypeOK'
  BY AdvanceIsTyped DEF IInv, Advance
<1>1. /\ raws' = (raws \ tx[q].del) \cup tx[q].ins
      /\ proc' = (proc \ tx[q].old) \cup tx[q].fresh
      /\ tx'[q] = NoTx
      /\ req'[q] = Fresh(req[q].kind, "committed", req[q].ans)
      /\ \A p \in Requests \ {q} : req'[p] = req[p] /\ tx'[p] = tx[p]
      /\ At(q, "handled")
  BY DEF Commit, MayCommit, IInv, TypeOK
<1>2. /\ WritesAreCurrent(q)
      /\ FreshIsBacked(q)
      /\ CascadeIsComplete(q)
  BY DEF IInv, LockDiscipline
<1>3. ASSUME NEW x \in tx[q].fresh
      PROVE  \/ x.raw \in tx[q].shared
             \/ \E y \in tx[q].old : y.key = x.key /\ y.raw = x.raw
  BY <1>1, <1>2 DEF FreshIsBacked, At
<1>4. tx[q].fresh = {} \/ tx[q].del = {}
  BY <1>2 DEF CascadeIsComplete
<1>5. UniqueKey'
  <2>1. UniqueKeys(View(q))
    BY ViewIsUnique
  <2> QED BY <1>1, <2>1 DEF View, UniqueKey
<1>6. ReferentialIntegrity'
  <2>1. ASSUME NEW x \in proc, x \notin tx[q].old
        PROVE  x.raw \in raws'
    BY <1>1, <1>2, <2>1 DEF CascadeIsComplete, IInv, ReferentialIntegrity
  <2>2. ASSUME NEW x \in tx[q].fresh
        PROVE  x.raw \in raws'
    <3>1. x.raw \in raws
      BY <1>2, <1>3 DEF FreshIsBacked, WritesAreCurrent, IInv, ReferentialIntegrity
    <3> QED BY <1>1, <1>4, <3>1
  <2> QED BY <1>1, <2>1, <2>2 DEF ReferentialIntegrity
<1>7. ASSUME NEW p \in Requests \ {q}
      PROVE  OwnOk(p)'
  <2>1. /\ OwnOk(p) /\ Exclusive(p, q) /\ Exclusive(q, p)
        /\ req'[p] = req[p] /\ tx'[p] = tx[p]
    BY <1>1 DEF IInv, LockDiscipline, OwnOk
  <2>2. \A x \in tx[p].old \cup tx[p].fresh, y \in tx[q].old \cup tx[q].fresh :
           x.key # y.key
    BY <2>1 DEF Exclusive, Written
  <2>3. WritesAreCurrent(p)'
    BY <1>1, <2>1, <2>2 DEF OwnOk, WritesAreCurrent
  <2>4. FreshIsBacked(p)'
    <3>1. tx[p].shared \subseteq raws'
      BY <1>1, <2>1 DEF OwnOk, FreshIsBacked, Exclusive
    <3> QED BY <2>1, <3>1 DEF OwnOk, FreshIsBacked, At
  <2>5. OnlyDeletesRemove(p)'
    BY <2>1 DEF OwnOk, OnlyDeletesRemove
  <2>6. CascadeIsComplete(p)'
    <3>1. ASSUME At(p, "handled"), NEW x \in tx[q].fresh, x.raw \in tx[p].del
          PROVE  FALSE
      <4>1. x.raw \notin tx[q].shared
        BY <2>1, <3>1 DEF Exclusive
      <4>2. PICK y \in tx[q].old : y.key = x.key /\ y.raw = x.raw
        BY <1>3, <4>1
      <4>3. y \in tx[p].old
        BY <1>2, <2>1, <3>1, <4>2 DEF OwnOk, CascadeIsComplete, WritesAreCurrent
      <4> QED BY <2>2, <4>3
    <3>2. At(p, "handled") =>
             \A x \in proc' : x.raw \in tx[p].del => x \in tx[p].old
      BY <1>1, <2>1, <3>1 DEF OwnOk, CascadeIsComplete
    <3> QED BY <2>1, <3>2 DEF OwnOk, CascadeIsComplete, At
  <2>7. StepFitsKind(p)'
    BY <2>1 DEF OwnOk, StepFitsKind, At
  <2> QED BY <2>3, <2>4, <2>5, <2>6, <2>7 DEF OwnOk
<1>8. OwnOk(q)'
  BY <1>1 DEF OwnOk, WritesAreCurrent, FreshIsBacked, OnlyDeletesRemove,
              CascadeIsComplete, StepFitsKind, At, NoTx, Fresh, UniqueKeys
<1>9. ASSUME NEW o \in Requests, NEW p \in Requests, o # p
      PROVE  Exclusive(o, p)'
  <2>1. CASE o = q \/ p = q
    BY <1>1, <2>1 DEF Exclusive, Written, NoTx
  <2>2. CASE o # q /\ p # q
    <3>1. Exclusive(o, p) /\ tx'[o] = tx[o] /\ tx'[p] = tx[p]
      BY <1>1, <1>9, <2>2 DEF IInv, LockDiscipline
    <3> QED BY <3>1 DEF Exclusive, Written
  <2> QED BY <2>1, <2>2
<1>10. \A p \in Requests : OwnOk(p)'
  BY <1>7, <1>8
<1> QED BY <1>0, <1>5, <1>6, <1>9, <1>10 DEF IInv, LockDiscipline, OwnOk

\* A crash keeps the invariant: it leaves no transaction.
LEMMA CrashKeeps ==
    ASSUME IInv, Crash
    PROVE  IInv'
<1>0. TypeOK'
  BY CrashIsTyped DEF IInv
<1>1. \A q \in Requests :
         /\ tx'[q] = NoTx
         /\ req'[q].kind = req[q].kind
         /\ req'[q].step \in Over
  BY DEF Crash, Fresh, At, Over
<1>2. raws' = raws /\ proc' = proc
  BY DEF Crash
<1>3. ASSUME NEW q \in Requests
      PROVE  OwnOk(q)'
  BY <1>1, <1>2 DEF OwnOk, WritesAreCurrent, FreshIsBacked, OnlyDeletesRemove,
                    CascadeIsComplete, StepFitsKind, At, NoTx, UniqueKeys, Over
<1>4. \A p, q \in Requests : Exclusive(p, q)'
  BY <1>1 DEF Exclusive, Written, NoTx
<1>5. UniqueKey' /\ ReferentialIntegrity'
  BY <1>2 DEF IInv, UniqueKey, ReferentialIntegrity
<1> QED BY <1>0, <1>3, <1>4, <1>5 DEF IInv, LockDiscipline, OwnOk

\* Every step keeps the invariant.
LEMMA NextKeeps == IInv /\ [Next]_vars => IInv'
<1> SUFFICES ASSUME IInv, [Next]_vars
             PROVE  IInv'
  OBVIOUS
<1>1. ASSUME NEW q \in Requests, Advance(q)
      PROVE  IInv'
  <2>1. CASE NotFound(q)
    BY <2>1, AbortKeeps DEF NotFound
  <2> QED
    BY <1>1, <2>1, LocalStepsKeep, InsertKeeps, UpsertKeeps, CheckForeignKeyKeeps,
       DeleteRawKeeps, CascadeRowKeeps, InsertRowKeeps, FlushPatchKeeps,
       DeleteRowKeeps, CommitKeeps DEF Advance
<1>2. ASSUME NEW q \in Requests, Fails(q) \/ DeadlockVictim(q)
      PROVE  IInv'
  BY <1>2, AbortKeeps DEF Fails, FetchFails, CommitFails, DbError, DeadlockVictim
<1>3. CASE Crash
  BY <1>3, CrashKeeps
<1>4. CASE Finished \/ UNCHANGED vars
  <2>1. raws' = raws /\ proc' = proc /\ req' = req /\ tx' = tx
    BY <1>4 DEF Finished, vars
  <2>2. TypeOK' /\ UniqueKey' /\ ReferentialIntegrity'
    BY <2>1 DEF IInv, TypeOK, UniqueKey, ReferentialIntegrity
  <2>3. ASSUME NEW q \in Requests
        PROVE  WritesAreCurrent(q)' /\ FreshIsBacked(q)'
    BY <2>1 DEF IInv, LockDiscipline, WritesAreCurrent, FreshIsBacked, At
  <2>4. ASSUME NEW q \in Requests
        PROVE  OnlyDeletesRemove(q)' /\ CascadeIsComplete(q)' /\ StepFitsKind(q)'
    BY <2>1 DEF IInv, LockDiscipline, OnlyDeletesRemove, CascadeIsComplete,
                StepFitsKind, At
  <2>5. \A p, q \in Requests : p # q => Exclusive(p, q)'
    BY <2>1 DEF IInv, LockDiscipline, Exclusive, Written
  <2> QED BY <2>2, <2>3, <2>4, <2>5 DEF IInv, LockDiscipline
<1> QED BY <1>1, <1>2, <1>3, <1>4 DEF Next

\* No transaction is open at the start, and the seeds are sound tables.
LEMMA InitIsSound == Init => IInv
<1> SUFFICES ASSUME Init
             PROVE  IInv
  OBVIOUS
<1>1. TypeOK
  BY InitIsTyped
<1>2. UniqueKey /\ ReferentialIntegrity
  BY SeedsAssumption DEF Init, UniqueKey, ReferentialIntegrity
<1>3. \A q \in Requests : tx[q] = NoTx /\ req[q].step = "idle"
  BY DEF Init, Fresh
<1>4. ASSUME NEW q \in Requests
      PROVE  OwnOk(q)
  BY <1>3 DEF OwnOk, WritesAreCurrent, FreshIsBacked, OnlyDeletesRemove,
              CascadeIsComplete, StepFitsKind, At, NoTx, UniqueKeys
<1>5. \A p, q \in Requests : Exclusive(p, q)
  BY <1>3 DEF Exclusive, Written, NoTx
<1> QED BY <1>1, <1>2, <1>4, <1>5 DEF IInv, LockDiscipline, OwnOk

\* What open transactions hold always lets their commits keep the tables whole.
THEOREM RequestsInvariant == Spec => []IInv
  BY InitIsSound, NextKeeps, PTL DEF Spec

\* The tables have one row per event, whatever requests are interleaved.
THEOREM RequestsUniqueKey == Spec => []UniqueKey
<1>1. IInv => UniqueKey
  BY DEF IInv
<1> QED BY <1>1, RequestsInvariant, PTL

\* No interleaving of requests leaves a processed row without its raw.
THEOREM RequestsReferentialIntegrity == Spec => []ReferentialIntegrity
<1>1. IInv => ReferentialIntegrity
  BY DEF IInv
<1> QED BY <1>1, RequestsInvariant, PTL

\* Locks exclude each other and what is about to be installed is up to date.
THEOREM RequestsLockDiscipline == Spec => []LockDiscipline
<1>1. IInv => LockDiscipline
  BY DEF IInv
<1> QED BY <1>1, RequestsInvariant, PTL

-----------------------------------------------------------------------------
(* Identity of rows, and acknowledged commits. *)

\* Only a commit changes the tables.
LEMMA OnlyCommitsWrite ==
    ASSUME [Next]_vars
    PROVE  proc' = proc \/ \E q \in Requests : Commit(q)
<1>1. ASSUME NEW q \in Requests, Advance(q), ~Commit(q)
      PROVE  proc' = proc
  BY <1>1 DEF Advance, Start, BulkAdd, CreateRaw, Insert, ListUnprocessed,
     NextRecord, Upsert, CheckForeignKey, BatchDone, GetRaw, DeleteRaw,
     CascadeRow, CascadeDone, InsertRow, GetRow, NotFound, FlushPatch,
     RefreshPatch, DeleteRow, Respond, Abort
<1>2. ASSUME NEW q \in Requests, Fails(q) \/ DeadlockVictim(q)
      PROVE  proc' = proc
  BY <1>2 DEF Fails, FetchFails, CommitFails, DbError, DeadlockVictim, Abort
<1> QED BY <1>1, <1>2 DEF Next, Crash, Finished, vars

\* A row that survives a commit, or is replaced by it, keeps its id and source.
LEMMA StepKeepsIdentity == IInv /\ [Next]_vars => [Tables!KeepsIdentity]_vars
<1> SUFFICES ASSUME IInv, [Next]_vars
             PROVE  Tables!KeepsIdentity
  OBVIOUS
<1>1. UniqueKeys(proc)
  BY DEF IInv, UniqueKey
<1>2. CASE proc' = proc
  BY <1>1, <1>2 DEF Tables!KeepsIdentity, UniqueKeys
<1>3. ASSUME NEW q \in Requests, Commit(q)
      PROVE  Tables!KeepsIdentity
  <2>1. WritesAreCurrent(q)
    BY DEF IInv, LockDiscipline
  <2> QED BY <1>1, <1>3, <2>1
     DEF Commit, WritesAreCurrent, Tables!KeepsIdentity, UniqueKeys
<1> QED BY <1>2, <1>3, OnlyCommitsWrite

\* However requests interleave, an event's row keeps its id and its source.
THEOREM RequestsKeepIdentity == Spec => IdentityKept
  BY StepKeepsIdentity, RequestsInvariant, PTL DEF Spec, IdentityKept

=============================================================================
