---------------------- MODULE ObservationTables_proofs ----------------------
(***************************************************************************)
(* The tables keep their integrity for any captures, clients and history:  *)
(* one row per event, no dangling raw, and rows that keep their identity.  *)
(***************************************************************************)
EXTENDS ObservationTables, Observations_proofs

\* The three facts a step needs of the state it starts in.
TablesInv == TypeOK /\ UniqueKey /\ ReferentialIntegrity

\* A row that a batch leaves: typed, of the capture's event, showing it, and
\* the same row as before if there was one.
LEMMA ProcessedIsRow ==
    ASSUME TypeOK, UniqueKey, NEW r \in RawIds, NEW i \in RowIds,
           NEW credit \in [Keys -> Sources]
    PROVE  /\ Processed(r, i, credit) \subseteq Row
           /\ UniqueKeys(Processed(r, i, credit))
           /\ \A y \in Processed(r, i, credit) :
                 /\ y.key = Capture[r].key
                 /\ y.raw = r
                 /\ \A x \in proc : x.key = y.key => x.id = y.id /\ x.source = y.source
<1> DEFINE k == Capture[r].key
           old == WithKey(proc, k)
<1>0. k \in Keys
  BY CaptureAssumption DEF CaptureType
<1>1. CASE old = {}
  <2> DEFINE new == [NewRow(r, i) EXCEPT !.source = credit[k]]
  <2>1. Processed(r, i, credit) = {new}
    BY <1>1 DEF Processed
  <2>2. new \in Row /\ new.key = k /\ new.raw = r
    BY <1>0, NewRowIsRow DEF Row
  <2>3. \A x \in proc : x.key # k
    BY <1>1 DEF WithKey
  <2> HIDE DEF new
  <2> QED BY <2>1, <2>2, <2>3 DEF UniqueKeys
<1>2. CASE old # {}
  <2>1. Processed(r, i, credit) = {Overwrite(x, r) : x \in old}
    BY <1>2 DEF Processed
  <2>2. \A x \in old : x \in proc /\ x \in Row /\ x.key = k
    BY DEF WithKey, TypeOK
  <2>3. \A x, y \in old : x = y
    BY <2>2 DEF UniqueKey, UniqueKeys
  <2>4. \A x \in proc : x.key = k => x \in old
    BY DEF WithKey
  <2> HIDE DEF old
  <2>5. \A x \in old : /\ Overwrite(x, r) \in Row
                       /\ Overwrite(x, r).key = k
                       /\ Overwrite(x, r).raw = r
                       /\ Overwrite(x, r).id = x.id
                       /\ Overwrite(x, r).source = x.source
    BY <2>2, OverwriteIsRow
  <2> QED BY <2>1, <2>3, <2>4, <2>5 DEF UniqueKeys
<1> QED BY <1>1, <1>2

\* A batch keeps the integrity of the tables and the identity of the rows.
LEMMA ProcessBatchStep ==
    ASSUME TablesInv, NEW W \in SUBSET raws, NEW i \in RowIds,
           NEW credit \in [Keys -> Sources], ProcessBatch(W, i, credit)
    PROVE  TablesInv' /\ KeepsIdentity
<1> DEFINE kept == {x \in proc : \A r \in W : Capture[r].key # x.key}
           new == UNION {Processed(r, i, credit) : r \in W}
<1>1. proc' = kept \cup new /\ raws' = raws
  BY DEF ProcessBatch
<1>2. \A r \in W : r \in RawIds /\ r \in raws
  BY DEF TablesInv, TypeOK
<1>3. \A y \in new : \E r \in W : y \in Processed(r, i, credit)
  OBVIOUS
<1>4. \A r, s \in W : Capture[r].key = Capture[s].key => r = s
  BY DEF ProcessBatch
<1>5. \A x \in kept : x \in proc /\ \A r \in W : Capture[r].key # x.key
  OBVIOUS
<1> HIDE DEF kept, new
<1>6. \A y \in new : \E r \in W :
         /\ y \in Processed(r, i, credit)
         /\ y \in Row /\ y.key = Capture[r].key /\ y.raw = r
         /\ \A x \in proc : x.key = y.key => x.id = y.id /\ x.source = y.source
  BY <1>2, <1>3, ProcessedIsRow DEF TablesInv
<1>7. \A x, y \in new : x.key = y.key => x = y
  <2> SUFFICES ASSUME NEW x \in new, NEW y \in new, x.key = y.key
               PROVE  x = y
    OBVIOUS
  <2>1. PICK r \in W : x \in Processed(r, i, credit) /\ x.key = Capture[r].key
    BY <1>6
  <2>2. PICK s \in W : y \in Processed(s, i, credit) /\ y.key = Capture[s].key
    BY <1>6
  <2>3. r = s
    BY <1>4, <2>1, <2>2
  <2>4. UniqueKeys(Processed(r, i, credit))
    BY <1>2, ProcessedIsRow DEF TablesInv
  <2> QED BY <2>1, <2>2, <2>3, <2>4 DEF UniqueKeys
<1>8. \A x \in kept, y \in new : x.key # y.key
  BY <1>5, <1>6
<1>9. TypeOK'
  BY <1>1, <1>5, <1>6 DEF TablesInv, TypeOK
<1>10. UniqueKey'
  BY <1>1, <1>5, <1>7, <1>8 DEF TablesInv, UniqueKey, UniqueKeys
<1>11. ReferentialIntegrity'
  BY <1>1, <1>2, <1>5, <1>6 DEF TablesInv, ReferentialIntegrity
<1>12. KeepsIdentity
  BY <1>1, <1>5, <1>6 DEF KeepsIdentity, TablesInv, UniqueKey, UniqueKeys
<1> QED BY <1>9, <1>10, <1>11 , <1>12 DEF TablesInv

\* Every step of Next keeps the integrity of the tables and row identities.
LEMMA TablesStep ==
    ASSUME TablesInv, [Next]_vars
    PROVE  TablesInv' /\ (proc' # proc => KeepsIdentity)
<1> USE DEF TablesInv, TypeOK, UniqueKey, UniqueKeys, ReferentialIntegrity, KeepsIdentity
<1>1. ASSUME NEW S \in SUBSET RawIds, AddRaws(S)
      PROVE  TablesInv' /\ (proc' # proc => KeepsIdentity)
  BY <1>1 DEF AddRaws
<1>2. ASSUME NEW r \in RawIds, RemoveRaw(r)
      PROVE  TablesInv' /\ (proc' # proc => KeepsIdentity)
  BY <1>2 DEF RemoveRaw
<1>3. ASSUME NEW W \in SUBSET raws, NEW i \in RowIds,
             NEW credit \in [Keys -> Sources], ProcessBatch(W, i, credit)
      PROVE  TablesInv' /\ (proc' # proc => KeepsIdentity)
  BY <1>3, ProcessBatchStep
<1>4. ASSUME NEW post \in Posts, NEW i \in RowIds, CreateRow(post, i)
      PROVE  TablesInv' /\ (proc' # proc => KeepsIdentity)
  <2>1. \A x \in proc : x.key # post.key
    BY <1>4 DEF CreateRow, WithKey
  <2> QED BY <1>4, <2>1, PostedRowIsRow DEF CreateRow
<1>5. ASSUME NEW x \in proc, NEW p \in Patches, NEW C \in SUBSET DOMAIN p,
             PatchRow(x, p, C)
      PROVE  TablesInv' /\ (proc' # proc => KeepsIdentity)
  <2> DEFINE y == ApplyPatch(x, p, C)
  <2>1. /\ y \in Row /\ y.key = x.key /\ y.id = x.id
        /\ y.source = x.source /\ y.raw = x.raw
    BY PatchesAssumption, ApplyPatchIsRow
  <2>2. proc' = (proc \ {x}) \cup {y} /\ raws' = raws
    BY <1>5 DEF PatchRow
  <2> HIDE DEF y
  <2> QED BY <2>1, <2>2
<1>6. ASSUME NEW x \in proc, RemoveRow(x)
      PROVE  TablesInv' /\ (proc' # proc => KeepsIdentity)
  BY <1>6 DEF RemoveRow
<1>7. CASE UNCHANGED vars
  BY <1>7 DEF vars
<1> QED BY <1>1, <1>2, <1>3, <1>4, <1>5, <1>6, <1>7 DEF Next

\* The tables are typed, have one row per event, and no dangling raw, in every
\* state of every history of requests.
THEOREM TablesIntegrity == Spec => []TablesInv
<1>1. Init => TablesInv
  BY SeedsAssumption DEF Init, TablesInv, TypeOK, UniqueKey, ReferentialIntegrity
<1>2. TablesInv /\ [Next]_vars => TablesInv'
  BY TablesStep
<1> QED BY <1>1, <1>2, PTL DEF Spec

\* No request ever gives an event's row another id or another source.
THEOREM TablesKeepIdentity == Spec => IdentityKept
<1>1. TablesInv /\ [Next]_vars => [KeepsIdentity]_vars
  <2> SUFFICES ASSUME TablesInv, [Next]_vars
               PROVE  [KeepsIdentity]_vars
    OBVIOUS
  <2>1. proc' # proc => KeepsIdentity
    BY TablesStep
  <2>2. proc' = proc => KeepsIdentity
    BY DEF KeepsIdentity, TablesInv, UniqueKey, UniqueKeys
  <2> QED BY <2>1, <2>2
<1> QED BY <1>1, TablesIntegrity, PTL DEF Spec, IdentityKept

=============================================================================
