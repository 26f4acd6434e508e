------------------------ MODULE Observations_proofs -------------------------
(***************************************************************************)
(* What the row operations of Observations return, stated once for the     *)
(* proofs about the modules built from them.                               *)
(***************************************************************************)
EXTENDS Observations, TLAPS

\* The row a capture inserts is a row, of the capture's event and raw.
LEMMA NewRowIsRow ==
    ASSUME NEW r \in RawIds, NEW i \in RowIds
    PROVE  /\ NewRow(r, i) \in Row
           /\ NewRow(r, i).key = Capture[r].key
           /\ NewRow(r, i).raw = r
           /\ NewRow(r, i).id = i
  BY CaptureAssumption DEF NewRow, Row, CaptureType, Contents

\* The conflict branch of the upsert keeps the row's event, id and source.
LEMMA OverwriteIsRow ==
    ASSUME NEW x \in Row, NEW r \in RawIds
    PROVE  /\ Overwrite(x, r) \in Row
           /\ Overwrite(x, r).key = x.key
           /\ Overwrite(x, r).id = x.id
           /\ Overwrite(x, r).source = x.source
           /\ Overwrite(x, r).raw = r
  BY CaptureAssumption DEF Overwrite, Row, CaptureType, Contents

\* An UPDATE of some asked columns keeps everything that is not a column.
LEMMA ApplyPatchIsRow ==
    ASSUME NEW x \in Row, NEW p \in PatchType, NEW C, C \subseteq DOMAIN p
    PROVE  /\ ApplyPatch(x, p, C) \in Row
           /\ ApplyPatch(x, p, C).key = x.key
           /\ ApplyPatch(x, p, C).id = x.id
           /\ ApplyPatch(x, p, C).source = x.source
           /\ ApplyPatch(x, p, C).raw = x.raw
<1> DEFINE cols == [c \in Columns |-> IF c \in C THEN p[c] ELSE x.cols[c]]
<1>1. cols \in Contents
  <2>1. \A c \in C : p[c] \in Values
    BY DEF PatchType
  <2> QED BY <2>1 DEF Row, Contents
<1> HIDE DEF cols
<1>2. ApplyPatch(x, p, C) = [x EXCEPT !.cols = cols]
  BY DEF ApplyPatch, cols
<1> QED BY <1>1, <1>2 DEF Row

\* A posted row is a row.
LEMMA PostedRowIsRow ==
    ASSUME NEW post \in Posts, NEW i \in RowIds
    PROVE  /\ PostedRow(post, i) \in Row
           /\ PostedRow(post, i).key = post.key
           /\ PostedRow(post, i).id = i
           /\ PostedRow(post, i).raw = post.raw
  BY PostsAssumption DEF PostedRow, PostType, Row, Contents

\* The row versions an upsert leaves are rows of the capture's event that show
\* the capture; there is one, if there was at most one to overwrite.
LEMMA UpsertedIsRows ==
    ASSUME NEW rows \in SUBSET Row, UniqueKeys(rows),
           NEW r \in RawIds, NEW i \in RowIds
    PROVE  /\ Upserted(rows, r, i) \subseteq Row
           /\ UniqueKeys(Upserted(rows, r, i))
           /\ \A y \in Upserted(rows, r, i) :
                 /\ y.key = Capture[r].key
                 /\ y.raw = r
                 /\ \A x \in rows : x.key = y.key => x.id = y.id /\ x.source = y.source
<1> DEFINE old == WithKey(rows, Capture[r].key)
<1>1. CASE old = {}
  <2>1. Upserted(rows, r, i) = {NewRow(r, i)}
    BY <1>1 DEF Upserted
  <2>2. \A x \in rows : x.key # Capture[r].key
    BY <1>1 DEF WithKey
  <2> QED BY <2>1, <2>2, NewRowIsRow DEF UniqueKeys
<1>2. CASE old # {}
  <2>1. Upserted(rows, r, i) = {Overwrite(x, r) : x \in old}
    BY <1>2 DEF Upserted
  <2>2. \A x \in old : x \in rows /\ x \in Row /\ x.key = Capture[r].key
    BY DEF WithKey
  <2>3. \A x, y \in old : x = y
    BY <2>2 DEF UniqueKeys
  <2>4. \A x \in rows : x.key = Capture[r].key => x \in old
    BY DEF WithKey
  <2> HIDE DEF old
  <2>5. \A x \in old : /\ Overwrite(x, r) \in Row
                       /\ Overwrite(x, r).key = Capture[r].key
                       /\ Overwrite(x, r).raw = r
                       /\ Overwrite(x, r).id = x.id
                       /\ Overwrite(x, r).source = x.source
    BY <2>2, OverwriteIsRow
  <2>6. UniqueKeys(Upserted(rows, r, i))
    BY <2>1, <2>3 DEF UniqueKeys
  <2> QED BY <2>1, <2>3, <2>4, <2>5, <2>6
<1> QED BY <1>1, <1>2

=============================================================================
