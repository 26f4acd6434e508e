----------------------- MODULE MCRequestTransactions ------------------------
(* Instances of RequestTransactions for TLC. *)
EXTENDS RequestTransactions, TLC

CONSTANTS q1, q2, q3

MCColumns == {"title", "open"}

C(t, o) == [c \in MCColumns |-> IF c = "title" THEN t ELSE o]

\* r1 and r2 capture event k1 (r2 from another source), r3 event k2; bad and
\* worse do not survive processing; n1 and n2 are what an ingest or a POST may add:
\* an ingest one, both or none of them.
MCCapture ==
    [r1 |-> [key |-> "k1", source |-> "eonet", cols |-> C(0, 0), kind |-> "valid"],
     r2 |-> [key |-> "k1", source |-> "manual", cols |-> C(1, 0), kind |-> "valid"],
     r3 |-> [key |-> "k2", source |-> "eonet", cols |-> C(0, 1), kind |-> "valid"],
     bad |-> [key |-> "k2", source |-> "eonet", cols |-> C(0, 0), kind |-> "invalid"],
     worse |-> [key |-> "k2", source |-> "manual", cols |-> C(0, 0), kind |-> "poison"],
     n1 |-> [key |-> "k1", source |-> "eonet", cols |-> C(1, 1), kind |-> "valid"],
     n2 |-> [key |-> "k2", source |-> "eonet", cols |-> C(1, 1), kind |-> "valid"]]

MCRawIds == DOMAIN MCCapture

MCRequests == {q1, q2, q3}

MCStock == (q1 :> {}) @@ (q2 :> {"n1", "n2"}) @@ (q3 :> {})

MCRowIds == MCRequests \cup {"seed"}

MCPatches == {"title" :> 1, "open" :> 1}

MCPosts == {[key |-> "k2", raw |-> "r1", source |-> "manual", cols |-> C(1, 0)]}

S(r, p) == [raws |-> r, proc |-> p]

\* Databases that earlier requests can have left.
Unprocessed == S({"r1", "r2", "r3"}, {})
OneRow == S({"r1", "r2", "r3"}, {NewRow("r1", "seed")})
TwoRows == S({"r1", "r2", "r3"}, {NewRow("r1", "seed"), NewRow("r3", "seed")})
\* A row was posted by hand for event k2, derived from r1.
ByHand ==
    S({"r1", "r2", "r3"},
      {NewRow("r1", "seed"), [NewRow("r3", "seed") EXCEPT !.raw = "r1"]})
Spoilt == S({"r1", "r2", "bad"}, {NewRow("r1", "seed")})
Poisoned == S({"r1", "r3", "worse"}, {})

AllSeeds == {Unprocessed, OneRow, TwoRows, ByHand, Spoilt, Poisoned}
EditSeeds == {Unprocessed, OneRow, TwoRows, ByHand}
LiveSeeds == {Unprocessed, ByHand, Spoilt}

K(a, b, c) == (q1 :> a) @@ (q2 :> b) @@ (q3 :> c)

\* A batch, another batch or what adds raws, and what disturbs both.
Pipelines == K({"process"}, {"process", "ingest", "create_raw"}, {"delete_raw", "create"})

\* A PATCH against every kind that writes rows.
Edits == K({"patch"}, {"patch", "delete", "process"}, {"delete_raw", "delete", "process"})

\* Requests that can wait for each other in a circle.
Waiting == K({"process"}, {"process"}, {"delete_raw", "patch"})
=============================================================================
