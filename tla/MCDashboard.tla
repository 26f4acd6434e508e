---------------------------- MODULE MCDashboard -----------------------------
(* An instance of Dashboard for TLC: lists of up to five records, and a page. *)
EXTENDS Dashboard, TLC

Cap(k, s, open, date, category) ==
    [key |-> k, source |-> s, kind |-> "valid",
     cols |-> [is_open |-> open, event_date |-> date, category |-> category]]

\* Three events with dates of their own; k1 is captured again, later and closed,
\* and k4 has the date of k3.  Those of one category have different sources.
MCCapture ==
    [r1 |-> Cap("k1", "eonet", 1, 1, 0), r2 |-> Cap("k2", "manual", 0, 2, 0),
     r3 |-> Cap("k3", "eonet", 1, 3, 1), r4 |-> Cap("k1", "eonet", 0, 4, 0),
     r5 |-> Cap("k4", "manual", 1, 3, 1)]

MCRawIds == DOMAIN MCCapture

\* r1 and r2 were posted by hand, r3 to r5 came with two ingests; r3 started
\* before r2 was committed.
MCCreatedAt == [r1 |-> 1, r2 |-> 3, r3 |-> 2, r4 |-> 4, r5 |-> 4]

Ask(o, a, d) == [of |-> o, admit |-> a, dir |-> d]

\* No filter, is_open=true, source=eonet; both directions.
MCAsks == {Ask("rows", {TRUE, FALSE}, "desc"), Ask("rows", {TRUE}, "asc"),
           Ask("raws", {TRUE}, "desc"), Ask("raws", {TRUE, FALSE}, "asc")}

MCPatches == {"is_open" :> 0}

Seed(stored, rs) == [raws |-> stored, proc |-> {NewRow(r, "seed") : r \in rs}]

\* A backlog to process, and a list that ends with its first page and may grow.
MCSeeds == {Seed(MCRawIds, {"r1", "r2", "r3"}), Seed({"r3", "r5"}, {"r3", "r5"})}

MCWidth == [day |-> 1, week |-> 2]
=============================================================================
