---------------------------- MODULE MCEventIntake ----------------------------
(* An instance of EventIntake for TLC. *)
EXTENDS EventIntake

\* Sequences over S of at most n elements.
UpTo(S, n) == UNION {[1..k -> S] : k \in 0..n}

At(z, t) == [zone |-> z, at |-> t]

MCDates == {At("none", 0), At("naive", 1), At("aware", 1), At("aware", 2)}

MCPoints == [date : MCDates, coords : {"short", "broken", "junk", "out", "in"}]

\* What an EONET event's history looks like: up to three dated points.
Tracks == UpTo([date : {At("aware", 1), At("aware", 2)}, coords : {"short", "in"}], 3)

Usual ==
    [id |-> "text", title |-> "text", categories |-> <<"text">>,
     geometry |-> <<[date |-> At("aware", 1), coords |-> "in"]>>, closed |-> "null"]

\* Payloads that differ from the usual one in two fields.
MCPayloads ==
    {[Usual EXCEPT !.id = i, !.title = t] : i \in Texts, t \in Texts}
      \cup {[Usual EXCEPT !.categories = cs, !.title = t] :
               cs \in UpTo(CategoryTitles, 2), t \in {"null", "text"}}
      \cup {[Usual EXCEPT !.geometry = gs, !.closed = c] :
               gs \in UpTo(MCPoints, 2) \cup Tracks, c \in {"null", "date", "junk"}}

\* KeepAt is SelectSeq.
ASSUME KeepAtIsSelectSeq ==
    \A s \in UpTo({"a", "b", "c"}, 4), T \in SUBSET {"a", "b", "c"} :
        LET In(x) == x \in T
        IN  KeepAt(s, {i \in 1..Len(s) : s[i] \in T}) = SelectSeq(s, In)
=============================================================================
