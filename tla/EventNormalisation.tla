------------------------- MODULE EventNormalisation --------------------------
(***************************************************************************)
(* What becomes of one event payload: the shape ingestion requires         *)
(* (ingestion/schemas.py), cleaning, validation and transformation         *)
(* (processing/).  A payload is abstracted to what these steps tell apart. *)
(***************************************************************************)
EXTENDS Integers, Sequences, FiniteSets

\* A text field: "absent" is a missing key, "blank" is empty or white space,
\* "long" does not fit the column it is for.
Texts == {"absent", "null", "blank", "text", "long"}

\* The title of a category, which is "empty" when it is the empty string;
\* "broken" is an element without .get, or a list that is null.
CategoryTitles == {"absent", "empty", "blank", "text", "long", "broken"}

\* A date: not one, or an instant with or without a time zone.
DateType == [zone : {"none", "naive", "aware"}, at : Nat]

\* Coordinates: fewer than two, without len(), not numbers, off the Earth, fine.
PointType == [date : DateType, coords : {"short", "broken", "junk", "out", "in"}]

PayloadType ==
    [id : Texts, title : Texts, categories : Seq(CategoryTitles),
     geometry : Seq(PointType), closed : {"null", "date", "junk"}]

CleanTexts == {"", "None", "text", "long"}

CleanedType ==
    [id : CleanTexts, title : CleanTexts, categories : Seq({"", "text", "long"}),
     geometry : Seq(PointType), closed : {"null", "date", "junk"}]

\* What transformation makes of it, as far as the payload decides.
RowType ==
    [external_id : CleanTexts, title : CleanTexts, category : {"", "text", "long"},
     point : PointType, is_open : BOOLEAN]

Elements(s) == {s[i] : i \in 1..Len(s)}

\* What is left of s if only the positions of I are kept: SelectSeq, told by
\* position and without recursion, so that its results can be proved.
KeepAt(s, I) ==
    [n \in 1..Cardinality(I) |-> s[CHOOSE i \in I : Cardinality({j \in I : j <= i}) = n]]

\* Mutant of Ingestible: coordinates may be anything.
IngestibleAnywhere(p) ==
    /\ {p.id, p.title} \cap {"absent", "null"} = {}
    /\ p.categories # <<>>
    /\ Elements(p.categories) \cap {"absent", "broken"} = {}
    /\ p.geometry # <<>>
    /\ \A g \in Elements(p.geometry) : g.date.zone # "none"
    /\ p.closed # "junk"

\* EonetEvent: what an element of "events" must be for the answer to be kept.
Ingestible(p) ==
    /\ {p.id, p.title} \cap {"absent", "null"} = {}
    /\ p.categories # <<>>
    /\ Elements(p.categories) \cap {"absent", "broken"} = {}
    /\ p.geometry # <<>>
    /\ \A g \in Elements(p.geometry) : g.date.zone # "none" /\ g.coords \in {"in", "out"}
    /\ p.closed # "junk"

\* clean_event_payload raises TypeError or AttributeError.
CleaningRaises(p) ==
    \/ "broken" \in Elements(p.categories)
    \/ \E g \in Elements(p.geometry) : g.coords = "broken"

\* Mutant of CleanText: the text is taken as it is.
CleanTextVerbatim(t) == t

\* str(payload.get(field, "")).strip(): null becomes the text "None".
CleanText(t) == IF t \in {"absent", "blank"} THEN "" ELSE IF t = "null" THEN "None" ELSE t

\* A category goes if its title is falsy; its title is stripped after that test.
CleanCategories(cs) ==
    LET kept == KeepAt(cs, {i \in 1..Len(cs) : cs[i] \notin {"absent", "empty"}})
    IN  [i \in 1..Len(kept) |-> IF kept[i] = "blank" THEN "" ELSE kept[i]]

\* Mutant of CleanGeometry: points with too few coordinates are kept.
CleanNoGeometry(gs) == gs

CleanGeometry(gs) == KeepAt(gs, {i \in 1..Len(gs) : gs[i].coords # "short"})

Clean(p) ==
    [id |-> CleanText(p.id), title |-> CleanText(p.title),
     categories |-> CleanCategories(p.categories),
     geometry |-> CleanGeometry(p.geometry), closed |-> p.closed]

\* CleanedEvent.model_validate.
Validates(c) ==
    /\ c.id # "" /\ c.title # ""
    /\ c.categories # <<>>
    /\ c.geometry # <<>>
    /\ \A g \in Elements(c.geometry) : g.date.zone # "none" /\ g.coords = "in"
    /\ c.closed # "junk"

\* validate_coordinates indexes the second coordinate, if the fields are fine.
ValidationRaises(c) ==
    /\ \E g \in Elements(c.geometry) : g.coords = "short"
    /\ \A g \in Elements(c.geometry) : g.date.zone # "none" /\ g.coords # "junk"

\* max() over datetimes with and without a time zone: TypeError.
TransformRaises(c) == \E g, h \in Elements(c.geometry) : g.date.zone # h.date.zone

\* Mutant of Latest: the last point of the list.
LastListed(gs) == Len(gs)

\* max() returns the first of several latest points.
Latest(gs) ==
    CHOOSE i \in 1..Len(gs) : /\ \A j \in 1..Len(gs) : gs[j].date.at <= gs[i].date.at
                              /\ \A j \in 1..(i - 1) : gs[j].date.at < gs[i].date.at

Transform(c) ==
    [external_id |-> c.id, title |-> c.title, category |-> c.categories[1],
     point |-> c.geometry[Latest(c.geometry)], is_open |-> c.closed = "null"]

\* The columns have lengths; the ORM and the schemas of the pipeline do not.
Fits(row) == "long" \notin {row.external_id, row.title, row.category}

=============================================================================
