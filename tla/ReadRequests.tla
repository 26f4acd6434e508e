---------------------------- MODULE ReadRequests -----------------------------
(***************************************************************************)
(* The requests that only read: a client walking through the pages of a    *)
(* list endpoint, GET /analytics/export, and GET /analytics/summary.       *)
(* An answer is put together from several statements, and at READ          *)
(* COMMITTED each of them sees what other requests have committed by then. *)
(***************************************************************************)
EXTENDS ObservationTables, SequencesExt, FiniteSetsExt

CONSTANTS
    PageSize,     \* the `limit` of the pages
    ExportLimit,  \* the `limit` of an export
    CreatedAt,    \* CreatedAt[r]: created_at of raw r, the start of its transaction
    Asks          \* what a client may ask for

\* Both list endpoints filter and sort the same way, so a record is what they
\* look at: for a row, whether it is open and its event_date, for a raw,
\* whether it is from EONET and its created_at.
Record == [id : RawIds \cup Keys, class : BOOLEAN, at : Nat]

\* of: the list; admit: what the filter lets through; dir: sort_order.
AskType == [of : {"rows", "raws"}, admit : SUBSET BOOLEAN, dir : {"asc", "desc"}]

\* Dates are numbers, counted from before the first of them.
ASSUME ReadAssumption ==
    /\ {PageSize, ExportLimit} \subseteq Nat \ {0}
    /\ CreatedAt \in [RawIds -> Nat]
    /\ Asks \subseteq AskType
    /\ {"is_open", "event_date", "category"} \subseteq Columns
    /\ Values \subseteq Nat

\* Ids are UUIDs, and names of events have a bounded length.
ASSUME FiniteAssumption == IsFiniteSet(RawIds) /\ IsFiniteSet(Keys)

VARIABLES
    read,   \* the answer in the making
    begin,  \* history: the records when the first statement was about to run
    grown,  \* history: some record has appeared since, or taken another form
    gone    \* history: some record has disappeared since, or taken another form

readVars == <<raws, proc, read, begin, grown, gone>>

\* step: the next statement; listed: the records of the pages so far; items:
\* those of the page whose count is still to come; span: earliest and latest.
ReadType ==
    [ask : AskType, offset : Nat, items : Seq(Record), listed : Seq(Record),
     total : Nat, open : Nat, categories : Nat, sources : Nat, span : SUBSET Nat,
     step : {"page", "count", "walked", "export", "exported",
             "total", "open", "categories", "sources", "span", "summed"}]

ReadTypeOK ==
    /\ TypeOK
    /\ read \in ReadType
    /\ begin \subseteq Record
    /\ {grown, gone} \subseteq BOOLEAN
    /\ Len(read.items) <= PageSize

\* Mutant of IsOpen: the flag is read the wrong way round.
IsClosed(x) == x.cols["is_open"] = 0

IsOpen(x) == x.cols["is_open"] = 1

\* The table that a request is about.
Records(of) ==
    IF of = "rows"
    THEN {[id |-> x.key, class |-> x.cols["is_open"] = 1, at |-> x.cols["event_date"]] :
             x \in proc}
    ELSE {[id |-> r, class |-> Capture[r].source = SourceName, at |-> CreatedAt[r]] :
             r \in raws}

\* An export and a summary are about rows: the former in ascending order, the
\* latter of all (it has no filter; its ask is only a place holder).
ReadInit ==
    /\ Init
    /\ \E a \in Asks, s \in {"page", "export", "total"} :
          /\ s # "page" => a.of = "rows"
          /\ s = "export" => a.dir = "asc"
          /\ s = "total" => a = [of |-> "rows", admit |-> BOOLEAN, dir |-> "desc"]
          /\ read = [ask |-> a, offset |-> 0, items |-> <<>>, listed |-> <<>>, total |-> 0,
                     open |-> 0, categories |-> 0, sources |-> 0, span |-> {}, step |-> s]
    /\ begin = Records(read.ask.of)
    /\ grown = FALSE
    /\ gone = FALSE

-----------------------------------------------------------------------------

\* _filtered_query, with the one filter that tells records apart here.
Filtered(records, ask) == {x \in records : x.class \in ask.admit}

\* ORDER BY one column and nothing else: records of one date in any order.
Ordered(records, ask) ==
    {s \in SetToSeqs(records) :
        \A i, j \in 1..Len(s) : i < j =>
            IF ask.dir = "asc" THEN s[i].at <= s[j].at ELSE s[i].at >= s[j].at}

\* Mutant of PageOf: one record more than asked for.
PageAndOne(s, offset, limit) ==
    SubSeq(s, offset + 1, IF offset + limit < Len(s) THEN offset + limit + 1 ELSE Len(s))

\* LIMIT and OFFSET of a list of records.
PageOf(s, offset, limit) ==
    SubSeq(s, offset + 1, IF offset + limit <= Len(s) THEN offset + limit ELSE Len(s))

\* list_filtered.
ListFiltered(offset, limit) ==
    {PageOf(s, offset, limit) : s \in Ordered(Filtered(Records(read.ask.of), read.ask), read.ask)}

\* Mutant of CountFiltered: the total ignores the filter.
CountUnfiltered == Cardinality(Records(read.ask.of))

\* count_filtered.
CountFiltered == Cardinality(Filtered(Records(read.ask.of), read.ask))

\* Mutant of HasMore: the last record of all is not beyond any page.
HasMoreButOne(page, offset, total) == offset + Len(page) + 1 < total

\* Page.has_more.
HasMore(page, offset, total) == offset + Len(page) < total

\* The items of a page,
ListPage ==
    /\ read.step = "page"
    /\ \E p \in ListFiltered(read.offset, PageSize) :
          read' = [read EXCEPT !.items = p, !.step = "count"]

\* its total, the answer, and the client's request for the next page.
CountPage ==
    /\ read.step = "count"
    /\ LET more == HasMore(read.items, read.offset, CountFiltered)
       IN  read' = [read EXCEPT !.total = CountFiltered,
                                !.listed = @ \o read.items,
                                !.items = <<>>,
                                !.offset = IF more THEN @ + PageSize ELSE @,
                                !.step = IF more THEN "page" ELSE "walked"]

\* export_rows: one statement, and no total to say whether the limit cut it off.
Export ==
    /\ read.step = "export"
    /\ \E p \in ListFiltered(0, ExportLimit) :
          read' = [read EXCEPT !.listed = p, !.step = "exported"]

\* GROUP BY c: the counts of the groups, which are only looked at as their sum.
GroupSum(c) ==
    LET InGroup(g) == Cardinality({x \in proc : c[x] = g})
    IN  MapThenSumSet(InGroup, {c[x] : x \in proc})

\* get_summary: count_total,
CountTotal ==
    /\ read.step = "total"
    /\ read' = [read EXCEPT !.total = Cardinality(proc), !.step = "open"]

\* count_open,
CountOpen ==
    /\ read.step = "open"
    /\ read' = [read EXCEPT !.open = Cardinality({x \in proc : IsOpen(x)}),
                             !.step = "categories"]

\* count_by_category,
CountCategories ==
    /\ read.step = "categories"
    /\ read' = [read EXCEPT !.categories = GroupSum([x \in proc |-> x.cols["category"]]),
                             !.step = "sources"]

\* count_by_source, a statement of its own,
CountSources ==
    /\ read.step = "sources"
    /\ read' = [read EXCEPT !.sources = GroupSum([x \in proc |-> x.source]),
                             !.step = "span"]

\* and get_event_date_bounds, none of an empty table.
DateBounds ==
    /\ read.step = "span"
    /\ LET dates == {x.cols["event_date"] : x \in proc}
       IN  read' = [read EXCEPT !.span = {d \in dates : \/ \A e \in dates : d <= e
                                                        \/ \A e \in dates : d >= e},
                                !.step = "summed"]

Reads ==
    /\ \/ ListPage \/ CountPage \/ Export
       \/ CountTotal \/ CountOpen \/ CountCategories \/ CountSources \/ DateBounds
    /\ UNCHANGED <<raws, proc, begin, grown, gone>>

\* Another request commits.  A batch is taken one raw at a time; what one
\* request adds has one created_at.  Bound: after a record has appeared and one
\* has gone, nothing below says anything of the answer, and the tables rest.
Commit ==
    /\ ~(grown /\ gone)
    /\ UNCHANGED <<read, begin>>
    /\ \/ \E S \in SUBSET (RawIds \ raws) :
             (\A r, s \in S : CreatedAt[r] = CreatedAt[s]) /\ AddRaws(S)
       \/ \E r \in Pending(raws, proc), i \in RowIds :
             ProcessBatch({r}, i, [k \in Keys |-> Capture[r].source])
       \/ \E r \in raws : RemoveRaw(r)
       \/ \E x \in proc : RemoveRow(x)
       \/ \E x \in proc, p \in Patches : \E C \in SUBSET DOMAIN p : PatchRow(x, p, C)
    /\ grown' = (grown \/ Records(read.ask.of)' \ Records(read.ask.of) # {})
    /\ gone' = (gone \/ Records(read.ask.of) \ Records(read.ask.of)' # {})

Answered == read.step \in {"walked", "exported", "summed"}

ReadNext == Reads \/ (~Answered /\ Commit)

ReadSpec == ReadInit /\ [][ReadNext]_readVars

-----------------------------------------------------------------------------

Wanted == Filtered(begin, read.ask)

\* No other record has the date of x.
Alone(x, records) == \A y \in records : y.at = x.at => y = x

\* A client that follows has_more to the end has been shown every record that
\* was there when it began, in spite of records inserted meanwhile, as long as
\* none is deleted or changed: all of them but those that share their date with
\* another, which the database may order anew for each page.  (The raws of one
\* ingest all share created_at, by which the list is sorted by default.)
StableRowsAreListed ==
    read.step = "walked" /\ ~gone =>
        \A x \in Wanted :
            Alone(x, Filtered(Records(read.ask.of), read.ask)) => x \in ToSet(read.listed)

\* If nothing at all is written, the walk shows as many records as there are,
\* with the dates of a sorted list of all of them and none that is not wanted,
\* and the total is their number; so a record may be repeated only in place of
\* another of its date, and each that has a date of its own is shown exactly
\* once.  An export shows the first records.
QuietWalkIsExact ==
    ~gone /\ ~grown =>
        /\ read.step = "walked" =>
              /\ read.total = Cardinality(Wanted)
              /\ ToSet(read.listed) \subseteq Wanted
              /\ \E s \in Ordered(Wanted, read.ask) :
                    /\ Len(s) = Len(read.listed)
                    /\ \A i \in DOMAIN s : read.listed[i].at = s[i].at
              /\ \A x \in Wanted : Alone(x, Wanted) =>
                    \E i \in DOMAIN read.listed :
                        \A j \in DOMAIN read.listed : read.listed[j] = x <=> j = i
        /\ read.step = "exported" =>
              /\ Len(read.listed) = IF Cardinality(Wanted) < ExportLimit
                                    THEN Cardinality(Wanted) ELSE ExportLimit
              /\ \A i \in DOMAIN read.listed, x \in Wanted \ ToSet(read.listed) :
                    read.listed[i].at <= x.at

\* closed_count = total - open_count counts the closed rows, the categories and
\* the sources each add up to the total and the dates are those of the first and
\* the last row if nothing is written in between; no figure exceeds the total
\* unless a row has been added or changed since that was taken.
SummaryAddsUp ==
    read.step = "summed" =>
        /\ ~grown => \A n \in {read.open, read.categories, read.sources} : n <= read.total
        /\ ~grown /\ ~gone =>
              /\ read.total - read.open = Cardinality({x \in begin : ~x.class})
              /\ read.categories = read.total /\ read.sources = read.total
              /\ read.span \subseteq {x.at : x \in begin}
              /\ \A x \in begin : \E d, e \in read.span : d <= x.at /\ x.at <= e

=============================================================================
