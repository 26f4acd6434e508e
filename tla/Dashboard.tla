------------------------------ MODULE Dashboard ------------------------------
(***************************************************************************)
(* The page that GET /dashboard serves, in a browser, among requests of    *)
(* others: its script loads the summary, draws the tiles, loads and draws  *)
(* the daily time series, and only then listens to the interval selector.  *)
(* Each later change of the selector is a load of its own, so several may  *)
(* be under way, and their answers arrive in any order.                    *)
(***************************************************************************)
EXTENDS ReadRequests

CONSTANTS
    Width,      \* Width[i]: how many dates an interval of the selector spans
    First,      \* the interval that the script loads first: "day"
    MaxChanges  \* bound: how often the selector is changed

Intervals == DOMAIN Width

ASSUME DashboardAssumption ==
    /\ Width \in [Intervals -> Nat \ {0}]
    /\ First \in Intervals
    /\ MaxChanges \in Nat

VARIABLES
    page,   \* the page
    loads   \* the time series asked for and not yet drawn

dashVars == <<readVars, page, loads>>

\* selected: the selector; shown, series: the interval and the points of the
\* chart; changes: how often the selector was changed, which numbers the loads;
\* newest (history): the latest load drawn; excuse (history): why the chart may
\* differ from the selector.
PageType ==
    [phase : {"loading", "drawing", "ready", "broken"},
     selected : Intervals, shown : Intervals, series : SUBSET (Nat \X Nat),
     changes : 0..MaxChanges, newest : 0..MaxChanges,
     excuse : SUBSET {"missed", "failed", "overtaken"}]

LoadType ==
    [n : 0..MaxChanges, interval : Intervals, answered : BOOLEAN,
     points : SUBSET (Nat \X Nat)]

DashboardTypeOK ==
    /\ ReadTypeOK
    /\ page \in PageType
    /\ loads \subseteq LoadType

NewLoad(n, i) == [n |-> n, interval |-> i, answered |-> FALSE, points |-> {}]

\* A page that nobody looks at while a client reads lists stays as it is.
DashInit ==
    /\ ReadInit
    /\ page = [phase |-> "loading", selected |-> First, shown |-> First, series |-> {},
               changes |-> 0, newest |-> 0, excuse |-> {}]
    /\ loads = {}

-----------------------------------------------------------------------------

\* Mutant of Bucket: the end of the interval.
BucketEnd(i, d) == (d \div Width[i]) * Width[i] + Width[i]

\* date_trunc.
Bucket(i, d) == (d \div Width[i]) * Width[i]

\* get_timeseries without bounds: each bucket that has rows, and their number.
Timeseries(i) ==
    {<<b, Cardinality({x \in proc : Bucket(i, x.cols["event_date"]) = b})>> :
        b \in {Bucket(i, x.cols["event_date"]) : x \in proc}}

\* The summary has arrived: renderTiles, renderCategoryChart, the first load.
DrawTiles ==
    /\ read.step = "summed" /\ page.phase = "loading"
    /\ page' = [page EXCEPT !.phase = "drawing"]
    /\ loads' = {NewLoad(0, First)}
    /\ UNCHANGED readVars

\* It has not, or is an error: init() ends there.
SummaryFails ==
    /\ read.step \in {"total", "open", "categories", "sources", "span", "summed"}
    /\ page.phase = "loading"
    /\ page' = [page EXCEPT !.phase = "broken"]
    /\ UNCHANGED <<readVars, loads>>

\* Mutant of Change: the listener loads what was selected before.
ChangeLate(i) ==
    /\ i # page.selected /\ page.changes < MaxChanges
    /\ LET n == page.changes + 1
       IN  IF page.phase = "ready"
           THEN /\ page' = [page EXCEPT !.selected = i, !.changes = n, !.excuse = {}]
                /\ loads' = loads \cup {NewLoad(n, page.selected)}
           ELSE /\ page' = [page EXCEPT !.selected = i, !.changes = n, !.excuse = @ \cup {"missed"}]
                /\ UNCHANGED loads
    /\ UNCHANGED readVars

\* The selector is changed: before the first chart is drawn, nobody listens.
Change(i) ==
    /\ i # page.selected /\ page.changes < MaxChanges
    /\ LET n == page.changes + 1
       IN  IF page.phase = "ready"
           THEN /\ page' = [page EXCEPT !.selected = i, !.changes = n, !.excuse = {}]
                /\ loads' = loads \cup {NewLoad(n, i)}
           ELSE /\ page' = [page EXCEPT !.selected = i, !.changes = n, !.excuse = @ \cup {"missed"}]
                /\ UNCHANGED loads
    /\ UNCHANGED readVars

\* The database answers a load.
Serve(l) ==
    /\ ~l.answered
    /\ loads' = (loads \ {l})
                    \cup {[l EXCEPT !.answered = TRUE, !.points = Timeseries(l.interval)]}
    /\ UNCHANGED <<readVars, page>>

\* The answer arrives, in any order: renderTimeseriesChart draws it, and the
\* first time init() goes on to listen.
Draw(l) ==
    /\ l.answered
    /\ loads' = loads \ {l}
    /\ page' = [page EXCEPT !.phase = "ready", !.shown = l.interval, !.series = l.points,
                            !.newest = IF l.n > @ THEN l.n ELSE @,
                            !.excuse = IF l.n < page.newest THEN @ \cup {"overtaken"}
                                                            ELSE @ \ {"overtaken"}]
    /\ UNCHANGED readVars

\* It does not, or is an error: the old chart stays, and without a first one
\* init() ends.
LoadFails(l) ==
    /\ loads' = loads \ {l}
    /\ page' = [page EXCEPT !.phase = IF @ = "drawing" THEN "broken" ELSE @,
                            !.excuse = IF l.n = page.changes THEN @ \cup {"failed"} ELSE @]
    /\ UNCHANGED readVars

\* The page has what it will get; commits of others no longer matter to it.
AtRest == loads = {} /\ page.phase \in {"ready", "broken"}

PageNext ==
    /\ read.step \in {"total", "open", "categories", "sources", "span", "summed"}
    /\ \/ DrawTiles \/ SummaryFails
       \/ \E i \in Intervals : Change(i)
       \/ \E l \in loads : Serve(l) \/ Draw(l) \/ LoadFails(l)

DashNext ==
    \/ PageNext
    \/ ReadNext /\ UNCHANGED <<page, loads>>
    \/ read.step = "summed" /\ ~AtRest /\ Commit /\ UNCHANGED <<page, loads>>

DashSpec == DashInit /\ [][DashNext]_dashVars

-----------------------------------------------------------------------------

\* Once nothing is under way the chart shows what is selected, unless the change
\* came too early, its load failed, or answers overtook each other.
ChartFollowsSelector ==
    AtRest /\ page.phase = "ready" /\ page.excuse = {} => page.shown = page.selected

\* The chart shows the rows that the tiles count: the points of any load add up
\* to the total unless rows have come or gone since the page was opened, and if
\* none has, the first and the last point are of the summary's dates.
TilesMatchChart ==
    page.phase = "ready" =>
        LET counted == MapThenSumSet(LAMBDA p : p[2], page.series)
        IN  /\ ~gone => counted >= read.total
            /\ ~grown => counted <= read.total
            /\ ~grown /\ ~gone =>
                  /\ \A d \in read.span : \E p \in page.series : p[1] = Bucket(page.shown, d)
                  /\ \A p \in page.series : \E d, e \in read.span :
                        p[1] <= e /\ d < p[1] + Width[page.shown]

=============================================================================
