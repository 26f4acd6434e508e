# Earthdata Platform: a TLA+ verification project

The Earthdata Platform (`src/`) is an asynchronous FastAPI service over PostgreSQL. It fetches natural events
from NASA EONET, stores them verbatim (`raw_observations`), turns them into clean rows (`processed_observations`), and
serves those rows as lists, figures, CSV and a dashboard. This directory holds TLA+ modules of its behaviour, TLC
configurations that model-check them on small instances, and proofs that TLAPS checks for all instances.

Source paths below are relative to `src/src/earthdata/` unless they say otherwise.

## 1. Inventory

| Component | State | Operations | Interacts with | What makes it correct |
|---|---|---|---|---|
| **Session per request** (`core/di.py`, `db/session.py`) | one `AsyncSession`, one READ COMMITTED transaction, identity map | open, yield to the handler, commit after it, roll back on an exception | every handler; FastAPI decides whether the exit code runs before or after the answer | an answered success is committed; nothing half-done stays |
| **Tables** (`db/models/`, `alembic/versions/`) | `raw_observations`, `processed_observations`; unique `external_id`; foreign key `ON DELETE CASCADE` | insert, upsert, update, delete | all requests, concurrently | one row per event; no row without its raw; a row keeps its id and source |
| **Raw repository and endpoints** (`repositories/raw_observation_repository.py`, `api/v1/endpoints/raw_observations.py`) | none of its own | create, get, list, `list_unprocessed`, delete | tables, processing | "unprocessed" selects what still has to be shown |
| **Processed repository and endpoints** (`repositories/processed_observation_repository.py`, `.../processed_observations.py`) | none | create, get, patch, delete, upsert, paged list, counts | tables | no lost update; a PATCH touches what it names; idempotent upsert |
| **Processing service** (`processing/service.py`) | processed/skipped counters of one call | loop over a batch: clean, validate, transform, upsert | both repositories | one bad record does not cost the others; the backlog drains |
| **Cleaning, validation, transformation** (`processing/*.py`) | none (pure) | payload to row | ingestion's schema | the row says what the payload says |
| **Ingestion service, EONET client** (`ingestion/*.py`) | attempts of one fetch | GET with retries, validate the answer, store verbatim | EONET; raw repository | gives up exactly when exhausted; keeps what it was sent |
| **Analytics service** (`analytics/service.py`) | none | summary (several statements), time series, export | tables | figures that fit together |
| **Pagination envelope** (`schemas/common.py`) | none | `has_more` | list endpoints, clients | following it visits every record |
| **Error mapping** (`core/exceptions.py`) | none | exception to response | all | an error means rolled back |
| **Connection pool** (`db/session.py`) | `pool_size + max_overflow` connections | check out with a ping, return, wait, time out | every session | no connection is lost; every request gets one or an error; a restart of the database fails only who is under way |
| **Dashboard** (`api/v1/endpoints/dashboard.py`) | selected interval, charts (browser) | load, change the interval | analytics endpoints | draws what is selected, and the chart agrees with the tiles |
| **Health** (`api/v1/endpoints/health.py`) | none | one statement, its failure reported in the body | pool, session | answers also when the database does not |
| **Version, logging, settings, CSV** | none | - | - | - |

Hard behaviour, in order of weight:

1. **Concurrent transactions.** Every handler awaits between its statements, so any other request may run in between. Locks,
   unique index and foreign key decide; the read of a PATCH or of a batch may be stale when it writes.
2. **The end of a request.** Commit, answer, rollback, a failing commit, a dying server, and the order of answer and commit.
3. **Long series of pipeline calls.** Events come back in every EONET answer; "unprocessed" is a join on the *current* raw of a row.
4. **Partial failure.** One raw of a batch is skipped, or raises and takes the batch with it.
5. **Untyped payloads.** Nulls, blanks, short or non-numeric coordinates, naive and aware dates pass through several layers.
6. **Answers of several statements.** Page and total, total and open count, tiles and chart, each sees another database.
7. **The pool.** A request keeps its connection for as long as it has a transaction; connections die in the pool and under statements.

`PROJECT.json` lists the hazards one by one, each with its line and the properties on it.

## 2. Modules

```
Observations                 rows, captures, and what upsert, patch and post make of them (constant level)
 ├─ ObservationTables        ABSTRACT: every write request is one atomic step on two tables
 │   ├─ PipelineSchedule     long series of ingest / process calls, composed of those steps
 │   └─ ReadRequests         page walks, exports and summaries, statement by statement, among those steps
 │       └─ Dashboard        the page's script: summary, chart, overlapping loads of its selector
 └─ RequestTransactions      DETAILED: requests as interleaved transactions; implements ObservationTables
RequestServing               requests over the connection pool of a database that may restart
EventNormalisation           pure: payload -> cleaned -> validated -> row, and what raises on the way
 └─ EventIntake              one event: fetch with retries, ingest or post, clean, validate, store
X_proofs                     theorems about X        MCX   instances of X for TLC
RequestCommits_proofs        more about RequestTransactions, from RequestTransactions_proofs: what a commit may do
```

`EventIntake_proofs` is also about `EventNormalisation`, `Dashboard_proofs` also about `ReadRequests`.

The modules meet at three seams. `RequestTransactions` implements `ObservationTables` (`RequestsImplementTables`), and so do
`PipelineSchedule` and `Dashboard` with the steps they take from it (`ScheduleImplementsTables`, `DashboardImplementsTables`), so these
may take a request as one step. `Capture[r].kind`, which those modules take as given (valid, skipped, or one that raises), sums up the three
ends of `EventIntake`; which payloads come to which is said there of the payload itself (`SkippedOnlyIfUnfit`, `RaisesForAReason`), and
`MCPipelineSchedule` assumes, and TLC evaluates, that each kind it uses occurs (`KindsOccur`). `RequestServing` takes the same handlers and the same
exit code as `RequestTransactions` and looks below the session, where that module looks above it: there a statement may fail, here it is
shown when it does.

Operators commented "Mutant of X" are broken variants of X, the way a plausible bug would have it. No specification uses
them. `PROJECT.json` pairs each property of a passing run with one: put in the place of X it makes TLC report that property.

### Observations

`Capture[r]` is the immutable content of raw id `r`: event key (`external_id`), source, columns, kind. A processed row has
`key`, `id`, `raw` (`raw_observation_id`), `source` and `cols` (the columns an upsert or PATCH may set). Values of
columns are opaque. `Overwrite` is the `set_` of the upsert, without `id` and `source`; `Pending` is the outer join of
`list_unprocessed`; `ApplyPatch` writes the columns given and no others.

### RequestTransactions

| TLA+ | Code |
|---|---|
| `raws`, `proc` | the committed tables |
| `req[q].step` | the statement the handler of `q` awaits next |
| `req[q].batch, done, cur, seen, asked` | the handler's locals: listed raws, the loop's position, the record in hand, the loaded row, the PATCH body |
| `tx[q]` | raws inserted and deleted, raws locked `FOR KEY SHARE`, row versions superseded (`old`) and written (`fresh`) |
| `BulkAdd`, `FetchFails`, `CreateRaw` | `POST /pipeline/ingest`, `POST /raw-observations` |
| `ListUnprocessed`, `NextRecord`, `Upsert`, `CheckForeignKey`, `BatchDone` | `POST /pipeline/process`; any order of the batch, as there is no `ORDER BY` |
| `GetRaw`, `DeleteRaw`, `CascadeRow`, `CascadeDone` | `DELETE /raw-observations/{id}` and what PostgreSQL does for it |
| `InsertRow` (then `CheckForeignKey`) | `POST /processed-observations` |
| `GetRow`, `FlushPatch`, `RefreshPatch`, `DeleteRow`, `NotFound` | PATCH and DELETE of a processed row |
| `Commit`, `CommitFails`, `Respond` | the code after the `yield` of `get_db_session`, and the answer |
| `DbError`, `DeadlockVictim`, `Crash` | a failing statement, PostgreSQL's detector, the end of the process |

`Blocks(p, q)` says when q's statement waits for p's transaction: an upsert or insert for a key whose row or index entry p has
written, an UPDATE or DELETE for a row version p has superseded, the foreign-key check for a raw p is deleting, the delete of a raw
for those who share-lock it, the cascade for rows others have written. PostgreSQL and SQLAlchemy are modelled from how the code uses
them: READ COMMITTED statements see what is committed when they run; the unit of work emits `SET` only for attributes that differ
from the loaded ones (`Changed`) and nothing if none does; an UPDATE of a vanished row is `StaleDataError`, a DELETE of one only a
warning. `AnswerFirst` stands for the two orders of answer and exit code FastAPI has had in the range that
`src/pyproject.toml` admits.

### ObservationTables

The two tables, and one action per write request: `AddRaws`, `RemoveRaw`, `ProcessBatch`, `CreateRow`, `PatchRow`, `RemoveRow`.
`ProcessBatch(W, ...)` leaves each event of the batch shown by one of its raws; `credit` says whose source a new row carries,
which is that of the first capture processed, even if a later one of the same batch overwrote the rest.

### PipelineSchedule

`Ingest`, `CreateRaw` and `Process`, one call at a time as the documented scheduler makes them. `Listed(B)` is any choice of
`Limit` pending raws; `ProcessBatchOf` aborts as a whole if the batch holds a capture that raises.

### EventNormalisation and EventIntake

A payload is abstracted to what the code distinguishes: a text is absent, null, blank, fine, or too long for its column; a
date has no, a naive or an aware time zone, and an instant; coordinates are too short, without `len()`, not numbers, off the
Earth, or fine. `Clean`, `Validates`, `Transform` follow `processing/`, `Ingestible` follows `ingestion/schemas.py`, with what
*raises* kept apart from what is *rejected*. The two list comprehensions of cleaning are `KeepAt`, which says by position what
`SelectSeq` says by recursion, so that its results can be proved; TLC evaluates that the two agree (`KeepAtIsSelectSeq`). `EventIntake` runs one payload through fetch, retries and the four steps.

### ReadRequests

A client asks for page after page of one of the two lists while `has_more` is true, each page two statements (`ListPage`,
`CountPage`); an export is one (`Export`); a summary is `CountTotal`, `CountOpen`, `CountCategories`, `CountSources`, `DateBounds`, a statement each. Both repositories
filter and sort alike, so a `Record` is what they look at: a row's `is_open` and `event_date`, or whether a raw is from EONET and its
`created_at`. `ORDER BY` one column leaves ties open: `Ordered` is any list that sorts, and each page may come from another one. The raws of one
ingest all share `created_at`, the default sort column, so ties are what a walk meets; the properties say what holds with them. A record that shares its
date with none (`Alone`) is listed exactly once, whatever ties there are elsewhere; of records of one date a walk shows as many as there are, and may repeat one in place of another. `Commit` is a commit of another request, with a
batch taken one raw at a time and without rows posted by hand, up to a bound; the proofs hold among any operations of `ObservationTables`
(`AmongAnyWritesSpec`).
`grown` and `gone` remember whether some record has appeared or disappeared, to say what the answer can still promise.

### Dashboard

| TLA+ | Code (the script in `api/v1/endpoints/dashboard.py`) |
|---|---|
| `page.phase` | how far `init()` is: summary awaited, first series awaited, listening, or ended by an exception |
| `page.selected`, `page.shown`, `page.series` | the selector, and the interval and points of the drawn chart |
| `loads` | calls of `loadTimeseries` under way, answered or not |
| `DrawTiles`, `SummaryFails` | `init()` after its first `await` |
| `Change` | the user; the `change` listener, registered only once the first chart is drawn |
| `Serve`, `Draw`, `LoadFails` | the database's statement (`Timeseries`, `Bucket`), the answer, in any order |

`page.excuse` is history: the chart may differ from the selector if a change came too early, if its load failed, or if an earlier load's
answer came after a later one's. `ChartFollowsSelector` says there is no fourth reason.

### RequestServing

| TLA+ | Code |
|---|---|
| `idle`, `slots` | SQLAlchemy's `AsyncAdaptedQueuePool`: its queue and how many connections exist |
| `r[q].phase`, `.conn` | how far the request is, and its session's connection (`live`, `dead`, or `lost` under a statement) |
| `lock` | a row that writes contend for (`RequestTransactions` has all the locks) |
| `Ask`, `Wake`, `WaitEnds`, `WaitFails` | the first statement of a session: from the queue, a new one, or a wait of `pool_timeout` |
| `Connect`, `Ping` | `pool_pre_ping`, and making a connection, while the database is up or down |
| `Fetch` | the ingest handler's call of EONET, before any connection is held |
| `LockRow`, `Finish`, `StatementLost`, `Raise` | the handler's statements; `get_health` alone catches what they raise |
| `Respond`, `Exit`, `RollBack` | the answer and the exit code of `get_db_session`, in either order |
| `Outage`, `Recover` | PostgreSQL goes down and comes back |

The pool is SQLAlchemy's and is modelled from what it does under the settings of `db/session.py`. A waiter is woken when a connection
is *returned*; when one is closed, or could not be made, nobody is told, and the waiter finds the free place when its timer rings (`WaitEnds`).

## 3. Model-checking runs

| Run | Shows |
|---|---|
| `requests_pipeline` | a process request, with another process / an ingest of up to two events / a manual capture, with a raw's delete or a posted row: types, one row per event, no dangling row, an open transaction has written what one request of its kind may (`WorkOfOneRequest`), a committed batch is shown (`BatchIsShown`), and every commit is one step of the abstract tables (`ImplementsTables`) |
| `requests_edits` | a PATCH with every kind of request that writes rows, answered before the commit: what open transactions hold is consistent (`LockDiscipline`) and the work of one request each (`WorkOfOneRequest`), identity of rows, no lost update of columns a PATCH did not name, the row that a PATCH answers with is the one it commits (`PatchAnswersWhatItCommits`), no row vanishes without a delete |
| `requests_answered` | two process requests and a delete or PATCH, which can wait for each other in a circle: every request is answered |
| `schedule_backlog` | long series of calls over six captures of two events: a row shows one capture whole, but for the source, which it keeps of an earlier capture of the event, and every valid event gets shown while the limit covers the backlog |
| `intake_outcomes` | a few thousand payloads, fetched with failing attempts or posted: the row says what the payload says, a capture is skipped only if unfit, a payload raises only for a reason to be found in it, one of an accepted EONET answer only for its time zones or the length of its texts, transient failures are tried again until exhausted and final answers never |
| `dashboard_reads` | page walks, exports, and the dashboard with its summary and overlapping loads, among other commits: records that stay are listed, an undisturbed walk or export is exact (both but for records of one date), figures add up as far as they can, the chart shows what is selected, tiles and chart agree |
| `serving_pool` | requests that contend for connections and for a row, while EONET hangs and the database restarts: no connection is lost or returned twice, only requests under way fail, `/health` answers, everyone is served |
| `requests_acked`, `schedule_idempotent`, `schedule_poison`, `schedule_starvation`, `intake_empty_values` | the five disagreements of section 6; each checks one property and TLC refutes it |

Bounds. *Requests*: three at a time. Every property of `RequestTransactions` but liveness relates at most a row, its raw
and two transactions; the third makes circles of three, and lets someone commit between the statements of both others. Three raws of
two events give a batch with two captures of one event (overwriting within a batch), two rows (opposite lock orders), and a raw that
cannot be processed; an ingest may bring none, one or both of two more captures, of an event that has a row and of one that has none; two columns tell a named from an unnamed one. Limits 1 and 3: shorter than the backlog and covering it. A
request is served once. *Schedule*: six captures, k1 three times and k2 twice from two sources plus an invalid one; `Limit = 6` covers
them. Raw deletions are left to `RequestTransactions`, so the stock bounds a behaviour's captures but not its calls: process
calls go on for ever. *Intake*: payloads differ from a usual one in two fields, lists have up to two elements of any shape and
three of the usual one (the latest point in first, middle, last place); limits 0, 2, 3 for the retries. *Reads*: page size and export limit 2 with up to
four rows or five raws, so there are full last pages, empty ones, walks of up to three pages, and exports that are cut off; two rows
share a date and two raws a `created_at`; `Commit` stops once a record has appeared and one has gone, since no property speaks of the
answer after that. *Dashboard*: two changes of the selector over two intervals (dates of one day, and of two), so that three loads overlap and the first
interval comes back. *Serving*: three requests over two places, one of them in the queue (`PoolSize = 1`, `MaxOverflow = 1`): two hold, one waits, a
returned connection is kept or closed; among the three are two that contend for the row, one that may hang in EONET, and one that is `/health`. One
outage suffices for every order of one outage and three requests.

Deadlock is checked in the request, serving and schedule runs: a request system stops only in `Finished`, and a schedule never does.
It is not checked in `intake_*` and `dashboard_reads`, whose behaviours end with the outcome of the payload, the answer, or a page at rest.

Fairness. `FairSpec` asks weak fairness of `Advance(q)` for every request (the event loop resumes every handler whose statement is
through, the database runs every statement whose locks are free) and of the deadlock detector (PostgreSQL's `deadlock_timeout`).
Failures, crashes and failing commits are allowed and never owed. `ScheduleSpec` asks weak fairness of `Process` alone: the documented
scheduler goes on calling it; nobody owes further events. `parity` makes a call that changes nothing a step, so that fairness does not
quietly promise useful calls. `FairSpec` of `RequestServing` asks weak fairness of `Advance(q)`: the event loop, the pool and the database go on
with whatever can go on, and a waiter's timer rings eventually when a place is free (`pool_timeout` is finite). Not owed are arrivals, EONET's answer,
that a database that is down comes back, and that a timer rings while all connections are in use; `EveryoneIsServed` holds without them.

## 4. Theorems

Every safety invariant, action property and refinement that a passing run checks is proved for every value of the constants, under the named
assumptions of the modules. Those that say more than the shape of a constant:

* `RequestsAssumption`: `Requests` is finite, and each request has an id of its own for the row it may insert. `FreshStockAssumption`: the raw ids that requests
  generate (`uuid4`) are in no initial database and differ from request to request. `SeedsAssumption`: initial databases satisfy the schema.
* `FiniteAssumption`: `RawIds` and `Keys` are finite (ids are UUIDs, `external_id` has a bounded length), so tables are finite. In `ReadAssumption`, dates
  are numbers counted from before the first of them, so that they can be compared.
* `ServingAssumption`: finitely many requests, `PoolSize > 0`.
* `SeedsShowTheirRaws`, a hypothesis of `ScheduleShowsRaws`: the tables that the scheduler starts from, empty in the run, hold no row that somebody posted or edited
  by hand, since such a row shows what it was given.

| Theorem | Says |
|---|---|
| `RequestsTyping` | `TypeOK` |
| `RequestsInvariant` | `IInv`, the inductive invariant of integrity |
| `RequestsUniqueKey`, `RequestsReferentialIntegrity`, `RequestsLockDiscipline` | its parts that readers ask for |
| `RequestsKeepIdentity` | no commit changes the id or source of a row that stays |
| `RequestsWork`, `RequestsDoOneThing` | `CInv`, the inductive invariant of what transactions have written; `WorkOfOneRequest` |
| `RequestsImplementTables` | the refinement: every step of interleaved transactions is one operation of `ObservationTables` or changes neither table |
| `RequestsTouchOnlyAsked` | a PATCH leaves the columns its body does not name as the last commit left them |
| `RequestsAnswerWhatTheyCommit` | the row that a PATCH is answered with is the one that its commit leaves |
| `RequestsShowBatches` | a committed batch shows each valid raw it listed |
| `RequestsVanishOnlyByDelete` | a row goes only by its own DELETE or that of its raw |
| `TablesIntegrity`, `TablesKeepIdentity` | the two integrity facts of the abstract tables |
| `ScheduleInvariant`, `ScheduleTyping` | `ScheduleInv`, types, for any captures and limit |
| `ScheduleImplementsTables` | `ScheduleSpec => Spec`: the scheduler's calls are operations of the tables |
| `ScheduleShowsRaws` | a row is always one whole capture that some call processed, but for its source, which is that of some processed capture of the event |
| `IntakeInvariant`, `IntakeTyping` | `IntakeInv`, types, for any payloads and settings |
| `RowsAreFaithful`, `SkippedWithReason`, `IngestedEventsSurvive`, `ClientGivesUp`, `AbortsHaveReasons` | the five invariants of `EventIntake`, for lists of any length and any number of retries |
| `DashboardInvariant`, `AmongAnyWritesInvariant` | `DashInv`, the inductive invariant of readers and page, among the writes of the model and among any |
| `DashboardImplementsTables` | `DashSpec => Spec`: readers leave the tables to others |
| `DashboardTyping` | types of reads, page and loads |
| `WalkMissesNothing`, `QuietWalksAreExact` | what a walk through the pages and an export show, for tables and pages of any size, with any ties |
| `SummariesAddUp`, `ChartShowsSelection`, `ChartMatchesTiles` | what the summary and the chart show |
| `PromisesAmongAnyWrites` | these five among any operations of `ObservationTables` |
| `ServingInvariant` | `ServingInv`, the inductive invariant of `RequestServing`, for any requests, pool and outages |
| `ServingTyping`, `SlotsStayAccounted`, `OutagesOnly`, `HealthAnswers` | its parts: types, the pool's account, who fails in an outage, what `/health` says |

*Integrity of requests.* Neither `UniqueKey` nor `ReferentialIntegrity` is inductive: whether a commit keeps them depends on what the transaction
wrote under other commits. `IInv == TypeOK /\ UniqueKey /\ ReferentialIntegrity /\ LockDiscipline` says what every open transaction
may rely on until its end: what it supersedes is still the committed version and a version it will install collides with no other
(`WritesAreCurrent`); the raw of a version it will install is share-locked, or already backs the row it supersedes, or is about to be checked
(`FreshIsBacked`); no two transactions hold the same key, nor does one delete a raw another has locked (`Exclusive`); only deletes
remove rows (`OnlyDeletesRemove`); at its end a delete has removed all that pointed at its raw (`CascadeIsComplete`); and steps
belong to kinds of request (`StepFitsKind`). Each action that writes rows goes through one lemma (`WriteKeeps`), statements that write
nothing through another (`LocalStepsKeep`), ends of transactions through `AbortKeeps`, `CrashKeeps` and `CommitKeeps`.
In `CommitKeeps` exclusivity does the work: what q installs or deletes cannot touch what p supersedes or has locked.
`RequestsKeepIdentity` follows since only commits change the tables (`OnlyCommitsWrite`) and `WritesAreCurrent` has identity in it.

*What a commit does.* The refinement and the three action properties are about the moment of a commit, but what makes them true was written earlier, under
other commits. `CInv == IInv /\ WorkOfOneRequest` keeps for each kind of request what its transaction may hold by now: a batch's versions show valid raws that the
loop is past, under the row's old identity or a new one with the source of a capture of that event; a PATCH holds one row and columns of its body; a DELETE the row it loaded; a delete of a raw
that raw and rows that point at it; and raws that are to be added are nobody else's (`RawsApart`). `WorkOfOneRequest` is an invariant of two runs, too. The
part of `IInv` that matters here is `WritesAreCurrent`: what a transaction supersedes is still the committed version, so that at the commit the
difference between `old` and `fresh` *is* the difference between the tables before and after. Each kind of commit then matches its action of `ObservationTables`; in a
batch the witnesses are one raw per event shown (`W`) and the sources that new rows carry (`credit`). That no update is lost by a PATCH follows although its
handler decided on a stale read: the columns not named are those of the version it locked, not of the one it loaded. That it answers with what it commits
(`RequestsAnswerWhatTheyCommit`) is that the refresh reads the transaction's own version (`RefreshIsOwnWork`), which nobody else can change before the commit.

*Schedule.* `ScheduleInv` is the integrity of the tables and that what was processed is stored. `CallImplements` maps each call to an
operation of `ObservationTables` or, if the batch aborts, to a stutter; the integrity of the tables then comes from `TablesStep`, proved once for the
abstract operations, and the refinement from the same lemma.

*Intake.* `IntakeInv` says for each phase what the steps before it have decided of the payload (`StepsSoFar`), that what was stored from EONET passed its schema
(`PayloadIsKnown`), and how far the retries are (`RetriesSoFar`). The results then follow from lemmas on the pure functions: `KeepAt` returns the kept elements in their order
(`KeepAtFacts`, from `RankIsBijective`), `Latest` a latest point of any list (`LatestFacts`), and validation rules out all that `Transform` and
the columns cannot take, but for dates with and without time zones and texts too long (`InvEonet`); of a payload from anyone
only an element of the wrong type raises earlier (`RefusedFacts`, `InvRaises`).

*Readers and page.* `DashInv == ReadInv /\ PageInv`. The hard part is `WalkInv`. A position in a list means nothing once someone has inserted; the invariant speaks of *ranks* instead: in the
order asked for, a record not yet listed has a rank beyond the offset. Inserts only raise ranks (`RankGrows`), a full page lists exactly the ranks after its offset
(`PlaceIsRank`, `PageFacts`), and a page that is not full, or a total that the offset has reached, leaves no rank to be beyond it (`CountPageStep`). That place and rank agree takes only
that the one record is alone with its date; a record that is so at the end was so all along, as none has gone. For `QuietWalkIsExact`, two lists of the same records may
differ in their records but not in their dates (`SameDates`: otherwise the records up to some place in one list would all have to be before it in the other, `NoneIsBehind`, and the pigeonhole
principle forbids that). So the dates of the pages so far are those that every sorted list begins with (`QuietWalk`), although each page came from a list of its own, and a record alone with its date is where that date is
(`DatesShowOnce`). For the figures, `History` turns the two history flags into directions: without a
record that appeared, the records now are among those at the start; without one that went, the reverse. Each figure is a cardinality, hence bounded in that direction when it is taken, and equal
if neither happened (`Figures`). That the groups, and the points of any chart, add up to a count is one lemma on sums over the parts of a finite
set (`PartsAddUp`). On the page, `PointsFit` says of the points of every answer under way, drawn or not, what `TilesMatchChart` says of the chart,
and `LatestChange` that the last change is drawn, or under way, or has failed, which is why `ChartFollowsSelector` needs only its three excuses.
TLC checked each part of `DashInv` on the instance of `dashboard_reads` before it was proved.

*Finite sets.* Sums, maxima and ranks are defined by recursion or choice over finite sets, and the library's induction theorems, which take an operator, cannot be
instantiated by the installed provers. The proofs use what needs no operator: the strict-subset ordering on finite sets is well-founded, so a family of finite sets has a
minimal member (`MinimalSet`), and a counterexample of least size leads to one smaller. `NatMin` does the same for numbers.

*Serving.* `ServingInv` adds two facts about each request to the checked invariants: `PhaseFits` (in which phases a session may have
a connection; that only an ingest fetches and a `/health` request never raises) and `OutagesAreKnown` (a connection that died under a request is remembered as
`struck`, and whoever is under way while the database is down remembers that). Every action concerns one request, so the proof has two halves: what is said of that
request (`Sound(q)'`), and the pool's account, in which a step leaves the set `InUse` as it is, adds the request to it, or takes it out
(`StepWithoutPool`, `StepGetsConnection`, `StepGivesBack`). `SlotsAreAccounted` follows from counting `InUse`; it would not be inductive without `PhaseFits`,
since a request whose phase does not fit its connection could return it twice. `Outage` changes every request at once and is proved by itself.

*Only model-checked*: liveness (`EveryRequestAnswered`, `EventsGetShown`, `EveryoneIsServed`). Fairness and `ENABLED` are out of the prover's reach. That `KeepAt` equals
`SelectSeq` is evaluated for the lists of the instance, since the standard modules define `SelectSeq` by recursion.

## 5. Not modelled

* The columns `created_at` and `updated_at` of processed rows: no property reads them. (The upsert leaves `updated_at` alone: a listed
  hazard.) Raws have their `created_at`, the default sort column, in `ReadRequests`.
* The HTTP clients that `get_eonet_client` makes and no one closes: a listed hazard, without state that anything else depends on.
* The optional filters and bounds of `get_timeseries`, which the page does not use, and filters of the lists beyond one that tells records apart.
* A client that disconnects, or cancels, in the middle of a request.
* How the page is laid out and drawn (Chart.js), its colours and texts.
* Version, logging, settings, CSV formatting, status codes and bodies of errors: no state, or wording.

## 6. Where code and documentation disagree

1. **Answer before commit** (`requests_acked`). With FastAPI 0.118 and later a dependency's code after `yield` runs once the response has
   been sent. `core/di.py` documents a commit "on clean completion of the request"; a success can be answered and then rolled back.
2. **Reprocessing is not idempotent** (`schedule_idempotent`). A raw whose row was taken over by a newer capture is "unprocessed" again, so
   each call puts older data back, without end and with no new capture.
3. **One bad record aborts the batch** (`schedule_poison`). Only `DataValidationError` is skipped. Mixed naive and aware dates, or a title
   longer than its column, raise something else, each time the record is listed.
4. **Starvation** (`schedule_starvation`). Captures that never validate stay listed; `LIMIT` without `ORDER BY` lets them fill
   every batch.
5. **Empty values are kept** (`intake_empty_values`). `str(None)` is the text `None`; a title of blanks passes the truth test before it is stripped.

Two observations that no documentation speaks about. A PATCH whose values equal those it loaded writes nothing; if someone else changed the row
meanwhile, the refresh reads that, and 200 is answered with values the client did not ask for. An exception that no handler of
`core/exceptions.py` expects is answered by the outermost middleware of Starlette, so `RequestLoggingMiddleware` writes no line for it.

## 7. Plan

Done, in this order: `Observations`, `ObservationTables`, `RequestTransactions` with its proofs and the refinement of the tables,
`PipelineSchedule`, `EventNormalisation` with `EventIntake`, `ReadRequests` (both lists, exports, date bounds), `Dashboard`,
`RequestServing` with its proofs. Then the proofs of the refinement and the commits, of the schedule, of the intake, of the readers and the page.

Next, extending the model:

1. Timestamps of rows: `onupdate` against the `ON CONFLICT` branch, and sorting by `updated_at`.
2. A client that repeats a lost request: repeated ingest and create against the unique index.

Next, proving more:

1. The promises of the tables for whatever implements them, stated once: identity of rows for the schedule and the readers, through their refinements.
2. The seam of `Capture[r].kind` as a theorem: `PipelineSchedule` over captures whose kind is the end that `EventIntake` comes to with a payload.
3. `RequestServing` against `RequestTransactions`: that the two see the same ends of a request (answer, exit code, failure).
