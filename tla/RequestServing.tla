--------------------------- MODULE RequestServing ---------------------------
(***************************************************************************)
(* The connections under the sessions.  One engine serves the process      *)
(* (db/session.py): at most pool_size + max_overflow connections, tested   *)
(* with a ping when they are taken from the pool.  A request takes one at  *)
(* the first statement of its session and keeps it until the exit code of  *)
(* get_db_session has run.  What the statements do to the tables is the    *)
(* business of RequestTransactions; here the database may restart.         *)
(***************************************************************************)
EXTENDS Integers, Sequences, FiniteSets

CONSTANTS
    Requests,      \* the requests of a history, each served once
    Kinds,         \* Kinds[q]: what request q may turn out to be
    PoolSize,      \* settings.database_pool_size
    MaxOverflow,   \* settings.database_max_overflow
    AnswerOrders,  \* the values of AnswerFirst (see RequestTransactions) to look at
    MaxOutages     \* bound: how often the database goes down

\* "write" locks a row that others may want, "read" does not; "ingest" calls
\* EONET before it writes; "health" is GET /health.
AllKinds == {"read", "write", "ingest", "health"}

ASSUME ServingAssumption ==
    /\ IsFiniteSet(Requests)
    /\ Kinds \in [Requests -> SUBSET AllKinds]
    /\ PoolSize \in Nat \ {0}
    /\ MaxOverflow \in Nat
    /\ AnswerOrders \subseteq BOOLEAN
    /\ MaxOutages \in Nat

VARIABLES
    db,           \* "up" or "down"
    outages,      \* how often it went down
    idle,         \* the pool's queue of connections, oldest return first
    slots,        \* connections that exist or are being made
    lock,         \* who holds the lock of the one row that writes contend for
    answerFirst,  \* whether answers leave before the sessions' exit code runs
    r             \* r[q]: request q

vars == <<db, outages, idle, slots, lock, answerFirst, r>>

MaxSlots == PoolSize + MaxOverflow

\* conn: the connection of the session, "lost" if it broke under a statement
\* and was given back at once; report: the body of /health; cause: what was
\* raised; down, struck (history): the database was down while q was under way,
\* went down while q was at work on its connection.
RequestType ==
    [kind : AllKinds,
     phase : {"new", "fetching", "asking", "waiting", "connecting", "pinging",
              "working", "locked", "handled", "raised", "over"},
     conn : {"none", "live", "dead", "lost"},
     ans : {"none", "ok", "error", "failure"},
     report : {"none", "ok", "unavailable"},
     cause : {"none", "domain", "other", "timeout", "refused", "lost"},
     down : BOOLEAN, struck : BOOLEAN]

ServingTypeOK ==
    /\ db \in {"up", "down"}
    /\ outages \in 0..MaxOutages
    /\ idle \in Seq({"live", "dead"})
    /\ slots \in Nat
    /\ lock \subseteq Requests
    /\ answerFirst \in BOOLEAN
    /\ r \in [Requests -> RequestType]

NewRequest(k) ==
    [kind |-> k, phase |-> "new", conn |-> "none", ans |-> "none", report |-> "none",
     cause |-> "none", down |-> FALSE, struck |-> FALSE]

Init ==
    /\ db = "up"
    /\ outages = 0
    /\ idle = <<>>
    /\ slots = 0
    /\ lock = {}
    /\ answerFirst \in AnswerOrders
    /\ r \in [Requests -> {NewRequest(k) : k \in AllKinds}]
    /\ \A q \in Requests : r[q].kind \in Kinds[q]

-----------------------------------------------------------------------------
(* The pool, and the handler's way out. *)

At(q, p) == r[q].phase = p

AtWork(q) == r[q].phase \in {"working", "locked", "handled", "raised"}

Holds(q) == r[q].conn \in {"live", "dead"}

Goto(q, p) == r' = [r EXCEPT ![q].phase = p]

\* Mutant of GiveBack: the connection is put back and closed.
GiveBackClosed(c) == idle' = Append(idle, c) /\ slots' = slots - 1

\* _do_return_conn: back to the queue, or closed if the queue is full.
GiveBack(c) ==
    IF Len(idle) < PoolSize
    THEN idle' = Append(idle, c) /\ UNCHANGED slots
    ELSE slots' = slots - 1 /\ UNCHANGED idle

\* The session closes.
Release(q) == IF Holds(q) THEN GiveBack(r[q].conn) ELSE UNCHANGED <<idle, slots>>

\* Mutant of Raise: get_health lets the exception through.
RaiseAlways(q, why, c) ==
    r' = [r EXCEPT ![q].cause = why, ![q].conn = c, ![q].phase = "raised"]

\* An exception of a statement reaches the handler, whose session is left with
\* connection c: get_health reports it, any other handler lets it through.
Raise(q, why, c) ==
    IF r[q].kind = "health"
    THEN r' = [r EXCEPT ![q].cause = why, ![q].conn = c,
                        ![q].phase = "handled", ![q].report = "unavailable"]
    ELSE r' = [r EXCEPT ![q].cause = why, ![q].conn = c, ![q].phase = "raised"]

-----------------------------------------------------------------------------

\* The session is there from the start, its connection is not.
Arrive(q) ==
    /\ At(q, "new")
    /\ r' = [r EXCEPT ![q].phase = IF r[q].kind = "ingest" THEN "fetching" ELSE "asking",
                      ![q].down = (db = "down")]
    /\ UNCHANGED <<db, outages, idle, slots, lock, answerFirst>>

\* EONET has answered: with events to store, with none, or not in the end.
Fetch(q) ==
    /\ At(q, "fetching")
    /\ \/ Goto(q, "asking")
       \/ Goto(q, "handled")
       \/ \E why \in {"domain", "other"} : Raise(q, why, "none")
    /\ UNCHANGED <<db, outages, idle, slots, lock, answerFirst>>

\* The next connection of the queue.
Take(q) ==
    /\ idle # <<>>
    /\ r' = [r EXCEPT ![q].phase = "pinging", ![q].conn = Head(idle)]
    /\ idle' = Tail(idle)
    /\ UNCHANGED slots

\* A connection more.
Grow(q) ==
    /\ slots < MaxSlots
    /\ slots' = slots + 1
    /\ Goto(q, "connecting")
    /\ UNCHANGED idle

\* The first statement: _do_get.
Ask(q) ==
    /\ At(q, "asking")
    /\ \/ Take(q)
       \/ idle = <<>> /\ Grow(q)
       \/ /\ idle = <<>> /\ slots >= MaxSlots
          /\ Goto(q, "waiting")
          /\ UNCHANGED <<idle, slots>>
    /\ UNCHANGED <<db, outages, lock, answerFirst>>

\* A connection came back before the timer rang.
Wake(q) ==
    /\ At(q, "waiting")
    /\ Take(q)
    /\ UNCHANGED <<db, outages, lock, answerFirst>>

\* The timer rings, and meanwhile a connection was closed or never made, of
\* which the pool tells no waiter.
WaitEnds(q) ==
    /\ At(q, "waiting") /\ idle = <<>>
    /\ Grow(q)
    /\ UNCHANGED <<db, outages, lock, answerFirst>>

\* The timer rings, and all connections are still in use: TimeoutError.
WaitFails(q) ==
    /\ At(q, "waiting") /\ idle = <<>> /\ slots >= MaxSlots
    /\ Raise(q, "timeout", "none")
    /\ UNCHANGED <<db, outages, idle, slots, lock, answerFirst>>

Connect(q) ==
    /\ At(q, "connecting")
    /\ \/ /\ db = "up"
          /\ r' = [r EXCEPT ![q].phase = "working", ![q].conn = "live"]
          /\ UNCHANGED slots
       \/ /\ db = "down"
          /\ slots' = slots - 1
          /\ Raise(q, "refused", "none")
    /\ UNCHANGED <<db, outages, idle, lock, answerFirst>>

\* Mutant of Ping: pool_pre_ping is off.
NoPing(q) ==
    /\ At(q, "pinging")
    /\ Goto(q, "working")
    /\ UNCHANGED <<db, outages, idle, slots, lock, answerFirst>>

\* pool_pre_ping: a dead connection is made anew, or given back as it is.
Ping(q) ==
    /\ At(q, "pinging")
    /\ \/ /\ r[q].conn = "live" \/ db = "up"
          /\ r' = [r EXCEPT ![q].phase = "working", ![q].conn = "live"]
          /\ UNCHANGED <<idle, slots>>
       \/ /\ r[q].conn = "dead" /\ db = "down"
          /\ GiveBack("dead")
          /\ Raise(q, "refused", "none")
    /\ UNCHANGED <<db, outages, lock, answerFirst>>

\* Mutant of LockRow: a session of its own for each of the two repositories, so
\* that the write needs a second connection, returned with the first.
LockRowInOwnSession(q) ==
    /\ At(q, "working") /\ r[q].kind = "write" /\ r[q].conn = "live"
    /\ lock = {}
    /\ idle # <<>> \/ slots < MaxSlots
    /\ lock' = {q}
    /\ Goto(q, "locked")
    /\ UNCHANGED <<db, outages, idle, slots, answerFirst>>

\* The statement that locks the row, on the connection that the session has:
\* both repositories of the request share it.
LockRow(q) ==
    /\ At(q, "working") /\ r[q].kind = "write" /\ r[q].conn = "live"
    /\ lock = {}
    /\ lock' = {q}
    /\ Goto(q, "locked")
    /\ UNCHANGED <<db, outages, idle, slots, answerFirst>>

\* The handler is through, or raises: an EarthDataError, or what nobody expects.
Finish(q) ==
    /\ At(q, IF r[q].kind = "write" THEN "locked" ELSE "working")
    /\ r[q].conn = "live"
    /\ \/ r' = [r EXCEPT ![q].phase = "handled",
                         ![q].report = IF r[q].kind = "health" THEN "ok" ELSE @]
       \/ /\ r[q].kind # "health"
          /\ \E why \in {"domain", "other"} : Raise(q, why, "live")
    /\ UNCHANGED <<db, outages, idle, slots, lock, answerFirst>>

\* A statement finds its connection broken: the pool has it back at once.
StatementLost(q) ==
    /\ r[q].phase \in {"working", "locked"} /\ r[q].conn = "dead"
    /\ GiveBack("dead")
    /\ Raise(q, "lost", "lost")
    /\ UNCHANGED <<db, outages, lock, answerFirst>>

-----------------------------------------------------------------------------
(* get_db_session after the yield, and the answer. *)

\* The answer, if it does not wait for the exit code.
Respond(q) ==
    /\ answerFirst /\ At(q, "handled") /\ r[q].ans = "none"
    /\ r' = [r EXCEPT ![q].ans = "ok"]
    /\ UNCHANGED <<db, outages, idle, slots, lock, answerFirst>>

\* Of a request that is over only its answer is left.
End(q, ans) ==
    /\ lock' = lock \ {q}
    /\ r' = [r EXCEPT ![q] = [NewRequest(r[q].kind) EXCEPT !.phase = "over", !.ans = ans,
                                                          !.struck = r[q].struck]]

\* Mutant of Exit: the session is not closed.
ExitWithoutClose(q) ==
    /\ At(q, "handled")
    /\ answerFirst => r[q].ans # "none"
    /\ End(q, IF r[q].ans = "none" THEN "ok" ELSE r[q].ans)
    /\ UNCHANGED <<db, outages, idle, slots, answerFirst>>

\* session.commit() and the end of its `async with`.  Without a connection there
\* is nothing to commit; a broken one raises, also if the handler got over it.
Exit(q) ==
    /\ At(q, "handled")
    /\ answerFirst => r[q].ans # "none"
    /\ End(q, IF r[q].ans # "none" THEN r[q].ans
              ELSE IF r[q].conn \in {"dead", "lost"} THEN "failure" ELSE "ok")
    /\ Release(q)
    /\ UNCHANGED <<db, outages, answerFirst>>

\* session.rollback(), then the exception handlers: a response of its own for
\* EarthDataError, 500 for the rest and for a rollback that itself fails.
RollBack(q) ==
    /\ At(q, "raised")
    /\ End(q, IF r[q].cause = "domain" /\ r[q].conn # "dead" THEN "error" ELSE "failure")
    /\ Release(q)
    /\ UNCHANGED <<db, outages, answerFirst>>

-----------------------------------------------------------------------------

\* The database goes down: every connection is dead, every lock is gone.
Outage ==
    /\ db = "up" /\ outages < MaxOutages
    /\ db' = "down"
    /\ outages' = outages + 1
    /\ idle' = [i \in 1..Len(idle) |-> "dead"]
    /\ lock' = {}
    /\ r' = [q \in Requests |->
               IF r[q].phase \in {"new", "over"} THEN r[q]
               ELSE [r[q] EXCEPT !.down = TRUE,
                                 !.conn = IF @ = "live" THEN "dead" ELSE @,
                                 !.struck = @ \/ (AtWork(q) /\ Holds(q))]]
    /\ UNCHANGED <<slots, answerFirst>>

Recover == db = "down" /\ db' = "up" /\ UNCHANGED <<outages, idle, slots, lock, answerFirst, r>>

Finished == (\A q \in Requests : At(q, "over")) /\ UNCHANGED vars

\* What the event loop, the pool and the database owe to a request.
Advance(q) ==
    \/ Ask(q) \/ Wake(q) \/ WaitEnds(q) \/ Connect(q) \/ Ping(q)
    \/ LockRow(q) \/ Finish(q) \/ StatementLost(q)
    \/ Respond(q) \/ Exit(q) \/ RollBack(q)

Next ==
    \/ \E q \in Requests : Arrive(q) \/ Fetch(q) \/ WaitFails(q) \/ Advance(q)
    \/ Outage \/ Recover
    \/ Finished

Spec == Init /\ [][Next]_vars

\* Not owed: that requests arrive, that EONET answers, that the database stays
\* up or comes back, and that a timer rings while all connections are in use.
FairSpec == Spec /\ \A q \in Requests : WF_vars(Advance(q))

-----------------------------------------------------------------------------

\* The requests that have a connection, or are making one.
InUse == {q \in Requests : Holds(q) \/ At(q, "connecting")}

\* No path through a request, a failing connect or an outage loses a connection
\* or returns one twice: what is counted is in the queue or in a request's
\* hands, the queue keeps no more than pool_size, and the row is locked only by
\* a request that has a connection.
SlotsAreAccounted ==
    /\ slots = Len(idle) + Cardinality(InUse)
    /\ slots <= MaxSlots
    /\ Len(idle) <= PoolSize
    /\ \A q \in lock : r[q].conn = "live" /\ AtWork(q)

\* A restart of the database fails the requests at work during it, and those
\* that want a connection before it is back; no later one stumbles over a
\* connection that died in the pool.
OnlyOutagesFailRequests ==
    \A q \in Requests : /\ r[q].cause = "lost" => r[q].struck
                        /\ r[q].cause = "refused" => r[q].down

\* GET /health answers, unavailable or not, whatever the database does between
\* requests: it fails only if the database goes down while it is at work, and
\* calls a database that stayed up unavailable only if no connection was free.
HealthAnswersOutages ==
    \A q \in Requests : r[q].kind = "health" =>
        /\ r[q].ans \in {"error", "failure"} => r[q].struck
        /\ At(q, "handled") /\ ~r[q].down /\ r[q].cause # "timeout" => r[q].report = "ok"

\* Whoever wants a connection gets it, or an error, and is answered, though EONET
\* keeps an ingest waiting for ever and timers ring only where a place is free.
EveryoneIsServed ==
    \A q \in Requests : r[q].phase \notin {"new", "fetching"} ~> At(q, "over")

=============================================================================
