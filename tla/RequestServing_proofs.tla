------------------------ MODULE RequestServing_proofs ------------------------
(***************************************************************************)
(* For any number of requests, any size of the pool and any outages: the   *)
(* pool's account is right, and only outages fail requests.                *)
(***************************************************************************)
EXTENDS RequestServing, FiniteSetTheorems, SequenceTheorems, TLAPS

\* Where a request may have a connection, and which kinds come where.
PhaseFits(q) ==
    /\ r[q].phase \in {"new", "fetching", "asking", "waiting", "connecting", "over"} =>
          r[q].conn = "none"
    /\ r[q].phase \in {"pinging", "working", "locked"} => r[q].conn \in {"live", "dead"}
    /\ At(q, "new") => r[q].cause = "none" /\ ~r[q].struck
    /\ At(q, "fetching") => r[q].kind = "ingest"
    /\ r[q].kind = "health" => ~At(q, "raised")
    /\ r[q].ans = "none" \/ At(q, "over") \/ (At(q, "handled") /\ r[q].ans = "ok")

\* What a request remembers of outages covers what they did to it.
OutagesAreKnown(q) ==
    /\ AtWork(q) /\ r[q].conn \in {"dead", "lost"} => r[q].struck
    /\ r[q].struck => r[q].down \/ At(q, "over")
    /\ db = "down" => r[q].down \/ r[q].phase \in {"new", "over"}

\* The inductive invariant.
ServingInv ==
    /\ ServingTypeOK
    /\ SlotsAreAccounted
    /\ OnlyOutagesFailRequests
    /\ HealthAnswersOutages
    /\ \A q \in Requests : PhaseFits(q) /\ OutagesAreKnown(q)

\* What is said of one request.
Sound(q) ==
    /\ r[q] \in RequestType
    /\ r[q].cause = "lost" => r[q].struck
    /\ r[q].cause = "refused" => r[q].down
    /\ r[q].kind = "health" =>
          /\ r[q].ans \in {"error", "failure"} => r[q].struck
          /\ At(q, "handled") /\ ~r[q].down /\ r[q].cause # "timeout" => r[q].report = "ok"
    /\ PhaseFits(q)
    /\ OutagesAreKnown(q)

\* What is said of the pool and the lock.
PoolSound ==
    /\ idle \in Seq({"live", "dead"})
    /\ slots \in Nat
    /\ lock \subseteq Requests
    /\ SlotsAreAccounted

\* The invariant, in the two halves in which its steps are proved.
LEMMA ServingInvIs ==
    /\ ServingInv <=> /\ db \in {"up", "down"} /\ outages \in 0..MaxOutages
                      /\ answerFirst \in BOOLEAN
                      /\ r \in [Requests -> RequestType]
                      /\ PoolSound
                      /\ \A q \in Requests : Sound(q)
BY DEF ServingInv, ServingTypeOK, PoolSound, Sound, OnlyOutagesFailRequests, HealthAnswersOutages

-----------------------------------------------------------------------------
(* The pool's account. *)

LEMMA InUseFinite == IsFiniteSet(InUse) /\ Cardinality(InUse) \in Nat
BY ServingAssumption, FS_Subset, FS_CardinalityType DEF InUse

\* One request more, or one less, has a connection.
LEMMA InUseCounts ==
    ASSUME NEW q \in Requests
    PROVE  /\ q \notin InUse /\ InUse' = InUse \cup {q} =>
                  Cardinality(InUse') = Cardinality(InUse) + 1
           /\ q \in InUse /\ InUse' = InUse \ {q} =>
                  Cardinality(InUse') = Cardinality(InUse) - 1
BY InUseFinite, FS_AddElement, FS_RemoveElement

\* A connection given back stays in the account or leaves it as it is closed.
LEMMA GiveBackAccounts ==
    ASSUME idle \in Seq({"live", "dead"}), slots \in Nat, slots > Len(idle),
           Len(idle) <= PoolSize, NEW c \in {"live", "dead"}, GiveBack(c)
    PROVE  /\ idle' \in Seq({"live", "dead"})
           /\ slots' \in Nat
           /\ slots' <= slots
           /\ slots' - Len(idle') = slots - Len(idle) - 1
           /\ Len(idle') <= PoolSize
<1>1. PoolSize \in Nat /\ Len(idle) \in Nat
  BY ServingAssumption
<1>2. CASE Len(idle) < PoolSize
  <2>1. idle' = Append(idle, c) /\ slots' = slots
    BY <1>2 DEF GiveBack
  <2>2. idle' \in Seq({"live", "dead"}) /\ Len(idle') = Len(idle) + 1
    BY <2>1
  <2> QED BY <1>1, <1>2, <2>1, <2>2
<1>3. CASE ~(Len(idle) < PoolSize)
  BY <1>1, <1>3 DEF GiveBack
<1> QED BY <1>2, <1>3

\* A request without a connection changes nothing of the account.
LEMMA PoolRests ==
    ASSUME PoolSound, InUse' = InUse, UNCHANGED <<idle, slots>>, lock' \subseteq Requests,
           \A q \in lock' : r'[q].conn = "live" /\ AtWork(q)'
    PROVE  PoolSound'
BY DEF PoolSound, SlotsAreAccounted

\* A request takes an idle connection, or makes one.
LEMMA PoolServes ==
    ASSUME PoolSound, NEW q \in Requests, q \notin InUse, InUse' = InUse \cup {q},
           \/ idle # <<>> /\ idle' = Tail(idle) /\ UNCHANGED slots
           \/ slots < MaxSlots /\ slots' = slots + 1 /\ UNCHANGED idle,
           UNCHANGED lock,
           \A p \in lock : r'[p].conn = "live" /\ AtWork(p)'
    PROVE  PoolSound'
<1>1. Cardinality(InUse') = Cardinality(InUse) + 1 /\ Cardinality(InUse) \in Nat
  BY InUseCounts, InUseFinite
<1>2. MaxSlots \in Nat /\ PoolSize \in Nat /\ Len(idle) \in Nat
  BY ServingAssumption DEF MaxSlots, PoolSound
<1>3. CASE idle # <<>> /\ idle' = Tail(idle) /\ UNCHANGED slots
  <2>1. idle' \in Seq({"live", "dead"}) /\ Len(idle') = Len(idle) - 1
    BY <1>3 DEF PoolSound
  <2>2. Len(idle') <= PoolSize
    BY <1>2, <2>1 DEF PoolSound, SlotsAreAccounted
  <2>3. slots' = Len(idle') + Cardinality(InUse')
    <3> DEFINE n == Len(idle)
               m == Cardinality(InUse)
    <3>1. slots' = n + m /\ n \in Nat /\ m \in Nat
      BY <1>1, <1>2, <1>3 DEF PoolSound, SlotsAreAccounted
    <3>2. Len(idle') = n - 1 /\ Cardinality(InUse') = m + 1
      BY <1>1, <2>1
    <3> HIDE DEF n, m
    <3> QED BY <3>1, <3>2
  <2> QED BY <1>3, <2>1, <2>2, <2>3 DEF PoolSound, SlotsAreAccounted
<1>4. CASE slots < MaxSlots /\ slots' = slots + 1 /\ UNCHANGED idle
  BY <1>1, <1>2, <1>4 DEF PoolSound, SlotsAreAccounted
<1> QED BY <1>3, <1>4

\* A request gives its connection back, or never gets the one it was making.
LEMMA PoolTakesBack ==
    ASSUME PoolSound, NEW q \in Requests, q \in InUse, InUse' = InUse \ {q},
           \/ \E c \in {"live", "dead"} : GiveBack(c)
           \/ slots' = slots - 1 /\ UNCHANGED idle,
           lock' \subseteq lock,
           \A p \in lock' : r'[p].conn = "live" /\ AtWork(p)'
    PROVE  PoolSound'
<1>1. Cardinality(InUse') = Cardinality(InUse) - 1 /\ Cardinality(InUse) \in Nat
  BY InUseCounts, InUseFinite
<1>2. Cardinality(InUse') \in Nat
  <2>1. InUse' \subseteq InUse
    OBVIOUS
  <2> QED BY <2>1, InUseFinite, FS_Subset, FS_CardinalityType
<1>3. MaxSlots \in Nat /\ PoolSize \in Nat /\ Len(idle) \in Nat
  BY ServingAssumption DEF MaxSlots, PoolSound
<1>4. slots > Len(idle)
  BY <1>1, <1>2, <1>3 DEF PoolSound, SlotsAreAccounted
<1>5. /\ idle' \in Seq({"live", "dead"}) /\ slots' \in Nat /\ slots' <= slots
      /\ slots' - Len(idle') = slots - Len(idle) - 1
      /\ Len(idle') <= PoolSize
  <2>1. CASE \E c \in {"live", "dead"} : GiveBack(c)
    BY <1>4, <2>1, GiveBackAccounts DEF PoolSound, SlotsAreAccounted
  <2>2. CASE slots' = slots - 1 /\ UNCHANGED idle
    BY <1>3, <1>4, <2>2 DEF PoolSound, SlotsAreAccounted
  <2> QED BY <2>1, <2>2
<1>6. Len(idle') \in Nat
  BY <1>5
<1>7. slots' = Len(idle') + Cardinality(InUse')
  BY <1>1, <1>2, <1>3, <1>5, <1>6 DEF PoolSound, SlotsAreAccounted
<1> QED BY <1>3, <1>5, <1>7 DEF PoolSound, SlotsAreAccounted

-----------------------------------------------------------------------------
(* Steps of one request. *)

\* The record of q is all that a step of q changes of r.
OnlyRequest(q) ==
    /\ r' = [r EXCEPT ![q] = r'[q]]
    /\ UNCHANGED <<db, outages, answerFirst>>

LEMMA InUseMoves ==
    ASSUME r \in [Requests -> RequestType], NEW q \in Requests, OnlyRequest(q)
    PROVE  /\ (q \in InUse) = (q \in InUse') => InUse' = InUse
           /\ q \notin InUse /\ q \in InUse' => InUse' = InUse \cup {q}
           /\ q \in InUse /\ q \notin InUse' => InUse' = InUse \ {q}
<1>1. \A p \in Requests \ {q} : (p \in InUse') <=> (p \in InUse)
  BY DEF OnlyRequest, InUse, Holds, At
<1>2. InUse \subseteq Requests /\ InUse' \subseteq Requests
  BY DEF InUse
<1> QED BY <1>1, <1>2

LEMMA RequestStep ==
    ASSUME ServingInv, NEW q \in Requests, OnlyRequest(q), Sound(q)', PoolSound'
    PROVE  ServingInv'
<1>1. /\ db \in {"up", "down"} /\ outages \in 0..MaxOutages /\ answerFirst \in BOOLEAN
      /\ r \in [Requests -> RequestType]
      /\ \A p \in Requests : Sound(p)
  BY ServingInvIs
<1>2. r' \in [Requests -> RequestType]
  BY <1>1 DEF OnlyRequest, Sound
<1>3. ASSUME NEW p \in Requests, p # q
      PROVE  Sound(p)'
  BY <1>1, <1>3 DEF OnlyRequest, Sound, PhaseFits, OutagesAreKnown, At, AtWork
<1>4. (/\ db \in {"up", "down"} /\ outages \in 0..MaxOutages
       /\ answerFirst \in BOOLEAN
       /\ r \in [Requests -> RequestType]
       /\ PoolSound
       /\ \A p \in Requests : Sound(p))'
  BY <1>1, <1>2, <1>3 DEF OnlyRequest
<1> QED
  BY <1>4 DEF ServingInv, ServingTypeOK, PoolSound, Sound, OnlyOutagesFailRequests,
              HealthAnswersOutages

\* A step that leaves q with or without a connection as it was, and the lock alone.
LEMMA StepWithoutPool ==
    ASSUME ServingInv, NEW q \in Requests, OnlyRequest(q), Sound(q)',
           UNCHANGED <<idle, slots, lock>>,
           (q \in InUse) = (q \in InUse'),
           q \in lock => r'[q].conn = "live" /\ AtWork(q)'
    PROVE  ServingInv'
<1>1. r \in [Requests -> RequestType] /\ PoolSound
  BY ServingInvIs
<1>2. InUse' = InUse
  BY <1>1, InUseMoves
<1>3. \A p \in lock : r'[p].conn = "live" /\ AtWork(p)'
  BY <1>1 DEF PoolSound, SlotsAreAccounted, OnlyRequest, AtWork
<1>4. PoolSound'
  BY <1>1, <1>2, <1>3, PoolRests DEF PoolSound
<1> QED BY <1>4, RequestStep

\* A step by which q gets an idle connection, or sets out to make one.
LEMMA StepGetsConnection ==
    ASSUME ServingInv, NEW q \in Requests, OnlyRequest(q), Sound(q)',
           UNCHANGED lock, q \notin InUse, q \in InUse',
           \/ idle # <<>> /\ idle' = Tail(idle) /\ UNCHANGED slots
           \/ slots < MaxSlots /\ slots' = slots + 1 /\ UNCHANGED idle
    PROVE  ServingInv'
<1>1. r \in [Requests -> RequestType] /\ PoolSound
  BY ServingInvIs
<1>2. InUse' = InUse \cup {q}
  BY <1>1, InUseMoves
<1>3. q \notin lock
  BY <1>1 DEF PoolSound, SlotsAreAccounted, InUse, Holds
<1>4. \A p \in lock : r'[p].conn = "live" /\ AtWork(p)'
  BY <1>1, <1>3 DEF PoolSound, SlotsAreAccounted, OnlyRequest, AtWork
<1>5. PoolSound'
  BY <1>1, <1>2, <1>4, PoolServes
<1> QED BY <1>5, RequestStep

\* A step by which q gives its connection back or fails to make one.
LEMMA StepGivesBack ==
    ASSUME ServingInv, NEW q \in Requests, OnlyRequest(q), Sound(q)',
           q \in InUse, q \notin InUse', lock' \subseteq lock, q \notin lock',
           \/ \E c \in {"live", "dead"} : GiveBack(c)
           \/ slots' = slots - 1 /\ UNCHANGED idle
    PROVE  ServingInv'
<1>1. r \in [Requests -> RequestType] /\ PoolSound
  BY ServingInvIs
<1>2. InUse' = InUse \ {q}
  BY <1>1, InUseMoves
<1>3. \A p \in lock' : r'[p].conn = "live" /\ AtWork(p)'
  BY <1>1 DEF PoolSound, SlotsAreAccounted, OnlyRequest, AtWork
<1>4. PoolSound'
  BY <1>1, <1>2, <1>3, PoolTakesBack
<1> QED BY <1>4, RequestStep

-----------------------------------------------------------------------------
(* The actions. *)

LEMMA ArriveKeeps ==
    ASSUME ServingInv, NEW q \in Requests, Arrive(q)
    PROVE  ServingInv'
<1>1. r \in [Requests -> RequestType] /\ Sound(q) /\ PoolSound
  BY ServingInvIs
<1>2. OnlyRequest(q)
  BY <1>1 DEF Arrive, OnlyRequest
<1>3. Sound(q)'
  BY <1>1 DEF Arrive, Sound, RequestType, PhaseFits, OutagesAreKnown, At, AtWork
<1>4. (q \in InUse) = (q \in InUse')
  BY <1>1 DEF Arrive, InUse, Holds, At, Sound, PhaseFits
<1>5. q \notin lock
  BY <1>1 DEF Arrive, At, AtWork, PoolSound, SlotsAreAccounted
<1> QED BY <1>2, <1>3, <1>4, <1>5, StepWithoutPool DEF Arrive

LEMMA FetchKeeps ==
    ASSUME ServingInv, NEW q \in Requests, Fetch(q)
    PROVE  ServingInv'
<1>1. r \in [Requests -> RequestType] /\ Sound(q) /\ PoolSound
  BY ServingInvIs
<1>2. OnlyRequest(q)
  BY <1>1 DEF Fetch, OnlyRequest, Goto, Raise
<1>3. Sound(q)'
  BY <1>1 DEF Fetch, Goto, Raise, Sound, RequestType, PhaseFits, OutagesAreKnown, At, AtWork
<1>4. (q \in InUse) = (q \in InUse')
  <2>1. r[q].phase = "fetching" /\ r[q].conn = "none"
    BY <1>1 DEF Fetch, At, Sound, PhaseFits
  <2>2. r'[q].phase \in {"asking", "handled", "raised"} /\ r'[q].conn = "none"
    BY <1>1, <2>1 DEF Fetch, Goto, Raise, RequestType
  <2> QED BY <2>1, <2>2 DEF InUse, Holds, At
<1>5. q \notin lock
  BY <1>1 DEF Fetch, At, AtWork, PoolSound, SlotsAreAccounted
<1> QED BY <1>2, <1>3, <1>4, <1>5, StepWithoutPool DEF Fetch

\* Taking a connection, from either phase that may.
LEMMA TakeKeeps ==
    ASSUME ServingInv, NEW q \in Requests, r[q].phase \in {"asking", "waiting"}, Take(q),
           UNCHANGED <<db, outages, lock, answerFirst>>
    PROVE  ServingInv'
<1>1. r \in [Requests -> RequestType] /\ Sound(q) /\ PoolSound
  BY ServingInvIs
<1>2. OnlyRequest(q)
  BY <1>1 DEF Take, OnlyRequest
<1>3. Head(idle) \in {"live", "dead"}
  BY <1>1 DEF Take, PoolSound
<1>4. Sound(q)'
  BY <1>1, <1>3 DEF Take, Sound, RequestType, PhaseFits, OutagesAreKnown, At, AtWork
<1>5. q \notin InUse /\ q \in InUse'
  BY <1>1, <1>3 DEF Take, InUse, Holds, At, Sound, PhaseFits, RequestType
<1> QED BY <1>2, <1>4, <1>5, StepGetsConnection DEF Take

LEMMA GrowKeeps ==
    ASSUME ServingInv, NEW q \in Requests, r[q].phase \in {"asking", "waiting"}, Grow(q),
           UNCHANGED <<db, outages, lock, answerFirst>>
    PROVE  ServingInv'
<1>1. r \in [Requests -> RequestType] /\ Sound(q) /\ PoolSound
  BY ServingInvIs
<1>2. OnlyRequest(q)
  BY <1>1 DEF Grow, Goto, OnlyRequest
<1>3. Sound(q)'
  BY <1>1 DEF Grow, Goto, Sound, RequestType, PhaseFits, OutagesAreKnown, At, AtWork
<1>4. q \notin InUse /\ q \in InUse'
  BY <1>1 DEF Grow, Goto, InUse, Holds, At, Sound, PhaseFits, RequestType
<1> QED BY <1>2, <1>3, <1>4, StepGetsConnection DEF Grow

LEMMA AskKeeps ==
    ASSUME ServingInv, NEW q \in Requests, Ask(q)
    PROVE  ServingInv'
<1>1. r \in [Requests -> RequestType] /\ Sound(q) /\ PoolSound
  BY ServingInvIs
<1>2. CASE Take(q)
  BY <1>2, TakeKeeps DEF Ask, At
<1>3. CASE Grow(q)
  BY <1>3, GrowKeeps DEF Ask, At
<1>4. CASE Goto(q, "waiting") /\ UNCHANGED <<idle, slots>>
  <2>1. OnlyRequest(q)
    BY <1>1, <1>4 DEF Ask, Goto, OnlyRequest
  <2>2. Sound(q)'
    BY <1>1, <1>4 DEF Ask, Goto, Sound, RequestType, PhaseFits, OutagesAreKnown, At, AtWork
  <2>3. (q \in InUse) = (q \in InUse') /\ q \notin lock
    BY <1>1, <1>4 DEF Ask, Goto, InUse, Holds, At, AtWork, PoolSound, SlotsAreAccounted, RequestType
  <2> QED BY <1>4, <2>1, <2>2, <2>3, StepWithoutPool DEF Ask
<1> QED BY <1>2, <1>3, <1>4 DEF Ask

LEMMA WaitFailsKeeps ==
    ASSUME ServingInv, NEW q \in Requests, WaitFails(q)
    PROVE  ServingInv'
<1>1. r \in [Requests -> RequestType] /\ Sound(q) /\ PoolSound
  BY ServingInvIs
<1>2. OnlyRequest(q)
  BY <1>1 DEF WaitFails, Raise, OnlyRequest
<1>3. Sound(q)'
  BY <1>1 DEF WaitFails, Raise, Sound, RequestType, PhaseFits, OutagesAreKnown, At, AtWork
<1>4. (q \in InUse) = (q \in InUse') /\ q \notin lock
  BY <1>1 DEF WaitFails, Raise, InUse, Holds, At, AtWork, PoolSound, SlotsAreAccounted, Sound,
              PhaseFits, RequestType
<1> QED BY <1>2, <1>3, <1>4, StepWithoutPool DEF WaitFails

LEMMA ConnectKeeps ==
    ASSUME ServingInv, NEW q \in Requests, Connect(q)
    PROVE  ServingInv'
<1>1. r \in [Requests -> RequestType] /\ Sound(q) /\ PoolSound
  BY ServingInvIs
<1>2. q \in InUse
  BY DEF Connect, InUse
<1>3. q \notin lock
  BY <1>1 DEF Connect, PoolSound, SlotsAreAccounted, At, AtWork
<1>4. CASE /\ db = "up"
           /\ r' = [r EXCEPT ![q].phase = "working", ![q].conn = "live"]
           /\ UNCHANGED slots
  <2>1. OnlyRequest(q)
    BY <1>1, <1>4 DEF Connect, OnlyRequest
  <2>2. Sound(q)'
    BY <1>1, <1>4 DEF Connect, Sound, RequestType, PhaseFits, OutagesAreKnown, At, AtWork
  <2>3. (q \in InUse) = (q \in InUse')
    BY <1>1, <1>2, <1>4 DEF InUse, Holds, RequestType
  <2> QED BY <1>3, <1>4, <2>1, <2>2, <2>3, StepWithoutPool DEF Connect
<1>5. CASE /\ db = "down"
           /\ slots' = slots - 1
           /\ Raise(q, "refused", "none")
  <2>1. OnlyRequest(q)
    BY <1>1, <1>5 DEF Connect, Raise, OnlyRequest
  <2>2. Sound(q)'
    BY <1>1, <1>5 DEF Connect, Raise, Sound, RequestType, PhaseFits, OutagesAreKnown, At, AtWork
  <2>3. q \notin InUse'
    BY <1>1, <1>5 DEF Raise, InUse, Holds, At, RequestType
  <2> QED BY <1>2, <1>3, <1>5, <2>1, <2>2, <2>3, StepGivesBack DEF Connect
<1> QED BY <1>4, <1>5 DEF Connect

LEMMA PingKeeps ==
    ASSUME ServingInv, NEW q \in Requests, Ping(q)
    PROVE  ServingInv'
<1>1. r \in [Requests -> RequestType] /\ Sound(q) /\ PoolSound
  BY ServingInvIs
<1>2. q \in InUse /\ q \notin lock
  BY <1>1 DEF Ping, InUse, Holds, Sound, PhaseFits, At, AtWork, PoolSound, SlotsAreAccounted
<1>3. CASE /\ r[q].conn = "live" \/ db = "up"
           /\ r' = [r EXCEPT ![q].phase = "working", ![q].conn = "live"]
           /\ UNCHANGED <<idle, slots>>
  <2>1. OnlyRequest(q)
    BY <1>1, <1>3 DEF Ping, OnlyRequest
  <2>2. Sound(q)'
    <3>1. r[q] \in RequestType /\ r'[q] = [r[q] EXCEPT !.phase = "working", !.conn = "live"]
      BY <1>1, <1>3
    <3>2. /\ r'[q] \in RequestType
          /\ r'[q].phase = "working" /\ r'[q].conn = "live"
          /\ r'[q].kind = r[q].kind /\ r'[q].ans = r[q].ans /\ r'[q].cause = r[q].cause
          /\ r'[q].down = r[q].down /\ r'[q].struck = r[q].struck
      BY <3>1 DEF RequestType
    <3> QED BY <1>1, <3>2 DEF Ping, Sound, PhaseFits, OutagesAreKnown, At, AtWork
  <2>3. (q \in InUse) = (q \in InUse')
    BY <1>1, <1>2, <1>3 DEF InUse, Holds, RequestType
  <2> QED BY <1>2, <1>3, <2>1, <2>2, <2>3, StepWithoutPool DEF Ping
<1>4. CASE /\ r[q].conn = "dead" /\ db = "down"
           /\ GiveBack("dead")
           /\ Raise(q, "refused", "none")
  <2>1. OnlyRequest(q)
    BY <1>1, <1>4 DEF Ping, Raise, OnlyRequest
  <2>2. Sound(q)'
    BY <1>1, <1>4 DEF Ping, Raise, Sound, RequestType, PhaseFits, OutagesAreKnown, At, AtWork
  <2>3. q \notin InUse'
    BY <1>1, <1>4 DEF Raise, InUse, Holds, At, RequestType
  <2> QED BY <1>2, <1>4, <2>1, <2>2, <2>3, StepGivesBack DEF Ping
<1> QED BY <1>3, <1>4 DEF Ping

LEMMA LockRowKeeps ==
    ASSUME ServingInv, NEW q \in Requests, LockRow(q)
    PROVE  ServingInv'
<1>1. r \in [Requests -> RequestType] /\ Sound(q) /\ PoolSound
  BY ServingInvIs
<1>2. OnlyRequest(q)
  BY <1>1 DEF LockRow, Goto, OnlyRequest
<1>3. Sound(q)'
  BY <1>1 DEF LockRow, Goto, Sound, RequestType, PhaseFits, OutagesAreKnown, At, AtWork
<1>4. (q \in InUse) = (q \in InUse')
  BY <1>1 DEF LockRow, Goto, InUse, Holds, At, RequestType
<1>5. r'[q].conn = "live" /\ AtWork(q)' /\ InUse' = InUse
  BY <1>1, <1>2, <1>4, InUseMoves DEF LockRow, Goto, AtWork, RequestType
<1>6. PoolSound'
  BY <1>1, <1>5, PoolRests DEF LockRow
<1> QED BY <1>2, <1>3, <1>6, RequestStep

LEMMA FinishKeeps ==
    ASSUME ServingInv, NEW q \in Requests, Finish(q)
    PROVE  ServingInv'
<1>1. r \in [Requests -> RequestType] /\ Sound(q) /\ PoolSound
  BY ServingInvIs
<1>2. OnlyRequest(q)
  BY <1>1 DEF Finish, Raise, OnlyRequest
<1>3. r[q].phase \in {"working", "locked"} /\ r[q].conn = "live"
  BY DEF Finish, At
<1>4. Sound(q)'
  BY <1>1, <1>3 DEF Finish, Raise, Sound, RequestType, PhaseFits, OutagesAreKnown, At, AtWork
<1>5. (q \in InUse) = (q \in InUse') /\ r'[q].conn = "live" /\ AtWork(q)'
  BY <1>1, <1>3 DEF Finish, Raise, InUse, Holds, At, AtWork, RequestType
<1> QED BY <1>2, <1>4, <1>5, StepWithoutPool DEF Finish

LEMMA StatementLostKeeps ==
    ASSUME ServingInv, NEW q \in Requests, StatementLost(q)
    PROVE  ServingInv'
<1>1. r \in [Requests -> RequestType] /\ Sound(q) /\ PoolSound
  BY ServingInvIs
<1>2. OnlyRequest(q)
  BY <1>1 DEF StatementLost, Raise, OnlyRequest
<1>3. Sound(q)'
  BY <1>1 DEF StatementLost, Raise, Sound, RequestType, PhaseFits, OutagesAreKnown, At, AtWork
<1>4. q \in InUse /\ q \notin lock
  BY <1>1 DEF StatementLost, InUse, Holds, PoolSound, SlotsAreAccounted
<1>5. q \notin InUse'
  BY <1>1 DEF StatementLost, Raise, InUse, Holds, At, RequestType
<1> QED BY <1>2, <1>3, <1>4, <1>5, StepGivesBack DEF StatementLost

LEMMA RespondKeeps ==
    ASSUME ServingInv, NEW q \in Requests, Respond(q)
    PROVE  ServingInv'
<1>1. r \in [Requests -> RequestType] /\ Sound(q) /\ PoolSound
  BY ServingInvIs
<1>2. OnlyRequest(q)
  BY <1>1 DEF Respond, OnlyRequest
<1>3. Sound(q)'
  BY <1>1 DEF Respond, Sound, RequestType, PhaseFits, OutagesAreKnown, At, AtWork
<1>4. (q \in InUse) = (q \in InUse')
  BY <1>1 DEF Respond, InUse, Holds, At
<1>5. q \in lock => r'[q].conn = "live" /\ AtWork(q)'
  BY <1>1 DEF Respond, PoolSound, SlotsAreAccounted, AtWork
<1> QED BY <1>2, <1>3, <1>4, <1>5, StepWithoutPool DEF Respond

\* The end of a request, whatever its answer, once what it leaves is sound.
LEMMA EndKeeps ==
    ASSUME ServingInv, NEW q \in Requests, r[q].phase \in {"handled", "raised"},
           NEW ans \in {"ok", "error", "failure"},
           r[q].kind = "health" /\ ans # "ok" => r[q].struck,
           End(q, ans), Release(q), UNCHANGED <<db, outages, answerFirst>>
    PROVE  ServingInv'
<1>1. r \in [Requests -> RequestType] /\ Sound(q) /\ PoolSound
  BY ServingInvIs
<1>2. OnlyRequest(q)
  BY <1>1 DEF End, OnlyRequest
<1>3. Sound(q)'
  <2>1. r'[q] = [NewRequest(r[q].kind) EXCEPT !.phase = "over", !.ans = ans,
                                             !.struck = r[q].struck]
    BY <1>1 DEF End
  <2>2. r[q].kind \in AllKinds /\ r[q].struck \in BOOLEAN
    BY <1>1 DEF RequestType
  <2>3. /\ r'[q] \in RequestType
        /\ r'[q].kind = r[q].kind /\ r'[q].phase = "over" /\ r'[q].ans = ans
        /\ r'[q].struck = r[q].struck /\ r'[q].conn = "none" /\ r'[q].cause = "none"
    BY <2>1, <2>2 DEF NewRequest, RequestType
  <2> QED BY <1>1, <2>3 DEF Sound, PhaseFits, OutagesAreKnown, At, AtWork
<1>4. q \notin InUse'
  BY <1>1 DEF End, NewRequest, InUse, Holds, At
<1>5. lock' \subseteq lock /\ q \notin lock'
  BY DEF End
<1>6. CASE Holds(q)
  <2>1. q \in InUse /\ \E c \in {"live", "dead"} : GiveBack(c)
    BY <1>6 DEF InUse, Release, Holds
  <2> QED BY <1>2, <1>3, <1>4, <1>5, <2>1, StepGivesBack
<1>7. CASE ~Holds(q)
  <2>1. UNCHANGED <<idle, slots>> /\ q \notin InUse
    BY <1>7 DEF Release, InUse, At
  <2>2. InUse' = InUse
    BY <1>1, <1>2, <1>4, <2>1, InUseMoves
  <2>3. \A p \in lock' : r'[p].conn = "live" /\ AtWork(p)'
    BY <1>1, <1>2, <1>5 DEF PoolSound, SlotsAreAccounted, OnlyRequest, AtWork
  <2>4. PoolSound'
    BY <1>1, <1>5, <2>1, <2>2, <2>3, PoolRests DEF PoolSound
  <2> QED BY <1>2, <1>3, <2>4, RequestStep
<1> QED BY <1>6, <1>7

LEMMA ExitKeeps ==
    ASSUME ServingInv, NEW q \in Requests, Exit(q)
    PROVE  ServingInv'
<1> DEFINE ans == IF r[q].ans # "none" THEN r[q].ans
                  ELSE IF r[q].conn \in {"dead", "lost"} THEN "failure" ELSE "ok"
<1>1. r[q] \in RequestType /\ Sound(q) /\ At(q, "handled")
  BY ServingInvIs DEF Exit
<1>2. ans \in {"ok", "error", "failure"} /\ (ans # "ok" => r[q].struck)
  BY <1>1 DEF Sound, PhaseFits, OutagesAreKnown, At, AtWork
<1>3. End(q, ans) /\ Release(q) /\ UNCHANGED <<db, outages, answerFirst>>
  BY DEF Exit
<1> HIDE DEF ans
<1> QED BY <1>1, <1>2, <1>3, EndKeeps DEF At

LEMMA RollBackKeeps ==
    ASSUME ServingInv, NEW q \in Requests, RollBack(q)
    PROVE  ServingInv'
<1> DEFINE ans == IF r[q].cause = "domain" /\ r[q].conn # "dead" THEN "error" ELSE "failure"
<1>1. r[q].kind # "health" /\ At(q, "raised")
  BY ServingInvIs DEF Sound, PhaseFits, RollBack
<1>2. End(q, ans) /\ Release(q) /\ UNCHANGED <<db, outages, answerFirst>>
  BY DEF RollBack
<1>3. ans \in {"ok", "error", "failure"}
  OBVIOUS
<1> HIDE DEF ans
<1> QED BY <1>1, <1>2, <1>3, EndKeeps DEF At

-----------------------------------------------------------------------------
(* Steps of the database, and the theorems. *)

LEMMA OutageKeeps ==
    ASSUME ServingInv, Outage
    PROVE  ServingInv'
<1>1. /\ r \in [Requests -> RequestType] /\ PoolSound
      /\ outages \in 0..MaxOutages /\ answerFirst \in BOOLEAN
      /\ \A q \in Requests : Sound(q)
  BY ServingInvIs
<1>2. db' = "down" /\ outages' \in 0..MaxOutages /\ answerFirst' \in BOOLEAN
  <2>1. db' = "down" /\ outages' = outages + 1 /\ outages < MaxOutages /\ answerFirst' = answerFirst
    BY DEF Outage
  <2>2. MaxOutages \in Nat
    BY ServingAssumption
  <2> QED BY <1>1, <2>1, <2>2
<1>3. ASSUME NEW q \in Requests
      PROVE  \/ r[q].phase \in {"new", "over"} /\ r'[q] = r[q]
             \/ /\ r[q].phase \notin {"new", "over"}
                /\ r'[q] \in RequestType
                /\ r'[q].down
                /\ r'[q].conn = IF r[q].conn = "live" THEN "dead" ELSE r[q].conn
                /\ r'[q].struck = (r[q].struck \/ (AtWork(q) /\ Holds(q)))
                /\ r'[q].kind = r[q].kind /\ r'[q].phase = r[q].phase /\ r'[q].ans = r[q].ans
                /\ r'[q].report = r[q].report /\ r'[q].cause = r[q].cause
  <2>1. r[q] \in RequestType
    BY <1>1
  <2>2. r'[q] = IF r[q].phase \in {"new", "over"} THEN r[q]
                ELSE [r[q] EXCEPT !.down = TRUE,
                                  !.conn = IF @ = "live" THEN "dead" ELSE @,
                                  !.struck = @ \/ (AtWork(q) /\ Holds(q))]
    BY DEF Outage
  <2>3. CASE r[q].phase \in {"new", "over"}
    BY <2>2, <2>3
  <2>4. CASE r[q].phase \notin {"new", "over"}
    <3>1. r[q].struck \in BOOLEAN /\ AtWork(q) \in BOOLEAN /\ Holds(q) \in BOOLEAN
      BY <2>1 DEF RequestType, AtWork, Holds
    <3>2. r'[q] = [r[q] EXCEPT !.down = TRUE,
                               !.conn = IF r[q].conn = "live" THEN "dead" ELSE r[q].conn,
                               !.struck = (r[q].struck \/ (AtWork(q) /\ Holds(q)))]
      BY <2>1, <2>2, <2>4 DEF RequestType
    <3>3. (IF r[q].conn = "live" THEN "dead" ELSE r[q].conn) \in {"none", "live", "dead", "lost"}
      BY <2>1 DEF RequestType
    <3>4. (r[q].struck \/ (AtWork(q) /\ Holds(q))) \in BOOLEAN
      BY <3>1
    <3> QED BY <2>1, <2>4, <3>2, <3>3, <3>4 DEF RequestType
  <2> QED BY <2>3, <2>4
<1>4. ASSUME NEW q \in Requests
      PROVE  Sound(q)'
  <2>1. r[q] \in RequestType /\ Sound(q)
    BY <1>1
  <2>2. CASE r[q].phase \in {"new", "over"}
    BY <1>2, <1>3, <2>1, <2>2 DEF Sound, PhaseFits, OutagesAreKnown, At, AtWork
  <2>3. CASE r[q].phase \notin {"new", "over"}
    BY <1>2, <1>3, <2>1, <2>3 DEF Sound, PhaseFits, OutagesAreKnown, At, AtWork, Holds
  <2> QED BY <2>2, <2>3
<1>5. InUse' = InUse
  BY <1>3 DEF InUse, Holds, At
<1>6. idle' \in Seq({"live", "dead"}) /\ Len(idle') = Len(idle)
  <2>1. idle \in Seq({"live", "dead"})
    BY <1>1 DEF PoolSound
  <2>2. Len(idle) \in Nat
    BY <2>1
  <2>3. idle' = [i \in 1..Len(idle) |-> "dead"]
    BY DEF Outage
  <2> QED BY <2>2, <2>3
<1>7. PoolSound'
  BY <1>1, <1>5, <1>6 DEF PoolSound, SlotsAreAccounted, Outage
<1>8. r' \in [Requests -> RequestType]
  BY <1>1, <1>3 DEF Outage
<1>9. (/\ db \in {"up", "down"} /\ outages \in 0..MaxOutages
       /\ answerFirst \in BOOLEAN
       /\ r \in [Requests -> RequestType]
       /\ PoolSound
       /\ \A p \in Requests : Sound(p))'
  BY <1>2, <1>4, <1>7, <1>8
<1> QED
  BY <1>9 DEF ServingInv, ServingTypeOK, PoolSound, Sound, OnlyOutagesFailRequests,
              HealthAnswersOutages

LEMMA RecoverKeeps ==
    ASSUME ServingInv, Recover
    PROVE  ServingInv'
BY DEF Recover, ServingInv, ServingTypeOK, SlotsAreAccounted, InUse, Holds, At, AtWork,
       OnlyOutagesFailRequests, HealthAnswersOutages, PhaseFits, OutagesAreKnown

LEMMA InitIsSound == Init => ServingInv
<1> SUFFICES ASSUME Init PROVE ServingInv
  OBVIOUS
<1>1. \A q \in Requests : \E k \in AllKinds : r[q] = NewRequest(k)
  BY DEF Init
<1>2. ASSUME NEW q \in Requests
      PROVE  /\ r[q] \in RequestType
             /\ r[q].phase = "new" /\ r[q].conn = "none" /\ r[q].ans = "none"
             /\ r[q].cause = "none" /\ ~r[q].struck
  <2>1. PICK k \in AllKinds : r[q] = NewRequest(k)
    BY <1>1
  <2> QED BY <2>1 DEF NewRequest, RequestType
<1>3. r \in [Requests -> RequestType] /\ \A q \in Requests : Sound(q)
  <2>1. \A q \in Requests : Sound(q)
    BY <1>2 DEF Init, Sound, PhaseFits, OutagesAreKnown, At, AtWork
  <2>2. r \in [Requests -> RequestType]
    BY <1>2 DEF Init
  <2> QED BY <2>1, <2>2
<1>4. InUse = {}
  BY <1>2 DEF InUse, Holds, At
<1>5. PoolSound
  BY <1>4, FS_EmptySet, ServingAssumption DEF Init, PoolSound, SlotsAreAccounted, MaxSlots
<1> QED BY <1>3, <1>5, ServingAssumption, ServingInvIs DEF Init

LEMMA NextKeeps == ServingInv /\ [Next]_vars => ServingInv'
<1> SUFFICES ASSUME ServingInv, [Next]_vars PROVE ServingInv'
  OBVIOUS
<1>1. ASSUME NEW q \in Requests, Arrive(q) \/ Fetch(q) \/ WaitFails(q) \/ Advance(q)
      PROVE  ServingInv'
  <2>1. CASE Wake(q)
    BY <2>1, TakeKeeps DEF Wake, At
  <2>2. CASE WaitEnds(q)
    BY <2>2, GrowKeeps DEF WaitEnds, At
  <2> QED
    BY <1>1, <2>1, <2>2, ArriveKeeps, FetchKeeps, WaitFailsKeeps, AskKeeps, ConnectKeeps,
       PingKeeps, LockRowKeeps, FinishKeeps, StatementLostKeeps, RespondKeeps, ExitKeeps,
       RollBackKeeps DEF Advance
<1>2. CASE UNCHANGED vars
  BY <1>2 DEF vars, ServingInv, ServingTypeOK, SlotsAreAccounted, InUse, Holds, At, AtWork,
              OnlyOutagesFailRequests, HealthAnswersOutages, PhaseFits, OutagesAreKnown
<1> QED BY <1>1, <1>2, OutageKeeps, RecoverKeeps DEF Next, Finished

\* The inductive invariant: however many requests come, whatever the database
\* does, the pool's account, the lock and every request stay sound.
THEOREM ServingInvariant == Spec => []ServingInv
BY InitIsSound, NextKeeps, PTL DEF Spec

\* Types of the variables of RequestServing.
THEOREM ServingTyping == Spec => []ServingTypeOK
<1>1. ServingInv => ServingTypeOK
  BY DEF ServingInv
<1> QED BY <1>1, ServingInvariant, PTL

\* No path through get_db_session, a handler, a failing connect or an outage
\* leaks a connection or returns one twice, for any pool_size and max_overflow.
THEOREM SlotsStayAccounted == Spec => []SlotsAreAccounted
<1>1. ServingInv => SlotsAreAccounted
  BY DEF ServingInv
<1> QED BY <1>1, ServingInvariant, PTL

\* With pool_pre_ping, a request loses its connection, or gets none, only if
\* the database was down while that request was under way.
THEOREM OutagesOnly == Spec => []OnlyOutagesFailRequests
<1>1. ServingInv => OnlyOutagesFailRequests
  BY DEF ServingInv
<1> QED BY <1>1, ServingInvariant, PTL

\* GET /health fails only if the database goes down under it, and is right
\* about a database that stayed up unless the pool had no connection for it.
THEOREM HealthAnswers == Spec => []HealthAnswersOutages
<1>1. ServingInv => HealthAnswersOutages
  BY DEF ServingInv
<1> QED BY <1>1, ServingInvariant, PTL

=============================================================================
