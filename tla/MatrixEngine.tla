---------------------------- MODULE MatrixEngine ----------------------------
(***************************************************************************)
(* Engine.Compute (src/internal/engine/engine.go): concurrent matrix       *)
(* requests over a shared Redis cache (L1), a MySQL archive (L2) fed by an *)
(* asynchronous queue, and a metered road provider.                        *)
(*                                                                         *)
(* A request walks three stages: "probe" looks every ordered pair up in L1 *)
(* then L2, "walk" buys the missing pairs from the provider along planned  *)
(* walks and writes them through, "fill" assembles the matrix and buys     *)
(* what is still absent pair by pair. Every call that leaves the process   *)
(* is a step of its own, so that other requests, the queue worker, the     *)
(* clock and the request's deadline can step in between.                   *)
(***************************************************************************)
EXTENDS Walks, Integers, FiniteSets

CONSTANTS
    Request,      \* identities of matrix requests (one client each)
    Place,        \* coordinates, as pairKey tells them apart (6 decimals)
    GeoHash,      \* GeoHash[p]: the precision-8 cell Redis and MySQL key p by
    Near,         \* pairs of cells within geo_wide_m / 2 of each other
    Waypoints,    \* Waypoints[r]: the points of request r, a sequence
    Strict,       \* the requests with strict = true
    Pinned,       \* the requests that name a full timeslot
    SlotOf,       \* SlotOf[r]: the hour a pinned request names
    MaxPoints,    \* Engine.MaxPoints, 0 = no limit
    MaxLegs,      \* BatchSize - 1, legs per provider walk
    Plan(_, _),   \* the arc-cover planner: Plan(n, misses) is a seq of walks
    UseRedis, UseArchive, UseAsync,   \* which backends are wired
    QueueCap,     \* capacity of the asynchronous upsert queue
    Faults,       \* kinds of failure the environment may inject
    Resubmit,     \* the replies after which a client sends the request again
    Patient,      \* TRUE: no deadline passes before the attempt stored an edge
    MaxHour,      \* bound: the clock runs through the hours 0..MaxHour of a day
    MaxCrashes,   \* bound: how often the process may be killed
    None          \* "no segment"

Hour == 0 .. MaxHour
Arc  == Place \X Place
FaultKind == {"redisGet", "redisPut", "archiveGet", "archivePut", "provider",
              "short", "ttl"}
Reply == {"none", "200", "400", "504", "dropped"}

N(r)    == Len(Waypoints[r])
Cell(r) == (1 .. N(r)) \X (1 .. N(r))
OffDiagonal(r) == {c \in Cell(r) : c[1] # c[2]}

\* A segment with the hour slot it is valid for. Edges in Redis, in the queue
\* and in the archive are segments too. "late" marks a fallback that was only
\* computed because the deadline cut the provider call short.
Segment == [o : Place, d : Place, slot : Hour,
            src : {"provider", "cache", "fallback"}, late : BOOLEAN]

\* What the engine relies on the planner for.
PlanContract(n, miss) == Covers(Plan(n, miss), n, miss, MaxLegs)

ASSUME PlaceAssumption ==
    /\ GeoHash \in [Place -> {GeoHash[p] : p \in Place}]
    /\ \A p \in Place : <<GeoHash[p], GeoHash[p]>> \in Near

ASSUME RequestAssumption ==
    /\ Waypoints \in [Request -> Seq(Place)]
    /\ Strict \subseteq Request
    /\ Pinned \subseteq Request
    /\ SlotOf \in [Request -> Hour]

ASSUME BoundAssumption ==
    /\ MaxPoints \in Nat
    /\ MaxLegs \in Nat \ {0}
    /\ QueueCap \in Nat \ {0}
    /\ MaxHour \in 0 .. 22
    /\ MaxCrashes \in Nat
    /\ UseRedis \in BOOLEAN
    /\ UseArchive \in BOOLEAN
    /\ UseAsync \in BOOLEAN
    /\ Patient \in BOOLEAN
    /\ Faults \subseteq FaultKind
    /\ Resubmit \subseteq Reply \ {"none"}
    /\ None \notin Segment

ASSUME PlanAssumption ==
    \A r \in Request : \A miss \in SUBSET OffDiagonal(r) :
        miss # {} => PlanContract(N(r), miss)

VARIABLES
    job,      \* job[r]: the local state of the Compute call serving r
    redis,    \* the edges in Redis, at most one per (cell, cell, slot)
    archive,  \* the edges in MySQL, same key
    queue,    \* AsyncWriter.ch
    hour,     \* the wall clock, in hours
    crashes   \* how often the process was killed

stores == <<redis, archive, queue>>
vars   == <<job, redis, archive, queue, hour, crashes>>

Pc == {"idle", "next", "redis", "archive", "promote", "plan", "call",
       "absorb", "put", "enqueue", "replied"}

Job(r) ==
    [pc : Pc, stage : {"probe", "walk", "fill"},
     row : 1 .. N(r) + 1, col : 1 .. N(r) + 1,   \* the cell being worked on
     rev : BOOLEAN,                   \* looking up the reversed pair
     held : Segment \cup {None},      \* the archive edge being promoted
     seg : [Arc -> Segment \cup {None}],         \* segmentByPair
     miss : SUBSET OffDiagonal(r),
     walks : Seq(Seq(Cell(r))),       \* the planned walks not yet executed
     steps : Seq(Segment),            \* provider steps not yet absorbed
     cells : [Cell(r) -> Segment \cup {None}],   \* the matrices
     start : Hour,                    \* wmt: the slot new edges are filed under
     late : BOOLEAN,                  \* ctx.Err() # nil
     banked : BOOLEAN,                \* history: this attempt stored a new edge
     reply : Reply]

-----------------------------------------------------------------------------
(* Lookups *)

Swap(a) == <<a[2], a[1]>>
Hashes(a) == <<GeoHash[a[1]], GeoHash[a[2]]>>
PairOf(s) == <<s.o, s.d>>

\* The slots a lookup accepts, best first (AdjacentSlots; strict: only its own).
\* Within one day no neighbour wraps around midnight, and the archive's search
\* by the hour of the day finds nothing that these slots do not.
SlotsTried(r, s) == IF r \in Strict THEN <<s>> ELSE <<s, s - 1, s + 1>>

\* The slot a lookup is made for: the request's, or the current hour.
LookupSlot(r) == IF r \in Pinned THEN SlotOf[r] ELSE hour

\* The edge filed under the hashes h that a lookup for slot s returns: the one
\* in the first slot tried that holds any. A set of at most one edge.
Found(store, r, h, s) ==
    LET slots   == SlotsTried(r, s)
        At(k)   == {e \in store : Hashes(PairOf(e)) = h /\ e.slot = slots[k]}
    IN  {e \in store : \E k \in DOMAIN slots :
                          e \in At(k) /\ \A m \in 1 .. k - 1 : At(m) = {}}

CloseTo(g, h) == <<g, h>> \in Near
NearPairs(h) ==
    LET all == {GeoHash[p] : p \in Place}
    IN  {b \in all \X all : \/ CloseTo(b[1], h[1]) /\ CloseTo(b[2], h[2])
                            \/ CloseTo(b[1], h[2]) /\ CloseTo(b[2], h[1])}

\* Mutated form: the spatial search is made for strict requests too.
FuzzyEvenStrict(r, h, s) == UNION {Found(redis, r, b, s) : b \in NearPairs(h)}

\* tryFuzzySpatial: an edge between places near both ends, in either direction.
Fuzzy(r, h, s) ==
    IF r \in Strict THEN {}
    ELSE UNION {Found(redis, r, b, s) : b \in NearPairs(h)}

\* GEORADIUS returns the three nearest members only: with more places around,
\* an edge that is close enough may be overlooked.
Crowded(h) ==
    \E i \in {1, 2} : Cardinality({g \in {GeoHash[p] : p \in Place} : CloseTo(g, h[i])}) > 3

\* HSET / upsert: the edge replaces the one under the same hashes and slot.
Write(store, e) ==
    {x \in store : ~(Hashes(PairOf(x)) = Hashes(PairOf(e)) /\ x.slot = e.slot)} \cup {e}

\* Upsert skips an edge of length zero: one from a place to itself.
Upsert(store, e) == IF e.o = e.d THEN store ELSE Write(store, e)

Cached(e) == [e EXCEPT !.src = "cache"]

-----------------------------------------------------------------------------
(* The local steps of one Compute call, as functions of its state j *)

PairAt(r, j) == <<Waypoints[r][j.row], Waypoints[r][j.col]>>
Key(r, j)    == IF j.rev THEN Swap(PairAt(r, j)) ELSE PairAt(r, j)
Here(j)      == <<j.row, j.col>>

\* Compute returns: what is left of its locals is the answer (segmentByPair is
\* kept for the properties that speak of a finished call).
Answer(j, code) ==
    [j EXCEPT !.pc = "replied", !.reply = code, !.row = 1, !.col = 1, !.rev = FALSE,
              !.held = None, !.miss = {}, !.walks = <<>>, !.steps = <<>>]

\* Mutated form: the deadline is reported like any other error.
TimedOutAsError(j) == Answer(j, "400")

\* ErrDeadline, which the handler turns into 504 MATRIX_DEADLINE.
TimedOut(j) == Answer(j, "504")

\* The loops over i and j.
Advance(r, j) ==
    [j EXCEPT !.pc = "next", !.rev = FALSE, !.held = None,
              !.row = IF j.col = N(r) THEN @ + 1 ELSE @,
              !.col = IF j.col = N(r) THEN 1 ELSE @ + 1]
Over(r, j) == j.row > N(r)

\* Mutated form: the fill goes on where the previous loop stopped.
StartFillHere(j) == [j EXCEPT !.pc = "next", !.stage = "fill"]

\* The two loops that follow the probe start at the first cell again.
StartFill(j) == [j EXCEPT !.pc = "next", !.stage = "fill", !.row = 1, !.col = 1]

SetCell(r, j, s) == Advance(r, [j EXCEPT !.cells[Here(j)] = s])

\* lookupEdge found s: the probe files it under the pair looked up, the fill
\* puts it straight into the cell.
Hit(r, j, s) ==
    IF j.stage = "probe" THEN Advance(r, [j EXCEPT !.seg[Key(r, j)] = s])
    ELSE SetCell(r, j, s)

\* Only a non-strict request may use an edge of the opposite direction.
MayReverse(r) == r \notin Strict

\* lookupEdge found nothing: try the reversed pair, or record the miss, or buy.
Missed(r, j) ==
    IF j.stage = "fill" THEN [j EXCEPT !.pc = "call"]
    ELSE IF ~j.rev /\ MayReverse(r) THEN [j EXCEPT !.pc = "redis", !.rev = TRUE]
    ELSE Advance(r, [j EXCEPT !.miss = @ \cup {Here(j)}])

\* lookupEdge returned an error: the probe hands it to the client as it is,
\* the fill looks at the deadline first.
LookupFailed(j) ==
    Answer(j, IF j.stage = "fill" /\ j.late THEN "504" ELSE "400")

\* The pairs a provider call asks for: a walk's consecutive way points, or the
\* pair of the cell being filled.
Legs(r, j) ==
    IF j.stage = "fill" THEN <<PairAt(r, j)>>
    ELSE LET w == Head(j.walks)
         IN  [k \in DOMAIN w |->
                <<Waypoints[r][IF k = 1 THEN w[1][1] ELSE w[k - 1][2]],
                  Waypoints[r][w[k][2]]>>]

\* The first k legs of the call, priced by source src.
Steps(r, j, k, src) ==
    [i \in 1 .. k |-> [o |-> Legs(r, j)[i][1], d |-> Legs(r, j)[i][2],
                       slot |-> j.start, src |-> src,
                       late |-> src = "fallback" /\ j.late]]

\* Mutated form: the executed walk stays at the head of the plan.
ReturnedAgain(r, j, steps) == [j EXCEPT !.pc = "absorb", !.steps = steps]

Returned(r, j, steps) ==
    [j EXCEPT !.pc = "absorb", !.steps = steps,
              !.walks = IF j.stage = "walk" THEN Tail(@) ELSE @]

\* A step has been dealt with: on to the next one, or to the next cell.
Absorbed(r, j) ==
    IF j.stage = "fill" THEN SetCell(r, [j EXCEPT !.steps = <<>>], Head(j.steps))
    ELSE [j EXCEPT !.pc = "absorb", !.steps = Tail(@)]

\* Mutated form: estimates are written through like road data.
DurableAnyway(s) == TRUE

\* Only what the provider said is written through.
Durable(s) == s.src # "fallback"

Fresh(r, start) ==
    [pc |-> "next", stage |-> "probe", row |-> 1, col |-> 1, rev |-> FALSE,
     held |-> None, seg |-> [a \in Arc |-> None], miss |-> {}, walks |-> <<>>,
     steps |-> <<>>, cells |-> [c \in Cell(r) |-> None], start |-> start,
     late |-> FALSE, banked |-> FALSE, reply |-> "none"]

-----------------------------------------------------------------------------
(* One Compute call *)

Do(r, j) == job' = [job EXCEPT ![r] = j]

\* Mutated form: edges are filed under the current hour whatever the request says.
WmtNow(r) == hour

\* The slot new edges are filed under, fixed when Compute starts.
Wmt(r) == IF r \in Pinned THEN SlotOf[r] ELSE hour
Invalid(r) == N(r) < 2 \/ (MaxPoints > 0 /\ N(r) > MaxPoints)

\* A client sends the request, or sends it again. Compute checks its size (an
\* unknown provider is refused in the same way) and fixes the slot new edges
\* are filed under.
Submit(r) ==
    /\ \/ job[r].pc = "idle"
       \/ job[r].pc = "replied" /\ job[r].reply \in Resubmit
    /\ Do(r, IF Invalid(r) THEN Answer(Fresh(r, Wmt(r)), "400") ELSE Fresh(r, Wmt(r)))
    /\ UNCHANGED <<stores, hour, crashes>>

\* The head of the probe loop: skip the diagonal and pairs already known, stop
\* at the deadline, look the rest up; after the last cell, plan the misses.
ProbeNext(r) ==
    LET j == job[r] IN
    /\ j.pc = "next" /\ j.stage = "probe"
    /\ \/ /\ Over(r, j)
          /\ Do(r, IF j.miss = {} THEN StartFill(j) ELSE [j EXCEPT !.pc = "plan"])
       \/ /\ ~Over(r, j)
          /\ j.row = j.col
          /\ Do(r, Advance(r, j))
       \/ /\ ~Over(r, j)
          /\ j.row # j.col
          /\ Do(r, IF j.late THEN TimedOut(j)
                   ELSE IF j.seg[PairAt(r, j)] # None THEN Advance(r, j)
                   ELSE [j EXCEPT !.pc = "redis"])
    /\ UNCHANGED <<stores, hour, crashes>>

\* Store.Get: exact slot, spatial neighbourhood, then the zero-length hit of
\* two points in one cell. Once the deadline has passed the client library
\* refuses the command.
RedisGet(r) ==
    LET j     == job[r]
        h     == Hashes(Key(r, j))
        exact == Found(redis, r, h, LookupSlot(r))
        fuzzy == Fuzzy(r, h, LookupSlot(r))
        zero  == [o |-> Key(r, j)[1], d |-> Key(r, j)[2], slot |-> LookupSlot(r),
                  src |-> "cache", late |-> FALSE]
    IN
    /\ j.pc = "redis"
    /\ \/ /\ ~UseRedis
          /\ Do(r, [j EXCEPT !.pc = "archive"])
       \/ /\ UseRedis
          /\ j.late \/ "redisGet" \in Faults
          /\ Do(r, LookupFailed(j))
       \/ /\ UseRedis /\ ~j.late
          /\ \E e \in IF exact # {} THEN exact ELSE fuzzy : Do(r, Hit(r, j, Cached(e)))
       \/ /\ UseRedis /\ ~j.late
          /\ exact = {}
          /\ fuzzy = {} \/ Crowded(h)
          /\ Do(r, IF h[1] = h[2] THEN Hit(r, j, zero) ELSE [j EXCEPT !.pc = "archive"])
    /\ UNCHANGED <<stores, hour, crashes>>

\* Archive.Get; an edge found is held for promotion.
ArchiveGet(r) ==
    LET j     == job[r]
        found == Found(archive, r, Hashes(Key(r, j)), LookupSlot(r))
    IN
    /\ j.pc = "archive"
    /\ \/ /\ ~UseArchive
          /\ Do(r, Missed(r, j))
       \/ /\ UseArchive
          /\ j.late \/ "archiveGet" \in Faults
          /\ Do(r, LookupFailed(j))
       \/ /\ UseArchive /\ ~j.late
          /\ \E e \in found : Do(r, [j EXCEPT !.pc = "promote", !.held = e])
       \/ /\ UseArchive /\ ~j.late
          /\ found = {}
          /\ Do(r, Missed(r, j))
    /\ UNCHANGED <<stores, hour, crashes>>

\* Mutated form: the write may be lost although Redis is up.
RedisPutLossy(j, e) == redis' = redis \/ (UseRedis /\ redis' = Write(redis, e))

\* Store.Put under the request's context; every error is ignored.
RedisPut(j, e) ==
    \/ /\ UseRedis /\ ~j.late
       /\ redis' = Write(redis, e)
    \/ /\ ~UseRedis \/ j.late \/ "redisPut" \in Faults
       /\ redis' = redis

Promote(r) ==
    LET j == job[r] IN
    /\ j.pc = "promote"
    /\ RedisPut(j, j.held)
    /\ Do(r, Hit(r, j, Cached(j.held)))
    /\ UNCHANGED <<archive, queue, hour, crashes>>

\* Plan the missing pairs. The planner returns no error: cut short by the deadline
\* it only plans more walks, and the check after it answers 504.
MakePlan(r) ==
    LET j == job[r] IN
    /\ j.pc = "plan"
    /\ Do(r, IF j.late THEN TimedOut(j)
             ELSE [j EXCEPT !.pc = "next", !.stage = "walk",
                            !.walks = Plan(N(r), j.miss)])
    /\ UNCHANGED <<stores, hour, crashes>>

WalkNext(r) ==
    LET j == job[r] IN
    /\ j.pc = "next" /\ j.stage = "walk"
    /\ Do(r, IF j.walks = <<>> THEN StartFill(j)
             ELSE IF j.late THEN TimedOut(j)
             ELSE [j EXCEPT !.pc = "call"])
    /\ UNCHANGED <<stores, hour, crashes>>

\* The provider call (RouteWaypoints, or RoutePair in the fill stage) ends: with
\* a step per leg (fewer if arrival markers are missing from the response),
\* with estimates if every key failed or the deadline cancelled the HTTP call,
\* or with the context's error if it was over before a packet was sent.
CallReturns(r) ==
    LET j == job[r]
        n == Len(Legs(r, j))
    IN
    /\ j.pc = "call"
    /\ \/ \E k \in IF "short" \in Faults /\ j.stage = "walk" THEN 0 .. n ELSE {n} :
             Do(r, Returned(r, j, Steps(r, j, k, "provider")))
       \/ /\ j.late \/ "provider" \in Faults
          /\ Do(r, Returned(r, j, Steps(r, j, n, "fallback")))
       \/ /\ j.late /\ j.stage = "walk"
          /\ Do(r, TimedOut(j))
    /\ UNCHANGED <<stores, hour, crashes>>

\* One step of the call: into segmentByPair (a fill step goes to its cell), and
\* on to the stores unless it is an estimate.
Absorb(r) ==
    LET j == job[r]
        s == Head(j.steps)
        k == IF j.stage = "walk" THEN [j EXCEPT !.seg[PairOf(s)] = s] ELSE j
    IN
    /\ j.pc = "absorb"
    /\ \/ /\ j.steps = <<>>
          /\ Do(r, [j EXCEPT !.pc = "next"])
       \/ /\ j.steps # <<>>
          /\ Do(r, IF Durable(s) THEN [k EXCEPT !.pc = "put"] ELSE Absorbed(r, k))
    /\ UNCHANGED <<stores, hour, crashes>>

\* persistEdge, first half: write through to Redis.
PutEdge(r) ==
    LET j == job[r] IN
    /\ j.pc = "put"
    /\ RedisPut(j, Head(j.steps))
    /\ Do(r, [j EXCEPT !.pc = "enqueue", !.banked = @ \/ redis' # redis])
    /\ UNCHANGED <<archive, queue, hour, crashes>>

\* Mutated form: one place too many.
OfferOneMore(q, e) == IF Len(q) <= QueueCap THEN Append(q, e) ELSE q

\* EnqueueUpsert never blocks: a full queue drops the job.
Offer(q, e) == IF Len(q) < QueueCap THEN Append(q, e) ELSE q

\* persistEdge, second half: hand the edge to the queue, which drops it when
\* full; without a queue, upsert it under the request's context.
Enqueue(r) ==
    LET j == job[r]
        e == Head(j.steps)
    IN
    /\ j.pc = "enqueue"
    /\ \/ /\ UseArchive /\ UseAsync
          /\ queue' = Offer(queue, e)
          /\ UNCHANGED archive
       \/ /\ UseArchive /\ ~UseAsync /\ ~j.late
          /\ archive' = Upsert(archive, e)
          /\ UNCHANGED queue
       \/ /\ ~UseArchive \/ (~UseAsync /\ (j.late \/ "archivePut" \in Faults))
          /\ UNCHANGED <<archive, queue>>
    /\ Do(r, Absorbed(r, j))
    /\ UNCHANGED <<redis, hour, crashes>>

\* Mutated form: the fill loop does not look at the deadline.
FillNeverOverdue(j) == FALSE

\* The deadline check at the head of the fill loop, made for every cell,
\* the diagonal included.
FillOverdue(j) == j.late

FillNext(r) ==
    LET j == job[r]
        a == PairAt(r, j)
    IN
    /\ j.pc = "next" /\ j.stage = "fill"
    /\ \/ /\ Over(r, j)
          /\ Do(r, Answer(j, "200"))
       \/ /\ ~Over(r, j) /\ FillOverdue(j)
          /\ Do(r, TimedOut(j))
       \/ /\ ~Over(r, j) /\ ~FillOverdue(j)
          /\ j.row = j.col
          /\ Do(r, Advance(r, j))
       \/ /\ ~Over(r, j) /\ ~FillOverdue(j)
          /\ j.row # j.col
          /\ Do(r, IF j.seg[a] # None THEN SetCell(r, j, j.seg[a])
                   ELSE IF MayReverse(r) /\ j.seg[Swap(a)] # None
                        THEN SetCell(r, j, j.seg[Swap(a)])
                   ELSE [j EXCEPT !.pc = "redis"])
    /\ UNCHANGED <<stores, hour, crashes>>

Step(r) ==
    \/ ProbeNext(r) \/ RedisGet(r) \/ ArchiveGet(r) \/ Promote(r)
    \/ MakePlan(r) \/ WalkNext(r) \/ CallReturns(r) \/ Absorb(r)
    \/ PutEdge(r) \/ Enqueue(r) \/ FillNext(r)

-----------------------------------------------------------------------------
(* The environment *)

Running(r) == job[r].pc \notin {"idle", "replied"}

\* The request's context passes its deadline, at any moment.
Expire(r) ==
    /\ Running(r) /\ ~job[r].late
    /\ Patient => job[r].banked
    /\ Do(r, [job[r] EXCEPT !.late = TRUE])
    /\ UNCHANGED <<stores, hour, crashes>>

\* AsyncWriter.loop: upsert the oldest job; an error loses it.
ArchiveWorker ==
    /\ queue # <<>>
    /\ queue' = Tail(queue)
    /\ \/ archive' = Upsert(archive, Head(queue))
       \/ "archivePut" \in Faults /\ UNCHANGED archive
    /\ UNCHANGED <<job, redis, hour, crashes>>

\* The EXPIRE of an edge hash: all its slots go at once.
Evict(h) ==
    /\ "ttl" \in Faults
    /\ \E e \in redis : Hashes(PairOf(e)) = h
    /\ redis' = {e \in redis : Hashes(PairOf(e)) # h}
    /\ UNCHANGED <<job, archive, queue, hour, crashes>>

Tick ==
    /\ hour < MaxHour
    /\ hour' = hour + 1
    /\ UNCHANGED <<job, stores, crashes>>

\* The process is killed: its requests and its queue are gone.
Crash ==
    /\ crashes < MaxCrashes
    /\ crashes' = crashes + 1
    /\ queue' = <<>>
    /\ job' = [r \in Request |-> IF Running(r) THEN Answer(job[r], "dropped") ELSE job[r]]
    /\ UNCHANGED <<redis, archive, hour>>

Init ==
    /\ hour = 0 /\ crashes = 0
    /\ redis = {} /\ archive = {} /\ queue = <<>>
    /\ job = [r \in Request |-> [Fresh(r, 0) EXCEPT !.pc = "idle"]]

Next ==
    \/ \E r \in Request : Submit(r) \/ Step(r) \/ Expire(r)
    \/ ArchiveWorker
    \/ \E a \in Arc : Evict(Hashes(a))
    \/ Tick
    \/ Crash

Spec == Init /\ [][Next]_vars

\* A goroutine is scheduled, and every call it makes ends: Redis and MySQL
\* calls by error or answer, the HTTP call at the latest at its own timeout.
FairSpec == Spec /\ \A r \in Request : WF_vars(Step(r))

\* In addition, a client that was told 504 sends the request again.
RetrySpec == FairSpec /\ \A r \in Request : WF_vars(Submit(r))

-----------------------------------------------------------------------------
(* Properties *)

TypeOK ==
    /\ DOMAIN job = Request
    /\ \A r \in Request : job[r] \in Job(r)
    /\ redis \subseteq Segment
    /\ archive \subseteq Segment
    /\ queue \in Seq(Segment) /\ Len(queue) <= QueueCap
    /\ hour \in Hour
    /\ crashes \in Nat

\* Segment s is an answer to request r for the pair a: strict requests get the
\* very pair, the others may get a neighbouring pair in either direction.
PairFits(r, a, s) ==
    LET g == Hashes(PairOf(s))
        h == Hashes(a)
    IN  IF r \in Strict THEN g = h
        ELSE \/ CloseTo(g[1], h[1]) /\ CloseTo(g[2], h[2])
             \/ CloseTo(g[1], h[2]) /\ CloseTo(g[2], h[1])

\* ... and its slot is one the request ran through (non-strict: or next to one).
SlotFits(r, s) ==
    LET slack == IF r \in Strict THEN 0 ELSE 1
    IN  /\ job[r].start - slack <= s.slot
        /\ s.slot <= (IF r \in Pinned THEN SlotOf[r] ELSE hour) + slack

\* A 200 has every cell off the diagonal filled with a segment for that very
\* cell: in strict mode never the reverse, a neighbour or another hour's
\* (the three loops of Compute, lookupEdge and fillPair together).
AnswerFits ==
    \A r \in Request : job[r].reply = "200" =>
        \A c \in Cell(r) : c[1] # c[2] =>
            LET s == job[r].cells[c]
            IN  s # None /\ PairFits(r, <<Waypoints[r][c[1]], Waypoints[r][c[2]]>>, s)
                         /\ SlotFits(r, s)

\* A 200 never contains an estimate made because the deadline cancelled the
\* provider call: whatever the moment it passes, such a request ends in an
\* error (the checks after the calls and at every cell of the fill loop).
NoCutAnswer ==
    \A r \in Request : job[r].reply = "200" =>
        \A c \in Cell(r) : job[r].cells[c] # None => ~job[r].cells[c].late

\* Redis, the archive and the queue hold what the provider said and nothing
\* else: an estimate never outlives its request (persistEdge's callers).
StoresHoldRoadData ==
    \A e \in redis \cup archive \cup {queue[k] : k \in DOMAIN queue} : e.src = "provider"

InRedis(a, slot) == \E e \in redis : Hashes(PairOf(e)) = Hashes(a) /\ e.slot = slot

\* Between two provider calls everything the finished calls of the attempt
\* bought is already in Redis, so a deadline passing now loses nothing
\* (write-through; for runs where Redis neither fails nor evicts).
WriteThrough ==
    \A r \in Request :
        job[r].pc \in {"next", "call"} /\ job[r].stage # "probe" /\ ~job[r].late =>
            \A s \in {job[r].seg[a] : a \in Arc} \cup {job[r].cells[c] : c \in Cell(r)} :
                s # None /\ s.src = "provider" => InRedis(PairOf(s), s.slot)

\* No provider call asks for a missing pair that Redis holds for the request's
\* slot, unless the attempt has asked for it before (a walk may pass a pair
\* twice): a repeated request, after a 504, a crash or a 200, pays only for what
\* is absent (for runs with one request).
NeverPaysTwice ==
    \A r \in Request :
        job[r].pc = "call" =>
            LET j == job[r]
                asked == IF j.stage = "fill" THEN {Here(j)}
                         ELSE {c \in j.miss : \E l \in DOMAIN Head(j.walks) : Head(j.walks)[l] = c}
            IN  \A c \in asked :
                    LET a == <<Waypoints[r][c[1]], Waypoints[r][c[2]]>>
                    IN  InRedis(a, j.start) => j.seg[a] # None /\ j.seg[a].src # "cache"

\* Every request sent is answered, whatever fails around it (the loops of
\* Compute make progress in every branch).
Answered == \A r \in Request : Running(r) ~> job[r].pc = "replied"

\* A client that repeats a request after every 504 is served in the end, if no
\* attempt is so short that it stores nothing new: each attempt leaves fewer
\* pairs to buy (write-through, the probe, and the plan over the misses only).
EventuallyServed == \A r \in Request : <>(job[r].reply = "200")

\* docs/configuration.md: the deadline of a request leads to a 504.
DeadlineMeans504 ==
    \A r \in Request : job[r].reply = "400" => ~job[r].late

\* docs/architecture.md: what the provider returned goes to Redis immediately,
\* so that the retry after a 504 finds it.
ProviderSuccessesKept ==
    \A r \in Request : job[r].reply = "504" =>
        \A a \in Arc : LET s == job[r].seg[a]
                       IN  s # None /\ s.src = "provider" => InRedis(a, s.slot)

-----------------------------------------------------------------------------
(* What WriteThrough and NeverPaysTwice are stated for *)

\* Redis is there, takes every write that comes in time and evicts nothing.
RedisReliable == UseRedis /\ "redisPut" \notin Faults /\ "ttl" \notin Faults

OneClient == \A q, r \in Request : q = r

\* No two places share a cell.
CellsApart == \A p, q \in Place : GeoHash[p] = GeoHash[q] => p = q

PointsDiffer ==
    \A r \in Request : \A k, l \in 1 .. N(r) : Waypoints[r][k] = Waypoints[r][l] => k = l

\* A lookup looks where the call's own edges are filed. With an archive, whose
\* queue may still be at work for an earlier attempt, a promotion must not come
\* for a pair that was missed before: by its reverse, or by a point named twice.
LooksWhereItFiles ==
    /\ OneClient /\ CellsApart
    /\ UseRedis /\ Pinned = Request
    /\ UseArchive => Strict = Request /\ PointsDiffer
=============================================================================
