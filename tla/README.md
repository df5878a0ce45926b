# distance_matrix: TLA+ specifications and proofs

`distance_matrix` is an HTTP service (Go) that answers N x N distance and
duration matrices. It keeps directed road segments ("edges") in Redis (L1) and,
if configured, in MySQL (L2), buys what is missing from a metered routing
provider (Amap) along walks planned to need few calls, and has a deadline per
request. This directory holds TLA+ models of the program, TLC configurations
that check them on small instances, and TLAPS proofs.

Paths below are relative to the repository; `engine.go:127` is
`internal/engine/engine.go`, line 127.

## 1. The system

### Components

| Component | State it keeps | Operations | Talks to |
|---|---|---|---|
| HTTP handlers (`internal/handler`) | none (the tenant limiter's counters) | parse, set the deadline, map errors to 200/400/504 | engine, limiter |
| Tenant limiter (`internal/middleware/limit.go`) | one window (start, count) per tenant, behind a mutex | `allow` | clock |
| Matrix engine (`internal/engine`) | the locals of each `Compute` call: `segmentByPair`, the misses, the plan, the matrices | probe, plan, walk, fill | cache, archive, planner, route planner |
| EdgeCache (`internal/cache`) | in Redis: one GEO set, one HASH per edge (field = time slot) with a TTL, one ZSET of keys, per tenant | `Put`, `Get` (exact, spatial, same cell) | Redis, clock |
| EdgeArchive (`internal/persist`) | MySQL rows keyed by (tenant, method, strategy, cells, slot); a bounded queue with one worker | `Get`, `Upsert`, `EnqueueUpsert`, `Close` | MySQL |
| DensePlanner (`internal/arccover`) | per call: the graph of uncovered arcs, a vertex heap, fragments, bins | `Plan`: grow fragments, pack them into walks, validate | - |
| Route planner (`internal/planner`) | per call: packets and a slice of results filled by parallel goroutines | `RouteWaypoints`, `RoutePair` | provider |
| Amap provider (`internal/provider`) | the set of keys a `Route` call has tried | `Route`: try keys until one answers, else estimate | key pool, HTTP |
| Key pool (`internal/loadbalance`) | per key: decaying success and failure masses, last outcome, rotation credit; one mutex | `Next`, `RecordSuccess`, `RecordFailure` | clock |
| Service (`matrix.go`, `internal/svc`) | which backends were reachable at start | start, readiness, close | all |

Requests run as goroutines of one process. They share Redis, MySQL, the archive
queue, the key pool and the limiter; everything else is local to a call. The
queue's worker is the only goroutine that outlives a request.

### What is hard about it

* Requests interleave over one Redis and one archive: the edges one request
  writes appear between the probe and the fill of another.
* The deadline is a context that every call into Redis, MySQL and HTTP observes,
  each in its own way: an error, an estimate without an error, a lost write.
* Providers fail by returning *estimates* with no error; these may be shown to
  their own client, but must never be stored.
* A request that is too large for one deadline is served only because retries
  find what earlier attempts stored (write-through).
* Two lookups widen what matches: the neighbouring hour, the reverse direction
  and the spatial neighbourhood. Strict requests must see none of them.
* The process can be killed with jobs in its queue.
* Points may be named twice, lie in one cell, and the provider may answer with
  fewer steps than asked for.

### What makes each component correct

* Engine: a 200 has every cell filled with a segment that answers that very
  cell; no estimate is stored or, if it was cut short by the deadline, shown;
  what was bought is in Redis before anything more is bought; no retry buys
  twice; every request is answered; retries get served.
* EdgeCache: a strict `Get` returns only the exact edge; isolation of tenants,
  and of methods and strategies as far as the digits of the key tell them apart.
* EdgeArchive: the queue is bounded and ordered, accepted jobs are written by
  `Close`, later upserts win.
* DensePlanner: walks are contiguous, no longer than allowed, cover every
  missing arc once, and their number is never below the computed lower bound.
* Route planner: steps come back in the order of the legs whatever packet
  finishes first.
* Key pool: the rotation is fair to every key that has a weight; a key that only
  failed is rested, one that was good is not taken for it; a failed key is not
  retried within one call, `Route` always answers.
* Limiter: no tenant gets more than its limit in one window.

## 2. Modules

| Module | Models | Checked by | Proved in |
|---|---|---|---|
| `MatrixEngine` | `Compute` and everything it calls, as seen by concurrent requests | `MCMatrixEngine` and `MCWirings` with `engine_*.cfg` | `MatrixEngineProofs`, `MatrixWriteProofs`, `WiringsProofs` |
| `KeyPool` | the Amap keys: weights, rotation, and `Route`'s loop over them | `MCKeyPool` with `pool_*.cfg` | `KeyPoolProofs` |
| `ArcCover` | what a planner promises: the abstract specification | as a property of `DensePlanner` | `DensePlannerProofs` (its safety part) |
| `DensePlanner` | the arc-cover algorithm, implements `ArcCover` | `MCDensePlanner` with `dense_*.cfg` | `DensePlannerProofs` |
| `Walks` | walks and plans; the contract (`Covers`) between planner and engine | used by the three | - |
| `RoutePlanner` | `POST /v1/route`: packets in parallel goroutines over one `KeyPool` (by `INSTANCE`), the provider's responses | `MCRoutePlanner` with `route_packets.cfg` | `RoutePlannerProofs` |
| `EdgeStores` | Redis and MySQL as stores of edges: keys, GEO set, expiry, time slots, rows, queue | `MCEdgeStores` with `stores.cfg` | `EdgeStoresProofs` |
| `TenantLimiter` | the rate limit per tenant | as part of `Service` | `ServiceProofs` |
| `Service` | the life of the process: start, requests behind the limiter, writer, shutdown, kill (extends `TenantLimiter`) | `MCService` with `service*.cfg` | `ServiceProofs` |

The engine does not contain the planner: it takes any plan that satisfies
`Covers` (`PlanContract`), and `DensePlanner` shows that the real one does
(`PlanCovers`, proved as `PlanFit`). In the same way the engine takes from the provider what
`KeyPool` shows of it: a call always returns, with road data or an estimate.
`RoutePlanner` runs the real thing: the `Route` calls of its goroutines are the
callers of a `KeyPool`, and it uses the pool as `KeyPool` allows (proved as
`UsesThePool`).

`MCWirings` holds two services, one with Redis and without an archive, one whose
Redis did not answer at start and whose archive is written without the queue
(`Bare`, an instance of `MatrixEngine` with other constants over the same
variables). The engine provides for the second one (`engine.go:308-310`) and a test sets
an archive without a queue (`engine_test.go:96`); `NewServiceContext` (`servicecontext.go:87-91`) starts a queue
with every archive. It is the wiring in which the engine has no store it can rely
on. `site` says which of the two a behaviour is about, and never
changes, as `NewServiceContext` decides it once.

### MatrixEngine

State:

| Variable | In the code |
|---|---|
| `job[r]` | the locals of the `Compute` call that serves request `r`: `pc`/`stage` (where it is), `row`/`col` (the loops' `i`, `j`), `rev` (the second, reversed lookup), `held` (the archive edge being promoted), `seg` (`segmentByPair`), `miss`, `walks` (`plan.Routes` not yet executed), `steps` (the provider's steps not yet dealt with), `cells` (the matrices), `start` (`wmt`), `late` (`ctx.Err() != nil`), `reply` (what the client got) |
| `redis`, `archive` | the edges stored, at most one per (cell, cell, slot) |
| `queue` | `AsyncWriter.ch` |
| `hour` | `time.Now()`, as far as `TimeSlotWMH` looks at it |
| `crashes` | how often the process was killed (bounded) |

`banked` is a history variable: the current attempt changed Redis.

Actions: `Submit` (a client sends or repeats a request), `ProbeNext`, `RedisGet`,
`ArchiveGet`, `Promote`, `MakePlan`, `WalkNext`, `CallReturns`, `Absorb`,
`PutEdge`, `Enqueue`, `FillNext` (the steps of `Compute`; every call that leaves
the process is a step of its own, so that everything else can happen before and
after it), `Expire` (the deadline), `ArchiveWorker`, `Evict` (a Redis TTL),
`Tick` (the hour), `Crash`.

Abstractions:

* Coordinates are model values (`Place`); `GeoHash` maps them to the cells that
  key both stores and `Near` says which cells lie within half of `geo_wide_m`.
  The conversion to GCJ-02 happens before anything else and is injective on the
  places of an instance.
* A segment has its end points, its slot, its source and whether it is an
  estimate made because the deadline had passed; distance, duration and polyline
  are left out. An edge has length zero, and is skipped by `Upsert`, if it leads
  from a place to itself: between different places a provider returns a length.
* Slots are the hours of one day (`MaxHour <= 22`): the wrap at midnight, hour
  buckets (`"14"`) and the reuse of slots in later weeks are in `EdgeStores`.
* The spatial search returns *some* edge of the neighbourhood; the code returns
  the first it finds, going through the places in the order of their distance. With more than three places around, it may overlook one
  (`Crowded`).
* The planner is a constant operator, of which only `PlanContract` is assumed.
* One tenant, method and strategy; `EdgeStores` has several.
* The provider call is one step with three outcomes: steps from the provider
  (possibly fewer than asked for, in the walk stage), estimates, or the
  context's error before the packet was sent.
* Failures of backends are injected through `Faults`; a command sent after the
  deadline always fails.

Statistics are left out.

### KeyPool

| Variable | In the code |
|---|---|
| `good[i]`, `hard[i]` | `successes > 1e-9`, and `failuresHard >= 1` together with whether these failures came before or after the last success |
| `fails[i]` | the whole part of `failuresSoft + failuresHard`, up to `FailLimit` |
| `closed[i]` | `sinceLastOutcome` is so small that `probeGate` rounds the probe weight to 0 |
| `credit[i]` | `currentWeight` |
| `call[c]` | the locals of one `AmapProvider.Route`: `tried`, the key in use, whether the context is cancelled, the answer |

`wait` is a history variable: how many picks at which an item had a weight went to
others since it was last picked.

Actions: `Begin`, `Pick` (`Pool.Next` and the test of `tried`, under the pool's
mutex), `Succeeds`/`Fails` (the HTTP request and the `Record` call) and `Exhausted`
for each caller; `Cut` for a set of calls, those that share a request's context;
`GateOpens`, `HardFades`, `FailsFade`, `GoodFades` for the passing of time.

Abstractions: the masses decay as real numbers, so time is a free step in the
direction of forgetting, and an item's weight is any value of a small set that
its state allows, chosen again at every pick. 0 is among them in two states. A
key that only failed has weight 0 while its gate is closed. The rate of any other
key is (S + 2) / (S + F + 3) for many failures F, in thousandths, which
`selectionWeight` rounds to 0 from some 4000 failures on, while they keep the gate
closed: `FailLimit` stands for that number. The runs have it at 1 or 2, so that more
is allowed than the code does. A lone key has the safety factor and no weight of 0. A mass of hard failures is counted as at least one from the
first failure on, where the code's is below one soon after: a key in that state
is in the model either probed or, after `HardFades`, in rotation.

### ArcCover and DensePlanner

`ArcCover` plans walk by walk until every required arc is bought: each step adds
one walk that fits and buys at least one arc nobody bought before.

`DensePlanner` is the algorithm: `pc` is the loop it is in.

| Variable | In the code |
|---|---|
| `out` | `MutableGraph.Out` with each arc as its end; the degrees, `Alive` and `Remaining` follow from it |
| `order` | `IndexedVertexHeap.order`; `pos` follows from it |
| `at`, `trail` | `current` and `fragment.Edges` in `DenseRouteFirst` |
| `frags`, `packed` | `fragments`, and `used` in `PackFragments` |
| `route`, `routes` | the route being packed and those finished |
| `checked`, `valid` | `routeIndex` in `ValidateAndComplete`, and the routes it keeps (`compact`) |
| `cut` | `ctx.Err() != nil` |

Actions: `Load`, `Loaded` (graph and heap), `StartTrail`, `Grow`, `EndTrail`,
`NoTrail`, `Single` (`DenseRouteFirst`), `Grown`, `OpenRoute`, `AppendFragment`,
`CloseRoute`, `Packed` (`PackFragments`), `Validate`, `Finalize` (`ValidateAndComplete`), and
`Cut` (the context).

Abstractions: required arcs are a set; the engine asks for each pair once and
`NormalizeRequired` gives each its place in the order by (from, to), which stands
for its `EdgeID`. The buckets and cursors of `PackFragments` are an index: what
they select is written as a condition (`Opens`, `Appends`), so is what
`SelectDenseNext` scans for. The heap is not: its array, `siftUp` and `siftDown`
are modelled as they are, because what it yields depends on them. Each of its loops
is a recursive function of what the loop changes (an order and a place in it).
Statistics are left out, except for the lower bound. There, the union-find of
`WeakComponents` is what it computes, the least sets of points that no arc leaves
(`Components`), and a sum is the number of as many pairs (`Total`), so that the bound
can be reasoned about without recursion.

`Covers` allows a leg from a point to itself: when one fragment ends where the
next starts, the bridge between them has no length. The engine records its step
for the pair of that point with itself, which no cell asks for; it costs a place
of the route.

### RoutePlanner

| Variable | In the code |
|---|---|
| `route` | `RouteWaypoints` of one request (number of points, whether the client is gone) and the handler's answer |
| `work[g]` | the goroutine of packet `g` and its place in `results` |
| `good`, `hard`, `fails`, `closed`, `credit`, `call`, `wait` | the `KeyPool`; `call[g]` is the `Route` call of `g` |

Actions: `Ask` (a client asks for a route of some length), `Enter`, `Call` (a step
of `Route` in the pool), `Collect` (the answer becomes steps) of each goroutine,
`Join`, `Cancel` (the client disconnects), and time for the pool.

Abstractions: points are their positions, so that a leg and the packets that
hold it can be told apart. A response is a list of path steps, each with the leg
it belongs to, which the code does not see; it sees the arrival marks.
`ToResult` is `toResult`'s loop over marks; `Returns` has what it makes of every
response there may be, so that it is computed once. That at most one path step
follows the last arrival is taken for granted of the provider: of two, `toResult`
drops the first and adds the second to the last leg (`amap.go:254-269`). `clean` is a history variable:
whether the provider sent all marks.

### EdgeStores

| Variable | In the code |
|---|---|
| `redis`, `expires` | the fields of the hashes (each with its key and slot), and the expiry of each hash |
| `geo[t]` | the GEO set of tenant `t`: one place per cell |
| `rows` | the table, in the order of `updated_at` |
| `queue` | `AsyncWriter.ch` |
| `client[c]` | the locals of one `fillPair` |
| `now` | the wall clock, in hours since a Sunday 0:00 |
| `faults` | how many clock jumps, cut pipelines and kills there were (bounded) |

`bills` and `lost` are history variables: what each purchase was for and until when
Redis has to keep it (`until`: the TTL from its write, or what the hash had left if
the pipeline was cut before `EXPIRE`), and which purchases never reached the archive
because a job was dropped or died with the process.

Actions: `Start`, `ExactGet`, `NearGet`, `SlotsGet`, `HourGet`, `Promote`, `Buy`,
`PutEdge`, `Enqueue`, `Return` (one command to a backend each), `Worker`, `Tick`,
`Crash`.

A context is a tenant, a method and a strategy. The keys of Redis have the digits
of the two numbers, and `itoa` has none for a negative one (`Digits`): all negative
methods share their hashes. The rows of the archive have the numbers themselves,
so that a row (`RowOf`) is told apart from the key (`KeyOf`) of the same edge.

Abstractions: a place is a model value with a cell (`GeoHash`) and distances
(`Metres`). GEORADIUS returns places in the order of their distance, but is not
asked for the distances: the sums that `tryFuzzySpatial` compares with the width of
the request (`geo_wide_m`, `docs/api-reference.md:44`) are all 0, so that the first
pair of places with an edge wins and none is too far. The width counts through the
radius alone, which is half of it, and 100 m for a width of 1 m. It is measured to
the place that the GEO set has for a cell. A slot is a day of the week and an hour, a bare hour (`"14"`) has no
day, the month stays the same. Two rows are never updated in the same
microsecond, so that the order of `rows` decides the search by hour. An edge
that was bought has a length: `Upsert` skips only those of a place to itself,
which are never bought while Redis is there. Failing commands other than a cut
`Put` are in `MatrixEngine`.

### TenantLimiter and Service

| Variable | In the code |
|---|---|
| `counters[t]` | `counters[tenant]`: start and count of the window |
| `clock` | `time.Now()`, read under the mutex |
| `phase` | how far `main` is: up, draining (in `server.Start` after the signal), closing (in `AsyncWriter.Close`), closed (the database is), down |
| `wired` | which of `Cache` and `Async` the `ServiceContext` has |
| `request[c]` | the handler that serves client `c`: before its lookups, or writing |
| `ch`, `worker` | `AsyncWriter.ch` and its goroutine |
| `up` | which backends answer |

`log[t]` (when requests of `t` were admitted), `accepted` and `tried` (the jobs that
the queue took and those handed to the open database) are history variables.

Actions: `Boot`, `Arrive` (limiter), `Lookup`, `Persist`, `Reply`, `Take`, `Upsert`,
`LoopEnds`, `Signal`, `CloseChannel`, `CloseDatabase`, `Exit`, `Kill`, `Tick`,
`Outage`.

Abstractions: a request is what it does to the limiter and to the writer. That
go-zero's `Start` returns only after the handlers in flight have ended (`Served`)
is taken from its use in `main`: the deferred `Close` relies on it. With the
framework's own timeout switched on, which answers while the handler runs on, it
would not hold; `config.ForServer` switches it off. If the grace period ends
first, the process is killed (`Kill`).

## 3. Runs

All runs use `CHECK_DEADLOCK FALSE`: a service whose clients have their answers
stops.

| Run | Instance | What it checks |
|---|---|---|
| `engine_pair` | a strict and a non-strict request over overlapping pairs of points, two of the places within the spatial search of each other, queue of one, two hours; started again over an archive that holds one of the pairs (an edge found there is promoted); the provider may fail, keys expire, the process may be killed once | `TypeOK`, `AnswerFits`, `NoCutAnswer`, `StoresHoldRoadData` |
| `engine_retries` | either one strict pinned request over three points of a service with Redis alone, repeated after 200, 504 and one crash, while the provider fails or leaves steps out; or two requests, one with a point named twice and one too short, of a service without Redis whose archive fails; two hours; under fairness | `AnswersFit`, `RedisWriteThrough`, `RedisNeverPaysTwice`, `Answered`, `RedisServes` |
| `engine_deadline400` | one strict request, no faults but the deadline | `DeadlineMeans504`: violated |
| `engine_lostwrite` | the same | `ProviderSuccessesKept`: violated |
| `pool_rotation` | two unreliable keys, two callers of which one may be cancelled, two full weights, weights of 0 from two failures on | `TypeOK`, `CreditBalanced`, `FairRotation`, `DeadKeyRests`, `ThrottledKeyStays` |
| `pool_untried` | two keys, one broken and one unreliable, two callers | `TriesEachKey`: violated |
| `route_packets` | routes of 1 and 4 points in packets of 2, a pool of a broken and a sound key, weights of 0 from one failure on, legs in one or two path steps, any marks missing, one client that disconnects, under fairness | `TypeOK`, `LegsInOrder`, `PricedByLeg`, `NothingPaidTwice`, `FailsOnlyWhenCut`, `RouteReturns`, `RoadDataFlows` |
| `stores` | two clients, three places of which two share a cell, two tenants, two negative methods, widths of 200 m and 1 m, TTL of 2 hours, start on Monday 22:00, jumps of an hour, queue of one, two purchases, two faults | `TypeOK`, `ServedFits`, `PaysOnce`, `ArchiveKeeps` |
| `service` | two clients of two tenants, a limit of 1 per window of 2 ticks, five moments, queue of one, two jobs, two lives, two outages | `TypeOK`, `AdmissionBound`, `RefusedJustly`, `NeverPanics`, `NothingLeftBehind`, `GoesDown` |
| `service_ready` | the same | `ReadyTellsRedis`: violated |
| `dense_plan` | every set of up to six arcs between four points, at most 3 and at most 5 legs, window 2, cancellation at any step | `TypeOK`, `HeapComplete`, `TrailsTakeAll`, `NothingToRepair`, `BoughtOnce`, `PlanCovers`, `BoundHolds`, `Implements` |
| `dense_best` | one set of 13 arcs between five points, at most 7 legs, window 8 | `PopsBest`: violated |

Bounds. Two points already have both directions, hence the reversed lookup, the
strict flag and the order of the fill loop; a third point adds walks of several
legs, bridges and several walks per plan. Two requests suffice for the races,
since a request only sees others through the stores. A queue of one is full as
soon as two edges are written. `MaxHour = 1` has one turn of the hour, before or
after any step. One crash is followed by a complete run.

With two full weights each pick's weights differ from the last one's, and with weights
that may be 0 an item drops out of the rotation between any two picks. Credits are
claimed to stay within (keys - 1) times the largest weight, and an item within four
picks at which it has a weight: bounds that the state space stays in, so it is complete
without any bound of the model. Both are those of the theorems, half of (N - 1) * N * W
and (N - 1) * N * W for N keys and weights up to W, as are 1 and 2 in `route_packets`.
`FailLimit = 2` has a key with one failure stay and one with two leave; two callers
fail a key twice between two picks. A third key or a third weight multiplies the
states and adds no case to the two properties about single keys; the rotation of
more than two is the matter of the theorems.

In `dense_plan` four points have all patterns of two components, of surplus and of dead ends, and up to
six arcs, more than either limit of legs, every surplus that four points can have; a limit of 3 legs forces several routes and a bridge with a fragment of one arc, 5
lets several fragments share a route; window 2 hides an arc at a point with three. The order of the heap needs five points
to fail.

`FairRotation` bounds the wait of an item in picks at which it had a weight. A pick at
which its weight is 0, as a probe whose gate is closed or rounded down, is none of its
turn, and of those there may be any number: how long it takes until failures have faded
is a matter of real numbers. `ThrottledKeyStays` says for how many failures a key that
was good may leave: `FailLimit`, which the decay has to wear off, and not one or two, as
when a failure is taken for that of a key that never worked.

`AnswerFits` says what a 200 may contain. `NoCutAnswer` is about the code's
least visible check: an estimate made because the deadline cancelled the HTTP
call comes back without an error, and only the context check at the *next*
cell (the diagonal cell behind the last one included) keeps it out of a 200.
`WriteThrough` is stated for Redis that neither fails nor evicts (`RedisReliable`),
because the code promises nothing else. `NeverPaysTwice` is stated for a call that
looks where it files (`LooksWhereItFiles`): the request names its slot, because an
unpinned strict request that runs across the turn of the hour looks edges up under
the new hour, files them under the old one and buys them again; it is the only one
at work, because nothing stops two requests from missing the same pair; no two
places share a cell; and if there is an archive, the request is strict and its
points differ, because an edge of an earlier attempt may reach the archive between
two lookups of one probe, and its promotion then puts a pair into Redis that was
missed before. It excuses a pair that the attempt has asked for before: a walk may
pass a pair a second time on its way to another one.

In `route_packets` two packets compete for two keys, one of which always fails, so
that each can be handed the key that the other one needs; weights are all 1
or 0 there, `pool_rotation` has changing ones. The sound key too loses its weight with
any failure on record (`FailLimit = 1`), which a client's disconnect is enough for: road
data keeps coming because failures wear off. Routes of 4 points have two packets, the
second of which starts at the last point of the first and has one point more.

In `stores`, 22:00 and one jump lead next to midnight, two jumps into the next
day, where a bare hour still finds yesterday's row of that hour in the archive; with
a TTL of 2 hours an edge outlives one jump but not two, unless another slot of its
hash is written in between.
Two purchases suffice to have two edges of one key or of two neighbouring ones.
The clients of tenant `t` have the methods -1 and -2, so that each may find in Redis what
the other bought, and in the archive not.

`ServedFits` states by itself what a client may be given, without the operators of the
lookup: the context up to negative numbers, cells of places within half the width in
either direction, and the hour, of any day, or the next one of the same day. That hours
23 and 0 of one day count as next to one another there is said openly: `AdjacentSlots`
has them so, `TestAdjacentSlotsHourWrap` asserts it, and `docs/architecture.md:47` has
±1h, which they are not.

`PaysOnce` compares what a client bought before with what its lookups look at,
at the moment it would pay again: in Redis the slots of `AdjacentSlots`, in the
archive also the hour. `ArchiveKeeps` is about rows with one buyer, as in this
instance: if two clients buy for one row, the second job may hold the older answer.

In `service` a limit of 1 in a window of 2 has all alignments of two windows
within five moments, and three admissions for `AdmissionBound`. A queue of one and
two jobs fill the channel while the goroutine has a job in hand. Two lives and
two outages let each backend be there at start and gone later, or the other way
round.

Fairness. `FairSpec` is weak fairness of each request's own steps: a goroutine is
scheduled, Redis and MySQL calls end (client timeouts), the HTTP call ends at
`TimeoutSec`. Nothing is assumed of the deadline, the clock, the queue's worker
or the clients. `RetrySpec` adds that a client told 504 asks again. With
`Patient`, a deadline does not pass before the attempt has stored an edge:
without it a deadline shorter than one provider call lets no retry progress, and
the code promises nothing.

`KeyPool`: `FairSpec` is weak fairness of the steps of a `Route` call (its HTTP
request ends at `TimeoutSec`). `RoutePlanner`: weak fairness of `Step` (some goroutine that can go on does), of clients
that keep asking for routes, and, for each key that is not broken, of its gate and of the
fading of its failures while it is left alone (time passes).
`Service`: weak fairness of the handlers (they end at their deadline), of the
writer's goroutine and of `main`; nothing is assumed of clients, signals, kills
or the backends.
`DensePlanner`: the planner computes without waiting, hence weak fairness of
`Step`; nothing is assumed of the cancellation. `Implements` needs it for the
promise of `ArcCover` that the plan is completed.

### Findings

* `service_ready`: `docs/operations.md:48` has readiness fail if Redis is enabled but
  down. `Ready` (`servicecontext.go:100`) only knows whether Redis answered at
  start; when it goes down later the service is ready and fails every matrix
  request that comes to a lookup.
* `engine_deadline400`: a deadline that passes inside a lookup of the probe loop
  is answered with 400, although `docs/configuration.md:12` promises 504. The
  lookup returns the client library's error, `Compute` hands it on
  (`engine.go:142`, `:154`), and only the fill loop looks at the context before
  doing so.
* `engine_lostwrite`: `docs/architecture.md:34` has provider successes go to
  Redis immediately, in support of the retry after a 504. `persistEdge` writes
  with the request's context and ignores the error (`engine.go:302`): steps
  already bought but not yet written when the deadline passes are lost, and the
  retry buys them again.
* `pool_untried`: `docs/key-pool-algorithm.md:315` has `Route` try each untried
  key before the fallback (`:319`). The loop ends as soon as the pool returns a
  key that was tried (`amap.go:134`), and since concurrent calls share the
  rotation, a call can be handed its first key twice and answer an estimate with
  an untried key left.
* `dense_best`: `graph.go:276` has the heap yield the best vertex. Removing an
  arc changes the keys of two vertices of the heap, and `dense.go:34-35` repairs
  them one after the other, each sift trusting that the rest is in order. From
  five points on, the root can be worse than another vertex. The plan is still a
  cover (`NothingToRepair` does not depend on the order, see the proof); its
  starts are not those of the greedy rule.

## 4. Proofs

Every theorem holds for every value of the constants that satisfies the assumptions
named in its module (types, `None` is no segment, the bounds are numbers), and under
the hypotheses given below, nothing else.

### MatrixEngineProofs

* `TypeCorrect`: `Spec => []TypeOK`
* `RoadDataOnly`: `Spec => []StoresHoldRoadData`
* `NeverCutShort`: `Spec => []NoCutAnswer`
* `AnswersFitTheirCells`: `Spec => []AnswerFits`

None of them is inductive. `IInv` adds, per request, `Good(r, j)`:

* `Shape`: what the control location says about the loop indices, the pending
  steps and walks and the held edge (a call in the fill stage is made for a cell
  off the diagonal, a walk is executed only if there is one, the planner is
  asked only if something is missing);
* `Sourced`: a step about to be written came from the provider, an edge held for
  promotion came from the archive, a step cut short by the deadline is an
  estimate;
* `Timely`: while the deadline has not passed, nothing in the call is marked as
  cut short; and once the fill loop is behind its last cell, no cell is, even if
  the deadline has passed since. The second half is the check at the head of
  the loop: the last cell it passes is on the diagonal, where nothing is
  bought any more.

and that the stores hold only edges from the provider. Every local step of
`Compute` is an operator from call states to call states; each has a lemma
(`AdvanceGood`, `HitGood`, `ReturnedGood`, ...) that it keeps `Good`, and the
action lemmas (`...Inv`) match each branch of an action with one of them. Of the
planner only `PlanAssumption` is used (it returns walks over the request's cells).
The bound `MaxHour <= 22` is a bound of the model, see above.

`AnswerFits` only speaks of answers sent; `FitInv` says the same, and more, of a
call at work. `Begun`: a call's slot lies between its start and the latest hour it
may be answered with. `Filed`: every entry of `segmentByPair` answers the pair it is
filed under, every filled cell answers that cell, and every pending step has an
hour the request ran through. `Pending`: the reversed lookup happens in the probe
of a request that is not strict and nowhere else (this is what keeps a strict
client from the opposite direction); in the fill stage the pending steps are for
the cell at hand; the fill loop leaves no empty cell behind it. The last part is
where a plan that leaves a cell out, or a provider that leaves a step out, is
made good: the loop buys what is missing before it moves on. Every local step has
a lemma (`...Fit`) that it keeps `Fit`, and `LaterFit` lets the hour turn.

### MatrixWriteProofs

* `WrittenThrough`: `RedisReliable => (Spec => []WriteThrough)`
* `PaysOnlyForTheAbsent`: `LooksWhereItFiles => (Spec => []NeverPaysTwice)`

`RedisReliable` says that Redis is there, takes every write that is sent in time and
evicts nothing; the provider, the archive, the queue, the other requests and the
deadline are free. `SafeInv`: while a call runs and has time, all it bought is in
Redis but for the step that is just being written. That the other requests only
ever add to Redis (`Grows`: a newer edge takes the place of one for the same cells
and slot) carries it through the interleaving.

`PaysOnlyForTheAbsent` asks nothing of Redis but to be there: it may refuse writes and
evict at will. What it asks of the request is named in section 3. `ThriftInv` says of
each call that what it counts as missing is not in Redis (in the probe), or was asked
for since (in the walks), and that the cell at hand was looked up in vain before it is
bought in the fill stage. The step to fear is a write of the call itself, or a
promotion, that puts a missing pair into Redis: a purchase is filed under the pair it
was asked for, and by `CellsApart` under no other; a promotion in the probe is for the
pair at hand, which no earlier cell stands for. It rests on `IInv` and on
`FitInv` (a strict call makes no reversed lookup).

### WiringsProofs

The two services of `engine_retries`, over any places, planner and clock:

* `RedisWrittenThrough`: `MCSpec => []RedisWriteThrough`
* `RedisPaysOnce`: `MCSpec => []RedisNeverPaysTwice`
* `EitherAnswersFit`: `MCSpec => []AnswersFit`

The first two carry the theorems of `MatrixWriteProofs` over to the service with Redis
(`RedisWiring`, an assumption of `MCWirings`, says that its constants are of the kind
these theorems are stated for; TLC evaluates it). The third takes `MatrixEngineProofs`
as an instance, `BareFacts`, with the constants of the service without Redis; `Bare` and
`BareFacts` are the same formulas, which is what `SameService` shows.

### KeyPoolProofs

For every list of keys, any number of callers, all weights and weights that change at
every pick:

* `ThrottlingIsNotDeath`: `Spec => ThrottledKeyStays`, for every `FailLimit`: the
  step that takes a key that was good out of the rotation leaves it with that many
  failures on record. The action property needs the invariant `Learned`: while a
  success is on record, no hard failure is counted since. The time of the failures (`"before"`, `"since"`) is what makes
  it inductive: a success that is forgotten takes the older failures with it.
* `DeadKeysRest`: `NoRepeats => (Spec => DeadKeyRests)`. `NoRepeats` (no key is
  named twice in the list) is needed: of a repeated key only the last item
  learns from outcomes, and the others stay in rotation. `reloadKeys` does not
  remove repetitions.
* `CreditsBalance`: `Spec => []CreditBalanced`
* `Fair`: `ClaimsWide(W) => (Spec => []FairRotation)`
* `TypeCorrect`: `ClaimsWide(W) => (Spec => []TypeOK)`

`ClaimsWide(W)` says that no weight exceeds `W` and that the claimed bounds are at least
(N - 1) * N * W for a wait and half of it for a credit. The code states no bound; these
are the ones that hold whatever the weights do. That every item is picked again cannot
be read off its own credit: other items' weights may change so that they lead again and
again. `Spread` bounds the credit of every *set* A of items, by |A| * (N - |A|) * N * W / 2:
a round adds at most one total to a set, and takes it away again if the leader is in it;
if no item of A leads, the leader has at least as much credit as each of them, so that A
cannot be near its bound. With A all items but one, a single credit is bounded from
below; and an item that is passed over gains at least one per pick at which it has a weight
(`Patience`), which bounds its wait. A weight of 0 changes neither its credit nor its
wait.

The sum of the credits (`AddUp`) is a recursive function along the list. That it exists,
is unique and adds up termwise is proved by induction up to a number: a set of numbers
with a least element that is not in it (`WFMin` of the library) leads to a contradiction
(`AlongTheList`). This is the form in which induction is used in all modules; the
library's own rule takes an operator as parameter, which the provers cannot instantiate.

### RoutePlannerProofs

For every length of a route, size of a packet, way in which the provider divides the
legs and leaves marks out, order in which the packets finish, and list of keys:

* `UsesThePool`: `Spec => Pool!Spec`. Every step of the planner is a step of the pool or
  leaves it alone; a client that goes away cuts the calls of all its packets at once.
* `OnlyCutRoutesFail`: `Spec => []FailsOnlyWhenCut`
* `PaysEachPartOnce`: `Spec => []NothingPaidTwice`
* `LegsPriced`: `Spec => []PricedByLeg`
* `LegsKeepOrder`: `Spec => []LegsInOrder`
* `TypeCorrect`: `ClaimsWide(W) => (Spec => []TypeOK)`, whose part about the pool is
  `KeyPoolProofs!TypeCorrect` (an instance, `PoolFacts`), carried over by `UsesThePool`.

`RouteInv` says that each goroutine is where its packet's state says (`Workers`), and that
a finished packet holds steps that are `Right`: for its own legs only, in their order, no
path step in two of them, and all legs with all their parts if no mark was left out.
Two lemmas carry the weight. `ToResult` reads a response path step by path step: after
each, the steps so far are for distinct legs in order (`Taken`), and with all marks they
are whole up to the last, which has the parts driven so far (`ReadUpTo`). `FlattenSeq`
puts the packets' lists behind one another: the legs of packet `k` begin where those of
`k - 1` end (`Prefix`). Both are inductions up to a number; responses and
concatenations are unrolled as recursive functions (`RecursionExists`, `FlattenJoins`).

### EdgeStoresProofs

For all clients, asks, places, distances, slots, lifetimes and queue lengths, any number
of purchases, clock jumps, cut pipelines and kills:

* `TypeCorrect`: `Spec => []TypeOK`
* `FitsServed`: `Spec => []ServedFits`
* `BuysOnce`: `Spec => []PaysOnce`
* `KeepsWhatIsBought`: `OneBuyer => (Spec => []ArchiveKeeps)`

Each rests on the one before. `IInv`: every edge in a store, in the queue or in a
client's hands is filed as its bill says, rows differ in context, cells or slot, and a lookup's
slot is one that its client asks for at some time of its call (`Current`): the clock may
jump between two lookups. `FitsServed` compares what the lookups do with what the property
allows: the slots of `AdjacentSlots` with hours that differ by 1 or wrap (`AdjacentFit`),
equal keys with contexts that agree (`DigitsAgree`, `KeyCells`), rows with equal ones
(`RowKeys`), the places of GEORADIUS with the width (`PairFits`). `Memory`: Redis keeps an edge of a bill's key and slot for as
long as the bill says (`RedisHolds`; a later `Put` of another slot into the same hash
only lengthens its life), what was bought is queued, held, filed or lost
(`ArchiveHolds`, by rows), and, `Frugal`, each lookup that failed says that what the client
bought for this key or row has expired or went missing. `InOrder`: the jobs of a row are
queued in the order of purchase, behind what is filed. `OneBuyer` (no two clients ask
for the same row, as in the run) is needed there: of two buyers the one that was first
may hand its job to the queue last.

### DensePlannerProofs

For every number of points, set of arcs, limit, window and moment of a
cancellation:

* `PlanComplete`: `Spec => []NothingToRepair`
* `PlanFit`: `Spec => []PlanCovers`, which is what `PlanAssumption` of `MatrixEngine`
  asks of a planner

  The inductive invariant:

  * `Kept`: the required arcs are those not yet loaded, those left in the graph,
    those of the trail that grows and those of the finished trails, at any time;
  * `Phases`: what each phase leaves empty for the next;
  * `Trails`: trails are walks of required arcs, no longer than the limit, and
    the one that grows ends at `at`;
  * `Routes`: routes fit, and what is packed is in a route, whole;
  * `Checked`: the validation has kept every route it looked at.

  Nothing is needed here of the heap but that it yields a vertex: its order, which
  `dense_best` shows to fail, matters for the quality of a plan only. The
  lemmas are about the swap-removal (`SwapRemoveRange`: it loses one entry and
  no other), joining walks (`Join`, `RouteExtended`) and the graph as a set of
  arcs (`ArcsAdded`, `ArcsRemoved`).

* `NoArcTwice`: `Spec => []BoughtOnce`
* `ImplementsCover`: `Spec => Cover!Safety`, the safety part of `ArcCover`.

  The invariant above says where the required arcs are, `Once` that each is in one
  place only: no list has an arc twice (`Lists`), the arcs not yet loaded, the graph,
  the trail that grows and the finished trails are disjoint (`Apart`), and routes buy
  what is packed and nothing else, each arc once (`Sold`). The step that could go wrong
  is the removal of an arc by a swap (`SwapRemoveOnce`). `CloseRoute` is the step that
  adds a walk to the abstract plan; every other step leaves it alone.

* `HeapKeepsAll`: `Spec => []HeapComplete`
* `OnlyCutLeavesArcs`: `Spec => []TrailsTakeAll`
* `TypeCorrect`: `Spec => []TypeOK`

  `HeapComplete` speaks of the moments between two trails only. `Stocked` adds what
  holds while a trail grows: the start is taken out of the heap though it has arcs, and
  it is the first removal of an arc, by `Update` of its two ends, that puts it back or
  finds it without arcs. So a trail of no arc would leave the heap short of a vertex;
  that none ends so follows from the start having arcs (`at \in Busy(out)`).

  The loops of the heap are recursive functions, and a proof must first show that such
  a function exists. All of them go on with a next state or stop: for a loop of that
  kind there is one whether or not it ends (`LoopExists`; its graph is the least
  relation the loop allows), and if it stays in a set and comes down in a measure,
  its result is that of a state in the set (`LoopEnds`). With the orders that hold the
  same vertices for the set, and the place, or its distance from the end, for the
  measure, `siftUp` and `siftDown` only rearrange (`SiftUpShuffles`,
  `SiftDownShuffles`), whatever `better` says: the order that `dense_best` shows to be
  lost is not needed for the heap to be complete. `PushHolds`, `RemoveHolds`,
  `UpdateHolds`, `NewHeapHolds` and `PopBestFirst` say what each operation makes of the
  set of vertices in the heap.

* `BoundIsLower`: `Spec => []BoundHolds`

  The bound is the largest of three quotients. `Tallied` is the invariant behind them:
  what the finished routes hold together, as arcs, as arcs and fragments, and as
  fragments, is at most `maxLegs`, `maxLegs + 1` and `(maxLegs + 1) \div 2` times their
  number; the route that is packed holds `c` fragments, whatever `c` is. `CeilDivLeast`
  turns each product into a quotient. The second and third ask for trails where the
  invariant counts fragments, so there must be as many fragments as
  `MinimumTrailCount` says (`TrailsNeeded`). This is no invariant but a fact about any
  list of walks that hold each required arc once (`Placed`, which `Once` implies). Where
  a walk does not start at a point, it enters the point before it leaves: that gives an
  injection from the arcs out of a point into the arcs into it and the walks that start
  there (`SurplusStarts`). No walk leaves the component in which it starts
  (`StaysInside`), so each component has a walk, and its own (`ComponentsOf`).
  `TotalFits` adds up: numbers that are each at most the size of a set of their own sum
  up to at most the size of the union.

### ServiceProofs

For every limit, window, set of tenants and clock:

* `LimiterCorrect`: `LimiterSpec => [](LimiterTypeOK /\ AdmissionBound /\ RefusedJustly)`
* `ServiceLimits`: the same of the composed `Spec`, through restarts: every step
  of the service is a step of the limiter, leaves it alone or starts it anew
  (`LimiterSteps`).

`AdmissionBound` is not inductive: from the log alone one cannot see which
admission opened a window. `LimiterInv` says what a counter knows about its log:
the entry `count` before the end is its `start` (`Holds`), and what lies `Limit` or
more entries before that one is a window older (`OlderWindows`), since the window
before had at most `Limit` entries and was over when this one opened. The lemmas
(`WindowOpened`, `WindowUsed`, `SpreadKept`) are about one more entry at the end of a
sequence of times in order, and know nothing of the state.

For any number of clients, capacity of the queue, restarts and outages:

* `TypeCorrect`: `Spec => []TypeOK`
* `Panicless`: `Spec => []NeverPanics`
* `Drained`: `Spec => []NothingLeftBehind`

`IInv` adds `OpenWhileServing` (the channel is open exactly while the process serves
and has a writer, and handlers run only then) and `NothingLost` (what the queue
accepted is, in this order, with the database, in the goroutine's hand or in the
channel, and once the goroutine has ended nothing is left in the last two).

### Only model-checked

The liveness part of `Implements` and all liveness properties (`Answered`, `RedisServes`, `RouteReturns`,
`RoadDataFlows`, `GoesDown`), since fairness and `ENABLED` are out of the prover's reach;
and the five properties that runs show to be violated.

## 5. Not modelled

* Coordinate conversions and the digits of coordinates (`geo/coord.go`,
  `persist/util.go`): floating-point arithmetic. `round6` truncates after adding a
  half, which is off by one digit for negative numbers; what that does to cells is
  below the model.
* Parsing of requests and of DSNs, schema migration, metrics, logging,
  statistics: no state that a property is about.
* `memory.go`, `scenario.go`, `testutil`, the scripts: doubles for tests, generators
  and tools.
* How much a lookup misses (the GEO set is never cleaned, GEORADIUS returns three
  places at most) and how old an edge may get (each `Put` into a hash extends the
  life of all its slots): the code states no bound.
* The growth of the limiter's map, which has no bound either.

## 6. Plan

What is left, in this order:

1. An abstract store (a set of versions per key, of which any may be served) that
   `EdgeStores` implements, and that `MatrixEngine` uses in place of its own.
2. Two buyers of one key in `stores`: which version wins in Redis and which in the
   archive.
