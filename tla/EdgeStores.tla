------------------------------ MODULE EdgeStores -------------------------------
(***************************************************************************)
(* Where bought road segments are kept: cache.Store over Redis             *)
(* (src/internal/cache), persist.Store over MySQL and the AsyncWriter in   *)
(* front of it (src/internal/persist), as Engine.fillPair uses them:       *)
(* lookupEdge in Redis, then in the archive with a promotion, then a       *)
(* purchase that persistEdge writes to both.                               *)
(*                                                                         *)
(* MatrixEngine takes these stores as sets of edges within one day. Here   *)
(* they have what a lookup can go wrong about: tenants, methods and        *)
(* strategies, a GEO set of all places ever written, one expiry for all    *)
(* slots of a pair, time slots that repeat every week and wrap around      *)
(* midnight, and rows found by the hour of the day. Each purchase has a    *)
(* version, so that older and newer road data can be told apart.           *)
(***************************************************************************)
EXTENDS Integers, Sequences, FiniteSets, SequencesExt

CONSTANTS
    Client,      \* goroutines in fillPair, each for a request of its own
    Asks,        \* Asks[c]: what c may ask for: pair, context, slot, strictness, radius
    Place,       \* coordinates
    GeoHash,     \* GeoHash[p]: the precision-8 cell of p
    Metres,      \* Metres[p, q]: the distance of two places
    TTL,         \* hours a hash lives after the last Put into it
    QueueCap,    \* capacity of AsyncWriter.ch
    StartHour,   \* the hour, counted from a Sunday 0:00, at which the run starts
    Jumps,       \* steps of the clock, in hours
    MaxBuys,     \* bound: how many segments are bought
    MaxFaults    \* bound: how often the clock jumps, a pipeline is cut or the process killed

VARIABLES
    redis,     \* the edges in the hashes
    expires,   \* expires[k]: when the hash k ends
    geo,       \* geo[t]: the places in the GEO set of tenant t
    rows,      \* the rows of the archive, the one updated last at the end
    queue,     \* AsyncWriter.ch
    client,    \* client[c]: the local state of fillPair
    now,       \* the wall clock in hours
    bills,     \* history: bills[v]: the purchase of version v
    lost,      \* history: the versions whose job never reached the archive
    faults     \* how many of these there were

vars == <<redis, expires, geo, rows, queue, client, now, bills, lost, faults>>

Context == UNION {{a.ctx : a \in Asks[c]} : c \in Client}
Tenant  == {x[1] : x \in Context}

\* itoa: the digits of a number, or none (-1) for any number below 0.
Digits(n) == IF n < 0 THEN -1 ELSE n

\* A context is a tenant, a method and a strategy; Redis keys have its digits.
ContextKey(x) == <<x[1], Digits(x[2]), Digits(x[3])>>

HashKey == {ContextKey(x) : x \in Context} \X {GeoHash[p] : p \in Place} \X {GeoHash[p] : p \in Place}
RowKey  == Context \X {GeoHash[p] : p \in Place} \X {GeoHash[p] : p \in Place}

\* Later than the clock ever gets: a hash without EXPIRE.
Forever == StartHour + (CHOOSE j \in Jumps : \A k \in Jumps : k <= j) * MaxFaults + TTL + 1

Apart(p, q) == Metres[<<p, q>>]

-----------------------------------------------------------------------------
(* Time slots *)

\* A slot of a day of the week and an hour; a bare hour has no day, and a client
\* that names no slot gets the current one. (The month in a slot is the same
\* all along.)
NoDay == 7
Slot  == [day : 0 .. 7, hour : 0 .. 23]
NoSlot == [day |-> NoDay, hour |-> 24]

SlotAt(t) == [day |-> (t \div 24) % 7, hour |-> t % 24]

\* AdjacentSlots: a bare hour gives way to the current slot; the hours next to
\* midnight wrap around within the same day.
AdjacentSlots(slot, t) ==
    LET s == IF slot.day = NoDay THEN SlotAt(t) ELSE slot
    IN  <<s, [s EXCEPT !.hour = (@ + 23) % 24], [s EXCEPT !.hour = (@ + 1) % 24]>>

\* The slot of a lookup that starts at t, and the slots it accepts.
SlotOf(a, t) == IF a.slot = NoSlot THEN SlotAt(t) ELSE a.slot
Fields(a, slot, t) == IF a.strict THEN <<slot>> ELSE AdjacentSlots(slot, t)

\* The element of S at the first slot of fs that has one.
FirstBySlot(S, fs) ==
    {e \in S : \E i \in DOMAIN fs : e.slot = fs[i] /\ \A k \in 1 .. i - 1 : \A x \in S : x.slot # fs[k]}

ASSUME StoresAssumption ==
    /\ \A c \in Client : \A a \in Asks[c] :
          /\ a.ctx[2] \in Int /\ a.ctx[3] \in Int
          /\ a.o \in Place /\ a.d \in Place
          /\ a.slot \in Slot \cup {NoSlot}
          /\ a.strict \in BOOLEAN /\ a.wide \in Nat \ {0}
    /\ \A p, q \in Place : Apart(p, q) \in Nat /\ Apart(p, q) = Apart(q, p) /\ Apart(p, p) = 0
    /\ \A p, q, r \in Place : q # r => Apart(p, q) # Apart(p, r)
    /\ TTL \in Nat \ {0} /\ QueueCap \in Nat \ {0} /\ StartHour \in Nat
    /\ Jumps \subseteq Nat \ {0} /\ \E j \in Jumps : \A k \in Jumps : k <= j
    /\ MaxBuys \in Nat /\ MaxFaults \in Nat

-----------------------------------------------------------------------------
(* Redis *)

\* Mutated form: all tenants share the keys of the first one.
KeyWithoutTenant(ctx, o, d) ==
    <<<<CHOOSE t \in Tenant : TRUE, Digits(ctx[2]), Digits(ctx[3])>>, GeoHash[o], GeoHash[d]>>

\* hashKey
KeyFor(ctx, o, d) == <<ContextKey(ctx), GeoHash[o], GeoHash[d]>>
KeyOf(e) == KeyFor(e.ctx, e.o, e.d)

InHash(k) == {e \in redis : KeyOf(e) = k}

\* tryHash
TryHash(a, k, slot) == FirstBySlot(InHash(k), Fields(a, slot, now))

\* GEORADIUS: the three nearest places within half the width.
Radius(a) == IF a.wide < 2 THEN 100 ELSE a.wide \div 2
Nearest(a, p) ==
    LET known == {q \in geo[a.ctx[1]] : Apart(p, q) <= Radius(a)}
    IN  {q \in known : Cardinality({x \in known : Apart(p, x) < Apart(p, q)}) < 3}

\* tryFuzzySpatial: an edge between two known places, in either direction. The
\* places come in the order of their distance to o and d, but without it
\* (GEORADIUS is not asked for distances), so every sum is 0: none is above the
\* width, and the first pair that has an edge wins.
TryFuzzySpatial(a, slot) ==
    LET There(x) == TryHash(a, KeyFor(a.ctx, x[1], x[2]), slot)
        Back(x)  == TryHash(a, KeyFor(a.ctx, x[2], x[1]), slot)
        full == {x \in Nearest(a, a.o) \X Nearest(a, a.d) : There(x) \cup Back(x) # {}}
        Before(x, y) == \/ Apart(a.o, x[1]) < Apart(a.o, y[1])
                        \/ x[1] = y[1] /\ Apart(a.d, x[2]) <= Apart(a.d, y[2])
    IN  UNION {IF There(x) # {} THEN There(x) ELSE Back(x) :
                  x \in {y \in full : \A z \in full : Before(y, z)}}

\* Put: the first n commands of a pipeline that is no transaction: GEOADD, HSET,
\* EXPIRE. (The set of keys that ZADD keeps is never read.)
Put(e, n) ==
    /\ geo' = IF n < 1 THEN geo
              ELSE [geo EXCEPT ![e.ctx[1]] =
                      {p \in @ : GeoHash[p] \notin {GeoHash[e.o], GeoHash[e.d]}}
                        \cup {p \in {e.o, e.d} : p = e.d \/ GeoHash[p] # GeoHash[e.d]}]
    /\ redis' = IF n < 2 THEN redis
                ELSE {x \in redis : ~(KeyOf(x) = KeyOf(e) /\ x.slot = e.slot)} \cup {e}
    /\ expires' = IF n < 3 THEN expires ELSE [expires EXCEPT ![KeyOf(e)] = now + TTL]
    /\ faults' = IF n = 3 THEN faults ELSE faults + 1

Commands == {3} \cup (IF faults < MaxFaults THEN 0 .. 2 ELSE {})

-----------------------------------------------------------------------------
(* The archive *)

\* The unique key of a row, but for the slot: the context's numbers as they are.
RowFor(ctx, o, d) == <<ctx, GeoHash[o], GeoHash[d]>>
RowOf(e) == RowFor(e.ctx, e.o, e.d)

SameRow(x, e) == RowOf(x) = RowOf(e) /\ x.slot = e.slot

\* Mutated form: every job adds a row.
UpsertAppend(rs, e) == Append(rs, e)

\* Mutated form: a row that exists is left as it is.
UpsertIgnore(rs, e) == IF \E i \in DOMAIN rs : SameRow(rs[i], e) THEN rs ELSE Append(rs, e)

\* Upsert: one row per context, pair of cells and slot, which is updated in place;
\* the row updated last stands at the end.
Upsert(rs, e) ==
    LET old == {i \in DOMAIN rs : SameRow(rs[i], e)}
    IN  IF old = {} THEN Append(rs, e)
        ELSE Append(RemoveAt(rs, CHOOSE i \in old : TRUE), e)

RowsOf(a) == {e \in ToSet(rows) : RowOf(e) = RowFor(a.ctx, a.o, a.d)}

GetBySlots(a, slot) == FirstBySlot(RowsOf(a), Fields(a, slot, now))

\* getByHour: the row of the same hour on whatever day that was updated last.
GetByHour(a, slot) ==
    {e \in RowsOf(a) : /\ e.slot.hour = slot.hour
                       /\ \A i, k \in DOMAIN rows : rows[i] = e /\ i < k =>
                             ~(rows[k] \in RowsOf(a) /\ rows[k].slot.hour = slot.hour)}

-----------------------------------------------------------------------------
(* fillPair *)

Nothing == [ctx |-> <<>>, o |-> "none", d |-> "none", slot |-> NoSlot, v |-> 0]

NoAsk   == [o |-> "none", d |-> "none", ctx |-> <<>>, slot |-> NoSlot, strict |-> FALSE, wide |-> 0]

\* slot: of the lookup under way; wmt: for new edges; got: the edge held, and then
\* the answer. asked and queued are history: when c asked, what was queued then.
Idle == [pc |-> "idle", ask |-> NoAsk, slot |-> NoSlot, wmt |-> NoSlot, asked |-> 0,
         queued |-> {}, got |-> Nothing]

Of(c) == client[c].ask

Go(c, r) == client' = [client EXCEPT ![c] = r]

Answer(c, e) == [Idle EXCEPT !.pc = "done", !.ask = client[c].ask, !.asked = client[c].asked, !.got = e]

Queued == {queue[i].v : i \in DOMAIN queue}

\* Compute starts: the slot for new edges is fixed (wmt).
Start(c) ==
    /\ client[c].pc = "idle"
    /\ \E a \in Asks[c] :
          Go(c, [Idle EXCEPT !.pc = "exact", !.ask = a, !.wmt = SlotOf(a, now), !.asked = now,
                             !.queued = Queued])
    /\ UNCHANGED <<redis, expires, geo, rows, queue, now, bills, lost, faults>>

\* Get, first command: the pair itself.
ExactGet(c) ==
    LET slot  == SlotOf(Of(c), now)
        found == TryHash(Of(c), KeyFor(Of(c).ctx, Of(c).o, Of(c).d), slot)
    IN
    /\ client[c].pc = "exact"
    /\ \/ \E e \in found : Go(c, Answer(c, e))
       \/ found = {} /\ Go(c, [client[c] EXCEPT !.pc = "near", !.slot = slot])
    /\ UNCHANGED <<redis, expires, geo, rows, queue, now, bills, lost, faults>>

\* The neighbourhood, then the edge of no length inside one cell.
NearGet(c) ==
    LET found == IF Of(c).strict THEN {} ELSE TryFuzzySpatial(Of(c), client[c].slot)
        zero  == [ctx |-> Of(c).ctx, o |-> Of(c).o, d |-> Of(c).d,
                  slot |-> client[c].slot, v |-> 0]
    IN
    /\ client[c].pc = "near"
    /\ \/ \E e \in found : Go(c, Answer(c, e))
       \/ /\ found = {} /\ GeoHash[Of(c).o] = GeoHash[Of(c).d]
          /\ Go(c, Answer(c, zero))
       \/ /\ found = {} /\ GeoHash[Of(c).o] # GeoHash[Of(c).d]
          /\ Go(c, [client[c] EXCEPT !.pc = "slots"])
    /\ UNCHANGED <<redis, expires, geo, rows, queue, now, bills, lost, faults>>

\* Archive.Get, first query.
SlotsGet(c) ==
    LET slot  == SlotOf(Of(c), now)
        found == GetBySlots(Of(c), slot)
    IN
    /\ client[c].pc = "slots"
    /\ \/ \E e \in found : Go(c, [client[c] EXCEPT !.pc = "promote", !.got = e, !.queued = {}])
       \/ /\ found = {}
          /\ Go(c, [client[c] EXCEPT !.pc = IF Of(c).strict THEN "buy" ELSE "hour", !.slot = slot])
    /\ UNCHANGED <<redis, expires, geo, rows, queue, now, bills, lost, faults>>

HourGet(c) ==
    LET found == GetByHour(Of(c), client[c].slot) IN
    /\ client[c].pc = "hour"
    /\ \/ \E e \in found : Go(c, [client[c] EXCEPT !.pc = "promote", !.got = e, !.queued = {}])
       \/ found = {} /\ Go(c, [client[c] EXCEPT !.pc = "buy"])
    /\ UNCHANGED <<redis, expires, geo, rows, queue, now, bills, lost, faults>>

\* The archive's edge goes to Redis, under the slot it has.
Promote(c) ==
    /\ client[c].pc = "promote"
    /\ \E n \in Commands : Put(client[c].got, n)
    /\ Go(c, Answer(c, client[c].got))
    /\ UNCHANGED <<rows, queue, now, bills, lost>>

\* Mutated form: the edge is filed under the hour in which it arrives.
FiledUnderNow(c) == SlotAt(now)

FiledUnder(c) == client[c].wmt

\* RoutePair: the provider sells the segment.
Buy(c) ==
    LET e == [ctx |-> Of(c).ctx, o |-> Of(c).o, d |-> Of(c).d,
              slot |-> FiledUnder(c), v |-> Len(bills) + 1]
    IN
    /\ client[c].pc = "buy"
    /\ Len(bills) < MaxBuys
    /\ bills' = Append(bills, [by |-> c, ctx |-> e.ctx, key |-> KeyOf(e), row |-> RowOf(e),
                               slot |-> client[c].wmt, until |-> 0])
    /\ Go(c, [client[c] EXCEPT !.pc = "put", !.got = e, !.queued = {}])
    /\ UNCHANGED <<redis, expires, geo, rows, queue, now, lost, faults>>

LifeOf(k, n) == IF n = 3 \/ now + TTL < expires[k] THEN now + TTL ELSE expires[k]

\* persistEdge, Redis; the bill notes how long the edge has to stay there: for the
\* TTL, unless the pipeline was cut before EXPIRE and the hash ends sooner.
PutEdge(c) ==
    LET e == client[c].got IN
    /\ client[c].pc = "put"
    /\ \E n \in Commands :
          /\ Put(e, n)
          /\ bills' = IF n < 2 THEN bills ELSE [bills EXCEPT ![e.v].until = LifeOf(KeyOf(e), n)]
    /\ Go(c, [client[c] EXCEPT !.pc = "enqueue"])
    /\ UNCHANGED <<rows, queue, now, lost>>

\* persistEdge, archive: EnqueueUpsert drops the job when the queue is full.
Enqueue(c) ==
    LET e == client[c].got IN
    /\ client[c].pc = "enqueue"
    /\ IF Len(queue) < QueueCap
       THEN queue' = Append(queue, e) /\ UNCHANGED lost
       ELSE lost' = lost \cup {e.v} /\ UNCHANGED queue
    /\ Go(c, Answer(c, e))
    /\ UNCHANGED <<redis, expires, geo, rows, now, bills, faults>>

\* fillPair returns.
Return(c) ==
    /\ client[c].pc = "done"
    /\ Go(c, Idle)
    /\ UNCHANGED <<redis, expires, geo, rows, queue, now, bills, lost, faults>>

Step(c) ==
    \/ ExactGet(c) \/ NearGet(c) \/ SlotsGet(c) \/ HourGet(c) \/ Promote(c)
    \/ Buy(c) \/ PutEdge(c) \/ Enqueue(c) \/ Return(c)

\* AsyncWriter.loop
Worker ==
    /\ queue # <<>>
    /\ rows' = Upsert(rows, Head(queue))
    /\ queue' = Tail(queue)
    /\ UNCHANGED <<redis, expires, geo, client, now, bills, lost, faults>>

\* Time passes, and Redis drops the hashes that have ended.
Tick ==
    /\ faults < MaxFaults
    /\ \E k \in Jumps :
          /\ now' = now + k
          /\ redis' = {e \in redis : expires[KeyOf(e)] > now + k}
          /\ expires' = [h \in HashKey |-> IF expires[h] > now + k THEN expires[h] ELSE Forever]
    /\ faults' = faults + 1
    /\ UNCHANGED <<geo, rows, queue, client, bills, lost>>

\* The process is killed: requests and queue are gone.
Crash ==
    /\ faults < MaxFaults
    /\ faults' = faults + 1
    /\ lost' = lost \cup Queued
                    \cup {client[c].got.v : c \in {x \in Client : client[x].pc \in {"put", "enqueue"}}}
    /\ queue' = <<>>
    /\ client' = [c \in Client |-> Idle]
    /\ UNCHANGED <<redis, expires, geo, rows, now, bills>>

Init ==
    /\ redis = {} /\ rows = <<>> /\ queue = <<>> /\ bills = <<>> /\ lost = {}
    /\ expires = [h \in HashKey |-> Forever]
    /\ geo = [t \in Tenant |-> {}]
    /\ client = [c \in Client |-> Idle]
    /\ now = StartHour
    /\ faults = 0

Next ==
    \/ \E c \in Client : Start(c) \/ Step(c)
    \/ Worker \/ Tick \/ Crash

Spec == Init /\ [][Next]_vars

-----------------------------------------------------------------------------
(* Properties *)

TypeOK ==
    /\ \A e \in redis : KeyOf(e) \in HashKey /\ e.slot \in Slot /\ e.v \in DOMAIN bills
    /\ \A h \in HashKey : expires[h] <= Forever
    /\ Len(queue) <= QueueCap
    /\ \A i \in DOMAIN rows : rows[i].v \in DOMAIN bills
    /\ \A i, k \in DOMAIN rows : SameRow(rows[i], rows[k]) => i = k

\* What a client gets was bought for its own tenant, method and strategy (all
\* negative numbers count as one), for places it accepts and for a time it
\* accepts, by whichever of the five ways (exact, neighbourhood, slots, hour,
\* purchase) it came and however often it was moved from the archive to Redis
\* before. Unless the client is strict,
\*   - the ends may be swapped, and each lies in the cell of a place within half
\*     the width (a width of 1 m is taken for a radius of 100 m);
\*   - the hour may be that of any day (the archive), or the next one of the same
\*     day either way. On the clock's face, that is: hours 23 and 0 of one day
\*     count as neighbours, although they are 23 hours apart.
Agree(m, n) == m = n \/ (m < 0 /\ n < 0)
SameContext(x, y) == x[1] = y[1] /\ Agree(x[2], y[2]) /\ Agree(x[3], y[3])

FitsPlace(e, a) ==
    LET Cells(x, y) == GeoHash[x] = GeoHash[e.o] /\ GeoHash[y] = GeoHash[e.d]
        Close(p, x) == 2 * Apart(p, x) <= a.wide \/ (a.wide = 1 /\ Apart(p, x) <= 100)
    IN  \/ Cells(a.o, a.d)
        \/ ~a.strict /\ \E x, y \in Place : /\ Close(a.o, x) /\ Close(a.d, y)
                                           /\ (Cells(x, y) \/ Cells(y, x))

FitsSlot(e, a, t) ==
    LET asked == SlotOf(a, t)
        ref   == IF asked.day = NoDay THEN SlotAt(t) ELSE asked
    IN  \/ e.slot = asked
        \/ ~a.strict /\ e.slot.hour = asked.hour
        \/ /\ ~a.strict
           /\ e.slot.day = ref.day /\ (e.slot.hour - ref.hour) \in {-23, -1, 0, 1, 23}

Fits(e, a, times) ==
    /\ e.v # 0 => SameContext(bills[e.v].ctx, a.ctx)
    /\ FitsPlace(e, a)
    /\ \E t \in times : FitsSlot(e, a, t)

ServedFits ==
    \A c \in Client : client[c].pc = "done" =>
        Fits(client[c].got, client[c].ask, client[c].asked .. now)

\* The slots in which a lookup for a made now would find an edge of its pair.
InRedisFor(a, slot)   == slot \in ToSet(Fields(a, SlotOf(a, now), now))
InArchiveFor(a, slot) == InRedisFor(a, slot) \/ (~a.strict /\ slot.hour = SlotOf(a, now).hour)

\* A client pays for a pair again only if it has to: what it bought before for
\* a time it accepts never reached Redis or has expired there, and never
\* reached the archive either or was still queued when it asked.
PaysOnce ==
    \A c \in Client : client[c].pc = "buy" /\ client[c].asked = now =>
        \A v \in DOMAIN bills : bills[v].by = c =>
            /\ bills[v].key = KeyFor(Of(c).ctx, Of(c).o, Of(c).d) =>
                  (InRedisFor(Of(c), bills[v].slot) => bills[v].until <= now)
            /\ bills[v].row = RowFor(Of(c).ctx, Of(c).o, Of(c).d) =>
                  (InArchiveFor(Of(c), bills[v].slot) => v \in lost \cup client[c].queued)

\* No two clients ask for the same pair of cells in the same context.
OneBuyer ==
    \A c, d \in Client : \A a \in Asks[c], b \in Asks[d] :
        RowFor(a.ctx, a.o, a.d) = RowFor(b.ctx, b.o, b.d) => c = d

\* Road data that was bought for a row and handed to the queue is in the queue
\* or in the archive, unless its job was dropped or died with the process: no
\* older job is written over it, and none is left behind (where each row has
\* one buyer: OneBuyer).
ArchiveKeeps ==
    \A v \in DOMAIN bills :
        \/ v \in lost \cup Queued
        \/ \E c \in Client : client[c].pc \in {"put", "enqueue"} /\ client[c].got.v = v
        \/ \E i \in DOMAIN rows : /\ RowOf(rows[i]) = bills[v].row
                                  /\ rows[i].slot = bills[v].slot
                                  /\ rows[i].v >= v
=============================================================================
