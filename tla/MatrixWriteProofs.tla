-------------------------- MODULE MatrixWriteProofs --------------------------
(***************************************************************************)
(* What MatrixEngine writes to Redis and finds there again. The write-     *)
(* through, for any number of concurrent requests: if Redis is there, takes*)
(* every write and evicts nothing, then between two provider calls whatever*)
(* the finished ones bought is in Redis; every other backend and the       *)
(* provider may fail at will. And what a client that is alone never buys   *)
(* again.                                                                  *)
(***************************************************************************)
EXTENDS MatrixEngineProofs

Holds(store, a, slot) == \E e \in store : Hashes(PairOf(e)) = Hashes(a) /\ e.slot = slot

\* What the provider said of s is in the store.
Saved(store, s) == s # None /\ s.src = "provider" => Holds(store, PairOf(s), s.slot)

\* The store forgets no key.
Grows(store, next) == \A a, slot : Holds(store, a, slot) => Holds(next, a, slot)

\* While a call runs and has time a bought segment is in the store, but for the one that is
\* just being written.
Safe(r, j, store) == ~j.late /\ j.pc \notin {"idle", "replied"} =>
    /\ \A a \in Arc : \/ Saved(store, j.seg[a])
                      \/ j.pc = "put" /\ j.seg[a] = j.steps[1]
    /\ \A c \in Cell(r) : Saved(store, j.cells[c])
    /\ j.pc = "enqueue" => Saved(store, j.steps[1])

\* ... and here none is being written.
Between(j) == j.pc \notin {"put", "idle", "replied"}

SafeInv == \A r \in Request : Safe(r, job[r], redis)

-----------------------------------------------------------------------------
(* Facts about the store *)

LEMMA WriteHolds ==
    ASSUME NEW store, NEW e
    PROVE  Holds(Write(store, e), PairOf(e), e.slot) /\ Grows(store, Write(store, e))
<1>1. e \in Write(store, e)
  BY DEF Write
<1>2. Holds(Write(store, e), PairOf(e), e.slot)
  BY <1>1 DEF Holds
<1>3. ASSUME NEW a, NEW slot, Holds(store, a, slot)
      PROVE  Holds(Write(store, e), a, slot)
  <2>1. PICK x \in store : Hashes(PairOf(x)) = Hashes(a) /\ x.slot = slot
    BY <1>3 DEF Holds
  <2>2. CASE Hashes(PairOf(x)) = Hashes(PairOf(e)) /\ x.slot = e.slot
    BY <1>1, <2>1, <2>2 DEF Holds
  <2>3. CASE ~(Hashes(PairOf(x)) = Hashes(PairOf(e)) /\ x.slot = e.slot)
    <3>1. x \in Write(store, e)
      BY <2>1, <2>3 DEF Write
    <3> QED
      BY <2>1, <3>1 DEF Holds
  <2> QED
    BY <2>2, <2>3
<1> QED
  BY <1>2, <1>3 DEF Grows

LEMMA GrowsSafe ==
    ASSUME NEW r, NEW j, NEW store, NEW next, Safe(r, j, store), Grows(store, next)
    PROVE  Safe(r, j, next)
<1>1. \A s : Saved(store, s) => Saved(next, s)
  BY DEF Saved, Grows
<1> QED
  BY <1>1 DEF Safe

\* An edge read from a store is marked as cached, so nothing is claimed of it.
LEMMA CachedSaved ==
    ASSUME NEW store, NEW e \in RoadEdge
    PROVE  Saved(store, Cached(e))
<1>1. Cached(e).src = "cache"
  BY Zenon DEF Cached, RoadEdge, Segment
<1> QED
  BY <1>1 DEF Saved

-----------------------------------------------------------------------------
(* The local steps *)

\* A step that buys and writes nothing.
LEMMA SameSafe ==
    ASSUME NEW r, NEW j, NEW store, Safe(r, j, store), Between(j),
           NEW a, a.seg = j.seg, a.cells = j.cells, ~a.late => ~j.late,
           a.pc \notin {"put", "enqueue"}
    PROVE  Safe(r, a, store)
BY DEF Safe, Between

LEMMA AnswerSafe ==
    ASSUME NEW r, NEW j \in Job(r), NEW store, Safe(r, j, store), Between(j), NEW code
    PROVE  Safe(r, Answer(j, code), store)
<1> DEFINE a == Answer(j, code)
<1>1. a.seg = j.seg /\ a.cells = j.cells /\ a.late = j.late /\ a.pc = "replied"
  BY Zenon DEF Answer, Job
<1> HIDE DEF a
<1> QED
  BY <1>1, SameSafe DEF a

LEMMA AdvanceSafe ==
    ASSUME NEW r, NEW j \in Job(r), NEW store, Safe(r, j, store), Between(j)
    PROVE  Safe(r, Advance(r, j), store)
<1> DEFINE a == Advance(r, j)
<1>1. a.seg = j.seg /\ a.cells = j.cells /\ a.late = j.late /\ a.pc = "next"
  BY Zenon DEF Advance, Job
<1> HIDE DEF a
<1> QED
  BY <1>1, SameSafe DEF a

LEMMA SetCellSafe ==
    ASSUME NEW r \in Request, NEW j \in Job(r), NEW store, Safe(r, j, store), Between(j),
           j.row <= N(r), j.col <= N(r),
           NEW s \in Segment, ~j.late => Saved(store, s)
    PROVE  Safe(r, SetCell(r, j, s), store)
<1> DEFINE f == [j.cells EXCEPT ![Here(j)] = s]
           a == [j EXCEPT !.cells = f]
<1>0. /\ f \in [Cell(r) -> Segment \cup {None}]
      /\ \A c \in Cell(r) : f[c] = (IF c = Here(j) THEN s ELSE j.cells[c])
  BY PairAtType DEF Job
<1>1. SetCell(r, j, s) = Advance(r, a)
  BY DEF SetCell
<1> HIDE DEF f
<1>2. a \in Job(r)
  BY <1>0, Zenon DEF Job
<1>3. a.seg = j.seg /\ a.cells = f /\ a.late = j.late /\ a.pc = j.pc /\ a.steps = j.steps
  BY Zenon DEF Job
<1> HIDE DEF a
<1>4. Safe(r, a, store)
  BY <1>0, <1>3 DEF Safe
<1> QED
  BY <1>1, <1>2, <1>3, <1>4, AdvanceSafe DEF Between

LEMMA HitSafe ==
    ASSUME NEW r \in Request, NEW j, Good(r, j), j.pc \in Lookup,
           NEW store, Safe(r, j, store), NEW s \in Segment, Saved(store, s)
    PROVE  Safe(r, Hit(r, j, s), store)
<1>0. /\ j \in Job(r) /\ j.row <= N(r) /\ j.col <= N(r) /\ Between(j)
      /\ j.stage \in {"probe", "fill"}
  BY DEF Good, Shape, Job, Lookup, Between
<1>1. CASE j.stage = "fill"
  BY <1>0, <1>1, SetCellSafe DEF Hit
<1>2. CASE j.stage = "probe"
  <2> DEFINE f == [j.seg EXCEPT ![Key(r, j)] = s]
             a == [j EXCEPT !.seg = f]
  <2>0. f \in [Arc -> Segment \cup {None}]
        /\ \A c \in Arc : f[c] = (IF c = Key(r, j) THEN s ELSE j.seg[c])
    BY <1>0, PairAtType DEF Job
  <2>1. Hit(r, j, s) = Advance(r, a)
    BY <1>2 DEF Hit
  <2> HIDE DEF f
  <2>2. a \in Job(r)
    BY <1>0, <2>0, Zenon DEF Job
  <2>3. a.seg = f /\ a.cells = j.cells /\ a.late = j.late /\ a.pc = j.pc /\ a.steps = j.steps
    BY <1>0, Zenon DEF Job
  <2> HIDE DEF a
  <2>4. Safe(r, a, store)
    BY <1>0, <2>0, <2>3 DEF Safe
  <2> QED
    BY <1>0, <2>1, <2>2, <2>3, <2>4, AdvanceSafe DEF Between
<1> QED
  BY <1>0, <1>1, <1>2

LEMMA MissedSafe ==
    ASSUME NEW r \in Request, NEW j, Good(r, j), j.pc \in Lookup, NEW store, Safe(r, j, store)
    PROVE  Safe(r, Missed(r, j), store)
<1> DEFINE m == j.miss \cup {Here(j)}
           a == [j EXCEPT !.miss = m]
           b == [j EXCEPT !.pc = "call"]
           c == [j EXCEPT !.pc = "redis", !.rev = TRUE]
<1>0. j \in Job(r) /\ j.row <= N(r) /\ j.col <= N(r) /\ Between(j)
      /\ j.stage \in {"probe", "fill"} /\ j.row # j.col
  BY DEF Good, Shape, Job, Lookup, Between
<1>1. /\ b.seg = j.seg /\ b.cells = j.cells /\ b.late = j.late /\ b.pc = "call"
      /\ c.seg = j.seg /\ c.cells = j.cells /\ c.late = j.late /\ c.pc = "redis"
  BY <1>0, Zenon DEF Job
<1>2. m \in SUBSET OffDiagonal(r)
  <2>1. Here(j) \in OffDiagonal(r)
    BY <1>0, PairAtType DEF OffDiagonal, Here
  <2>2. j.miss \in SUBSET OffDiagonal(r)
    BY <1>0 DEF Job
  <2> QED
    BY <2>1, <2>2
<1> HIDE DEF m, b, c
<1>3. /\ a \in Job(r) /\ a.pc = j.pc /\ a.steps = j.steps
      /\ a.seg = j.seg /\ a.cells = j.cells /\ a.late = j.late
  BY <1>0, <1>2, Zenon DEF Job
<1> HIDE DEF a
<1>4. Safe(r, b, store) /\ Safe(r, c, store)
  BY <1>0, <1>1, SameSafe
<1>5. Safe(r, a, store)
  BY <1>3 DEF Safe
<1>6. Safe(r, Advance(r, a), store)
  BY <1>0, <1>3, <1>5, AdvanceSafe DEF Between
<1> QED
  BY <1>4, <1>6 DEF Missed, a, b, c, m

\* The first pending step has been dealt with; in the fill it goes to its cell.
LEMMA AbsorbedSafe ==
    ASSUME NEW r \in Request, NEW j, Good(r, j), j.pc \in {"absorb", "enqueue"}, j.steps # <<>>,
           NEW store, Safe(r, j, store), ~j.late => Saved(store, j.steps[1])
    PROVE  Safe(r, Absorbed(r, j), store)
<1>0. /\ j \in Job(r) /\ j.stage \in {"walk", "fill"} /\ <<>> \in Seq(Segment)
      /\ Head(j.steps) = j.steps[1] /\ j.steps[1] \in Segment /\ Between(j)
  BY DEF Good, Shape, Buying, Job, Between
<1>1. CASE j.stage = "fill"
  <2> DEFINE a == [j EXCEPT !.steps = <<>>]
  <2>1. /\ a \in Job(r) /\ a.pc = j.pc /\ a.row = j.row /\ a.col = j.col
        /\ a.seg = j.seg /\ a.cells = j.cells /\ a.late = j.late
    BY <1>0, Zenon DEF Job
  <2>2. Absorbed(r, j) = Advance(r, [a EXCEPT !.cells[Here(a)] = j.steps[1]])
    BY <1>0, <1>1 DEF Absorbed, SetCell
  <2> DEFINE f == [j.cells EXCEPT ![Here(j)] = j.steps[1]]
             b == [j EXCEPT !.steps = <<>>, !.cells = f]
  <2>3. [a EXCEPT !.cells[Here(a)] = j.steps[1]] = b
    <3>1. Here(a) = Here(j)
      BY <2>1 DEF Here
    <3> QED
      BY <2>1, <3>1
  <2>4. j.row <= N(r) /\ j.col <= N(r)
    BY <1>1 DEF Good, Shape, Buying
  <2>5. /\ f \in [Cell(r) -> Segment \cup {None}]
        /\ \A c \in Cell(r) : f[c] = (IF c = Here(j) THEN j.steps[1] ELSE j.cells[c])
    BY <1>0, <2>4, PairAtType DEF Job
  <2> HIDE DEF a, f
  <2>6. /\ b \in Job(r) /\ b.seg = j.seg /\ b.cells = f /\ b.late = j.late /\ b.pc = j.pc
    BY <1>0, <2>5, Zenon DEF Job
  <2> HIDE DEF b
  <2> DEFINE d == Advance(r, b)
  <2>7. d.seg = b.seg /\ d.cells = b.cells /\ d.late = b.late /\ d.pc = "next"
    BY <2>6, Zenon DEF Advance, Job
  <2>8. Absorbed(r, j) = d
    BY <2>2, <2>3
  <2> HIDE DEF d
  <2>9. Safe(r, d, store)
    BY <1>0, <2>5, <2>6, <2>7 DEF Safe
  <2> QED
    BY <2>8, <2>9
<1>2. CASE j.stage = "walk"
  <2> DEFINE q == Tail(j.steps)
             a == [j EXCEPT !.pc = "absorb", !.steps = q]
  <2>1. Absorbed(r, j) = a
    BY <1>2 DEF Absorbed
  <2>2. a.seg = j.seg /\ a.cells = j.cells /\ a.late = j.late /\ a.pc = "absorb"
    BY <1>0, Zenon DEF Job
  <2> HIDE DEF a
  <2> QED
    BY <1>0, <2>1, <2>2, SameSafe
<1> QED
  BY <1>0, <1>1, <1>2

-----------------------------------------------------------------------------
(* The invariant *)

\* One call moves to a safe state while the store at most grows.
LEMMA DoSafe ==
    ASSUME IInv, SafeInv, NEW r \in Request, \E j : Safe(r, j, redis') /\ Do(r, j),
           Grows(redis, redis')
    PROVE  SafeInv'
<1>1. \A q \in Request : Safe(q, job[q], redis')
  BY GrowsSafe DEF SafeInv
<1> QED
  BY <1>1 DEF SafeInv, IInv, Do

LEMMA StandSafe ==
    ASSUME IInv, SafeInv, NEW r \in Request, \E j : Safe(r, j, redis) /\ Do(r, j),
           redis' = redis
    PROVE  SafeInv'
BY DoSafe DEF Grows

LEMMA InitSafe == Init => SafeInv
<1> SUFFICES ASSUME Init, NEW r \in Request PROVE Safe(r, job[r], redis)
  BY DEF SafeInv
<1>1. job[r] = [Fresh(r, 0) EXCEPT !.pc = "idle"]
  BY DEF Init
<1>2. job[r].pc = "idle"
  BY <1>1, Zenon DEF Fresh
<1> QED
  BY <1>2 DEF Safe

LEMMA SubmitSafe ==
    ASSUME IInv, SafeInv, NEW r \in Request, Submit(r)
    PROVE  SafeInv'
<1> DEFINE a == Fresh(r, Wmt(r))
           b == Answer(a, "400")
<1>1. /\ a.pc = "next" /\ \A x \in Arc : a.seg[x] = None
      /\ \A c \in Cell(r) : a.cells[c] = None
      /\ b.pc = "replied" /\ \A x \in Arc : b.seg[x] = None
      /\ \A c \in Cell(r) : b.cells[c] = None
  BY Zenon DEF Fresh, Answer
<1> HIDE DEF a, b
<1>2. Safe(r, a, redis) /\ Safe(r, b, redis)
  BY <1>1 DEF Safe, Saved
<1>3. \E k : Safe(r, k, redis) /\ Do(r, k)
  BY <1>2 DEF Submit, a, b
<1> QED
  BY <1>3, StandSafe DEF Submit, stores

\* The steps that only move the control.
LEMMA ControlSafe ==
    ASSUME NEW r \in Request, NEW j, Good(r, j), NEW store, Safe(r, j, store), Between(j)
    PROVE  /\ \A p \in {"redis", "archive", "plan", "call", "next"} : Safe(r, [j EXCEPT !.pc = p], store)
           /\ Safe(r, StartFill(j), store)
           /\ Safe(r, TimedOut(j), store)
           /\ Safe(r, LookupFailed(j), store)
           /\ Safe(r, Advance(r, j), store)
           /\ \A e : Safe(r, [j EXCEPT !.pc = "promote", !.held = e], store)
           /\ \A w : Safe(r, [j EXCEPT !.pc = "next", !.stage = "walk", !.walks = w], store)
           /\ \A q : Safe(r, Returned(r, j, q), store)
<1>0. j \in Job(r)
  BY DEF Good
<1>1. ASSUME NEW p \in {"redis", "archive", "plan", "call", "next"}
      PROVE  Safe(r, [j EXCEPT !.pc = p], store)
  <2> DEFINE a == [j EXCEPT !.pc = p]
  <2>1. a.seg = j.seg /\ a.cells = j.cells /\ a.late = j.late /\ a.pc = p
    BY <1>0, Zenon DEF Job
  <2> HIDE DEF a
  <2> QED
    BY <2>1, SameSafe DEF a
<1>2. Safe(r, StartFill(j), store)
  <2> DEFINE a == StartFill(j)
  <2>1. a.seg = j.seg /\ a.cells = j.cells /\ a.late = j.late /\ a.pc = "next"
    BY <1>0, Zenon DEF StartFill, Job
  <2> HIDE DEF a
  <2> QED
    BY <2>1, SameSafe DEF a
<1>3. Safe(r, TimedOut(j), store) /\ Safe(r, LookupFailed(j), store)
  BY <1>0, AnswerSafe DEF TimedOut, LookupFailed
<1>4. Safe(r, Advance(r, j), store)
  BY <1>0, AdvanceSafe
<1>5. ASSUME NEW e PROVE Safe(r, [j EXCEPT !.pc = "promote", !.held = e], store)
  <2> DEFINE a == [j EXCEPT !.pc = "promote", !.held = e]
  <2>1. a.seg = j.seg /\ a.cells = j.cells /\ a.late = j.late /\ a.pc = "promote"
    BY <1>0, Zenon DEF Job
  <2> HIDE DEF a
  <2> QED
    BY <2>1, SameSafe DEF a
<1>6. ASSUME NEW w
      PROVE  Safe(r, [j EXCEPT !.pc = "next", !.stage = "walk", !.walks = w], store)
  <2> DEFINE a == [j EXCEPT !.pc = "next", !.stage = "walk", !.walks = w]
  <2>1. a.seg = j.seg /\ a.cells = j.cells /\ a.late = j.late /\ a.pc = "next"
    BY <1>0, Zenon DEF Job
  <2> HIDE DEF a
  <2> QED
    BY <2>1, SameSafe DEF a
<1>7. ASSUME NEW q PROVE Safe(r, Returned(r, j, q), store)
  <2> DEFINE a == Returned(r, j, q)
  <2>1. a.seg = j.seg /\ a.cells = j.cells /\ a.late = j.late /\ a.pc = "absorb"
    BY <1>0, Zenon DEF Returned, Job
  <2> HIDE DEF a
  <2> QED
    BY <2>1, SameSafe DEF a
<1> QED
  BY <1>1, <1>2, <1>3, <1>4, <1>5, <1>6, <1>7

\* The actions that neither write to Redis nor take a bought segment on.
LEMMA QuietSafe ==
    ASSUME IInv, SafeInv, NEW r \in Request,
           ProbeNext(r) \/ MakePlan(r) \/ WalkNext(r) \/ CallReturns(r)
    PROVE  SafeInv'
<1> DEFINE j == job[r]
<1>0. /\ Good(r, j) /\ Safe(r, j, redis) /\ Between(j) /\ redis' = redis
  BY DEF IInv, SafeInv, ProbeNext, MakePlan, WalkNext, CallReturns, stores, Between
<1>1. CASE ProbeNext(r)
  <2>1. \E k : Safe(r, k, redis) /\ Do(r, k)
    BY <1>0, <1>1, ControlSafe DEF ProbeNext
  <2> QED
    BY <1>0, <2>1, StandSafe
<1>2. CASE MakePlan(r)
  <2>1. \E k : Safe(r, k, redis) /\ Do(r, k)
    BY <1>0, <1>2, ControlSafe DEF MakePlan
  <2> QED
    BY <1>0, <2>1, StandSafe
<1>3. CASE WalkNext(r)
  <2>1. \E k : Safe(r, k, redis) /\ Do(r, k)
    BY <1>0, <1>3, ControlSafe DEF WalkNext
  <2> QED
    BY <1>0, <2>1, StandSafe
<1>4. CASE CallReturns(r)
  <2>1. \E k : Safe(r, k, redis) /\ Do(r, k)
    BY <1>0, <1>4, ControlSafe DEF CallReturns
  <2> QED
    BY <1>0, <2>1, StandSafe
<1> QED
  BY <1>1, <1>2, <1>3, <1>4

LEMMA RedisGetSafe ==
    ASSUME IInv, SafeInv, NEW r \in Request, RedisGet(r)
    PROVE  SafeInv'
<1> DEFINE j == job[r]
           a == Key(r, j)
           exact == Found(redis, r, Hashes(a), LookupSlot(r))
           fuzzy == Fuzzy(r, Hashes(a), LookupSlot(r))
           zero == [o |-> a[1], d |-> a[2], slot |-> LookupSlot(r),
                    src |-> "cache", late |-> FALSE]
<1>0. /\ Good(r, j) /\ Safe(r, j, redis) /\ j.pc = "redis" /\ j.pc \in Lookup /\ Between(j)
      /\ a \in Arc /\ LookupSlot(r) \in Hour
  <2>1. Good(r, job[r]) /\ Safe(r, job[r], redis) /\ job[r].pc = "redis"
    BY DEF IInv, SafeInv, RedisGet
  <2>2. job[r] \in Job(r) /\ job[r].row <= N(r) /\ job[r].col <= N(r)
    BY <2>1 DEF Good, Shape, Lookup
  <2>3. LookupSlot(r) \in Hour
    BY RequestAssumption DEF LookupSlot, IInv
  <2> QED
    BY <2>1, <2>2, <2>3, PairAtType DEF Lookup, Between
<1> HIDE DEF a
<1>1. Safe(r, [j EXCEPT !.pc = "archive"], redis) /\ Safe(r, LookupFailed(j), redis)
  BY <1>0, ControlSafe
<1>2. \A e \in exact \cup fuzzy : Safe(r, Hit(r, j, Cached(e)), redis)
  <2>1. \A e \in exact \cup fuzzy : e \in RoadEdge
    BY FoundInStore, FuzzyInRedis DEF IInv
  <2> HIDE DEF exact, fuzzy
  <2> QED
    BY <1>0, <2>1, CachedEdge, CachedSaved, HitSafe
<1>3. Safe(r, Hit(r, j, zero), redis)
  <2>1. a[1] \in Place /\ a[2] \in Place
    BY <1>0 DEF Arc
  <2>2. zero \in Segment /\ zero.src = "cache"
    BY <1>0, <2>1, Zenon DEF Segment
  <2> HIDE DEF zero
  <2> QED
    BY <1>0, <2>2, HitSafe DEF Saved
<1> HIDE DEF exact, fuzzy, zero
<1>4. \E k : Safe(r, k, redis) /\ Do(r, k)
  BY <1>1, <1>2, <1>3 DEF RedisGet, exact, fuzzy, zero, a
<1> QED
  BY <1>4, StandSafe DEF RedisGet, stores

LEMMA ArchiveGetSafe ==
    ASSUME IInv, SafeInv, NEW r \in Request, ArchiveGet(r)
    PROVE  SafeInv'
<1> DEFINE j == job[r]
<1>0. Good(r, j) /\ Safe(r, j, redis) /\ j.pc = "archive" /\ j.pc \in Lookup /\ Between(j)
  BY DEF IInv, SafeInv, ArchiveGet, Lookup, Between
<1>1. \E k : Safe(r, k, redis) /\ Do(r, k)
  BY <1>0, MissedSafe, ControlSafe DEF ArchiveGet
<1> QED
  BY <1>1, StandSafe DEF ArchiveGet, stores

\* A write of Redis that is not refused.
LEMMA RedisPutHolds ==
    ASSUME RedisReliable, NEW j, NEW e, RedisPut(j, e)
    PROVE  Grows(redis, redis') /\ (~j.late => Holds(redis', PairOf(e), e.slot))
<1>1. Grows(redis, redis)
  BY DEF Grows
<1> QED
  BY <1>1, WriteHolds DEF RedisPut, RedisReliable

LEMMA PromoteSafe ==
    ASSUME RedisReliable, IInv, SafeInv, NEW r \in Request, Promote(r)
    PROVE  SafeInv'
<1> DEFINE j == job[r]
<1>0. /\ Good(r, j) /\ Safe(r, j, redis) /\ j.pc = "promote" /\ j.pc \in Lookup
      /\ j.held \in RoadEdge
  BY DEF IInv, SafeInv, Promote, Lookup, Good, Shape, Sourced
<1>1. Grows(redis, redis')
  BY RedisPutHolds DEF Promote
<1>2. Safe(r, j, redis')
  BY <1>0, <1>1, GrowsSafe
<1>3. Safe(r, Hit(r, j, Cached(j.held)), redis')
  BY <1>0, <1>2, CachedEdge, CachedSaved, HitSafe
<1> QED
  BY <1>1, <1>3, DoSafe DEF Promote

\* A step of a walk is filed, and written next; an estimate needs no writing.
LEMMA AbsorbSafe ==
    ASSUME IInv, SafeInv, NEW r \in Request, Absorb(r)
    PROVE  SafeInv'
<1> DEFINE j == job[r]
           s == Head(j.steps)
           k == IF j.stage = "walk" THEN [j EXCEPT !.seg[PairOf(s)] = s] ELSE j
           p == [k EXCEPT !.pc = "put"]
<1>0. Good(r, j) /\ Safe(r, j, redis) /\ j.pc = "absorb" /\ j \in Job(r) /\ redis' = redis
  BY DEF IInv, SafeInv, Absorb, Good, stores
<1>1. CASE j.steps = <<>>
  BY <1>0, <1>1, ControlSafe, StandSafe DEF Absorb, Between
<1>2. CASE j.steps # <<>>
  <2>1. /\ s = j.steps[1] /\ s \in Segment /\ j.steps[1].src # "cache"
    BY <1>0, <1>2 DEF Good, Job, Sourced, StepsSourced
  <2>2. s.src \in {"provider", "cache", "fallback"} /\ s.o \in Place /\ s.d \in Place
    BY <2>1, Zenon DEF Segment
  <2>3. PairOf(s) \in Arc
    BY <2>2 DEF PairOf, Arc
  <2> HIDE DEF s
  <2>4. /\ Good(r, k) /\ k.pc = "absorb" /\ k.steps = j.steps /\ k.cells = j.cells
        /\ k.late = j.late /\ k \in Job(r)
        /\ \A a \in Arc : k.seg[a] = j.seg[a] \/ k.seg[a] = s
    <3>1. CASE j.stage = "walk"
      <4> DEFINE f == [j.seg EXCEPT ![PairOf(s)] = s]
      <4>1. k = [j EXCEPT !.seg = f]
        BY <3>1
      <4>2. Good(r, k)
        BY <1>0, <1>2, <3>1, AbsorbSegGood DEF s
      <4>3. \A a \in Arc : f[a] = j.seg[a] \/ f[a] = s
        BY <1>0, <2>3 DEF Job
      <4> HIDE DEF f, k
      <4>4. /\ k.pc = j.pc /\ k.steps = j.steps /\ k.cells = j.cells /\ k.late = j.late
            /\ k.seg = f
        BY <1>0, <4>1, Zenon DEF Job
      <4> QED
        BY <1>0, <4>2, <4>3, <4>4 DEF Good
    <3>2. CASE j.stage # "walk"
      BY <1>0, <3>2
    <3> QED
      BY <3>1, <3>2
  <2> HIDE DEF k
  <2>5. CASE Durable(s)
    <3>1. /\ p.pc = "put" /\ p.seg = k.seg /\ p.cells = k.cells /\ p.late = k.late
          /\ p.steps = k.steps
      BY <2>4, Zenon DEF Job
    <3> HIDE DEF p
    <3>2. Safe(r, p, redis)
      BY <1>0, <2>1, <2>4, <3>1 DEF Safe
    <3>3. Do(r, p)
      BY <1>2, <2>5 DEF Absorb, k, p, s
    <3> QED
      BY <1>0, <3>2, <3>3, StandSafe
  <2>6. CASE ~Durable(s)
    <3>1. Saved(redis, s)
      BY <2>6 DEF Durable, Saved
    <3>2. Safe(r, k, redis)
      BY <1>0, <2>4, <3>1 DEF Safe
    <3>3. Safe(r, Absorbed(r, k), redis)
      BY <1>2, <2>1, <2>4, <3>1, <3>2, AbsorbedSafe
    <3>4. Do(r, Absorbed(r, k))
      BY <1>2, <2>6 DEF Absorb, k, s
    <3> QED
      BY <1>0, <3>3, <3>4, StandSafe
  <2> QED
    BY <2>5, <2>6
<1> QED
  BY <1>1, <1>2

\* The write-through: what was filed last reaches Redis.
LEMMA PutEdgeSafe ==
    ASSUME RedisReliable, IInv, SafeInv, NEW r \in Request, PutEdge(r)
    PROVE  SafeInv'
<1> DEFINE j == job[r]
           b == j.banked \/ redis' # redis
           a == [j EXCEPT !.pc = "enqueue", !.banked = b]
<1>0. /\ Good(r, j) /\ Safe(r, j, redis) /\ j.pc = "put" /\ j \in Job(r)
      /\ Head(j.steps) = j.steps[1]
  <2>1. Good(r, job[r]) /\ Safe(r, job[r], redis) /\ job[r].pc = "put"
    BY DEF IInv, SafeInv, PutEdge
  <2>2. job[r] \in Job(r) /\ job[r].steps # <<>> /\ job[r].steps \in Seq(Segment)
    BY <2>1 DEF Good, Shape, Job
  <2> QED
    BY <2>1, <2>2
<1>1. Grows(redis, redis') /\ (~j.late => Saved(redis', j.steps[1]))
  BY <1>0, RedisPutHolds DEF PutEdge, Saved
<1>2. Safe(r, j, redis')
  BY <1>0, <1>1, GrowsSafe
<1>3. /\ a.pc = "enqueue" /\ a.seg = j.seg /\ a.cells = j.cells /\ a.late = j.late
      /\ a.steps = j.steps
  BY <1>0, Zenon DEF Job
<1>4. Do(r, a)
  BY DEF PutEdge
<1> HIDE DEF a, j
<1>5. Safe(r, a, redis')
  BY <1>0, <1>1, <1>2, <1>3 DEF Safe
<1> QED
  BY <1>1, <1>4, <1>5, DoSafe

LEMMA EnqueueSafe ==
    ASSUME IInv, SafeInv, NEW r \in Request, Enqueue(r)
    PROVE  SafeInv'
<1> DEFINE j == job[r]
<1>0. Good(r, j) /\ Safe(r, j, redis) /\ j.pc = "enqueue" /\ j.steps # <<>>
  BY DEF IInv, SafeInv, Enqueue, Good, Shape
<1>1. Safe(r, Absorbed(r, j), redis)
  BY <1>0, AbsorbedSafe DEF Safe
<1> QED
  BY <1>1, StandSafe DEF Enqueue

LEMMA FillNextSafe ==
    ASSUME IInv, SafeInv, NEW r \in Request, FillNext(r)
    PROVE  SafeInv'
<1> DEFINE j == job[r]
           a == PairAt(r, j)
<1>0. /\ Good(r, j) /\ Safe(r, j, redis) /\ j.pc = "next" /\ Between(j) /\ j \in Job(r)
      /\ j.col <= N(r) /\ j.row \in Nat /\ N(r) \in Nat
  BY NType DEF IInv, SafeInv, FillNext, Good, Shape, Job, Between
<1>1. Safe(r, Answer(j, "200"), redis)
  BY <1>0, AnswerSafe
<1>2. /\ Safe(r, TimedOut(j), redis) /\ Safe(r, Advance(r, j), redis)
      /\ Safe(r, [j EXCEPT !.pc = "redis"], redis)
  BY <1>0, ControlSafe
<1>3. ~Over(r, j) => \A x \in {a, Swap(a)} :
          j.seg[x] # None => Safe(r, SetCell(r, j, j.seg[x]), redis)
  <2> SUFFICES ASSUME ~Over(r, j), NEW x \in {a, Swap(a)}, j.seg[x] # None
               PROVE  Safe(r, SetCell(r, j, j.seg[x]), redis)
    OBVIOUS
  <2>1. j.row <= N(r)
    BY <1>0 DEF Over
  <2>2. x \in Arc
    BY <1>0, <2>1, PairAtType DEF Swap, Arc
  <2>3. j.seg[x] \in Segment /\ (~j.late => Saved(redis, j.seg[x]))
    BY <1>0, <2>2 DEF Job, Safe
  <2> QED
    BY <1>0, <2>1, <2>3, SetCellSafe
<1> HIDE DEF a
<1>4. \E k : Safe(r, k, redis) /\ Do(r, k)
  BY <1>1, <1>2, <1>3 DEF FillNext, a
<1> QED
  BY <1>4, StandSafe DEF FillNext, stores

LEMMA ExpireSafe ==
    ASSUME IInv, SafeInv, NEW r \in Request, Expire(r)
    PROVE  SafeInv'
<1> DEFINE a == [job[r] EXCEPT !.late = TRUE]
<1>1. a.late
  BY Zenon DEF IInv, Good, Job
<1>2. Safe(r, a, redis)
  BY <1>1 DEF Safe
<1> QED
  BY <1>2, StandSafe DEF Expire, stores

LEMMA CrashSafe ==
    ASSUME IInv, SafeInv, Crash
    PROVE  SafeInv'
<1>1. \A r \in Request : job'[r] = (IF Running(r) THEN Answer(job[r], "dropped") ELSE job[r])
  BY DEF Crash
<1>2. \A r \in Request : Safe(r, job'[r], redis)
  <2> SUFFICES ASSUME NEW r \in Request PROVE Safe(r, job'[r], redis)
    OBVIOUS
  <2>1. Good(r, job[r]) /\ Safe(r, job[r], redis)
    BY DEF IInv, SafeInv
  <2>2. Answer(job[r], "dropped").pc = "replied"
    BY <2>1, Zenon DEF Answer, Good, Job
  <2>3. Safe(r, Answer(job[r], "dropped"), redis)
    BY <2>2 DEF Safe
  <2> QED
    BY <1>1, <2>1, <2>3
<1> QED
  BY <1>2 DEF Crash, SafeInv

LEMMA NextSafe == RedisReliable /\ IInv /\ SafeInv /\ [Next]_vars => SafeInv'
<1> SUFFICES ASSUME RedisReliable, IInv, SafeInv, [Next]_vars PROVE SafeInv'
  OBVIOUS
<1>1. ASSUME NEW r \in Request, Submit(r) \/ Step(r) \/ Expire(r)
      PROVE  SafeInv'
  BY <1>1, SubmitSafe, QuietSafe, RedisGetSafe, ArchiveGetSafe, PromoteSafe, AbsorbSafe,
     PutEdgeSafe, EnqueueSafe, FillNextSafe, ExpireSafe DEF Step
<1>2. CASE ArchiveWorker \/ Tick \/ UNCHANGED vars
  BY <1>2 DEF ArchiveWorker, Tick, stores, vars, SafeInv
<1>3. CASE \E a \in Arc : Evict(Hashes(a))
  BY <1>3 DEF Evict, RedisReliable
<1>4. CASE Crash
  BY <1>4, CrashSafe
<1> QED
  BY <1>1, <1>2, <1>3, <1>4 DEF Next

-----------------------------------------------------------------------------
(* The theorem *)

LEMMA SafeSuffices == SafeInv => WriteThrough
<1> SUFFICES ASSUME SafeInv,
                    NEW r \in Request, job[r].pc \in {"next", "call"}, ~job[r].late,
                    NEW s \in {job[r].seg[a] : a \in Arc} \cup {job[r].cells[c] : c \in Cell(r)},
                    s # None, s.src = "provider"
             PROVE  InRedis(PairOf(s), s.slot)
  BY DEF WriteThrough
<1>1. Safe(r, job[r], redis)
  BY DEF SafeInv
<1>2. Saved(redis, s)
  BY <1>1 DEF Safe
<1> QED
  BY <1>2 DEF Saved, Holds, InRedis

\* Between two provider calls everything the finished calls of an attempt bought
\* is in Redis, for any number of concurrent requests and whatever the provider,
\* the archive and its queue do: a deadline or a crash at that point loses no
\* purchase. RedisReliable is needed: persistEdge ignores the error of a Put,
\* and an edge may expire at any time.
THEOREM WrittenThrough == ASSUME RedisReliable PROVE Spec => []WriteThrough
<1>1. IInv /\ SafeInv /\ [Next]_vars => SafeInv'
  BY NextSafe
<1>2. Spec => []SafeInv
  BY InitSafe, <1>1, Invariance, PTL DEF Spec
<1> QED
  BY <1>2, SafeSuffices, PTL

-----------------------------------------------------------------------------
(* Nothing is paid twice: a client that is alone, names its slot and has Redis *)
(* buys no pair that Redis holds. Redis may refuse writes and evict at will.   *)

Absent(r, j, c, store) == ~Holds(store, CellPair(r, c), j.start)

\* The call has a step for the pair from the provider, or an estimate.
Asked(s) == s # None /\ s.src # "cache"

\* The cell at hand was looked up in Redis, in vain.
Looked(j) == j.rev \/ j.pc = "archive" \/ (j.pc = "call" /\ j.stage = "fill")

\* What is missing is absent from Redis, or was asked for since.
Thrifty(r, j, store) == j.pc \notin {"idle", "replied"} =>
    /\ j.stage = "probe" => \A c \in j.miss : Absent(r, j, c, store) /\ Before(c, j)
    /\ j.stage = "walk" =>
          \A c \in j.miss : Absent(r, j, c, store) \/ Asked(j.seg[CellPair(r, c)])
    /\ j.stage = "walk" /\ j.pc = "put" => Asked(j.seg[PairOf(j.steps[1])])
    /\ j.pc = "plan" => j.stage = "probe"
    /\ j.pc = "promote" => UseArchive
    /\ Looked(j) => Absent(r, j, Here(j), store)

ThriftInv == \A r \in Request : Thrifty(r, job[r], redis)

-----------------------------------------------------------------------------
(* The local steps *)

LEMMA OverThrifty ==
    ASSUME NEW r, NEW j, NEW store, j.pc \in {"idle", "replied"}
    PROVE  Thrifty(r, j, store)
BY DEF Thrifty

\* In the fill nothing is asked of a call but for the cell at hand.
LEMMA FillThrifty ==
    ASSUME NEW r, NEW j, NEW store, j.stage = "fill", j.pc \notin {"plan", "promote"}, ~Looked(j)
    PROVE  Thrifty(r, j, store)
BY DEF Thrifty

LEMMA SteadyThrifty ==
    ASSUME NEW r, NEW j, NEW store, Thrifty(r, j, store), j.pc \notin {"idle", "replied"},
           NEW k, k.stage = j.stage, k.miss = j.miss, k.seg = j.seg, k.start = j.start,
           k.row = j.row, k.col = j.col,
           ~(k.stage = "walk" /\ k.pc = "put"), k.pc = "promote" => UseArchive,
           k.pc = "plan" => k.stage = "probe",
           Looked(k) => Absent(r, j, Here(j), store)
    PROVE  Thrifty(r, k, store)
BY DEF Thrifty, Absent, Before, Here

LEMMA AdvanceThrifty ==
    ASSUME NEW r \in Request, NEW j \in Job(r), NEW store,
           j.stage \in {"probe", "fill"}, j.row <= N(r), j.col <= N(r),
           j.stage = "probe" => \A c \in j.miss : /\ Absent(r, j, c, store)
                                                  /\ Before(c, j) \/ c = Here(j)
    PROVE  Thrifty(r, Advance(r, j), store)
<1> DEFINE a == Advance(r, j)
           x == IF j.col = N(r) THEN j.row + 1 ELSE j.row
           y == IF j.col = N(r) THEN 1 ELSE j.col + 1
<1>0. /\ j.row \in 1 .. N(r) /\ j.col \in 1 .. N(r) /\ N(r) \in Nat
      /\ j.miss \subseteq OffDiagonal(r)
  BY NType DEF Job
<1>1. a = [j EXCEPT !.pc = "next", !.rev = FALSE, !.held = None, !.row = x, !.col = y]
  BY DEF Advance
<1>2. \A c \in Cell(r) : Before(c, j) \/ c = Here(j) => c[1] < x \/ (c[1] = x /\ c[2] < y)
  BY <1>0 DEF Before, Here, Cell
<1> HIDE DEF x, y, a
<1>3. /\ a.pc = "next" /\ a.row = x /\ a.col = y /\ a.rev = FALSE
      /\ a.miss = j.miss /\ a.start = j.start /\ a.stage = j.stage
  BY <1>1, Zenon DEF Job
<1>4. \A c \in j.miss : c \in Cell(r)
  BY <1>0 DEF OffDiagonal
<1>5. ~Looked(a)
  BY <1>3 DEF Looked
<1>6. j.stage = "probe" => \A c \in j.miss : Absent(r, a, c, store) /\ Before(c, a)
  BY <1>2, <1>3, <1>4 DEF Absent, Before
<1> QED
  BY <1>3, <1>5, <1>6 DEF Thrifty, a

\* In the probe and in the fill, a call that goes on to the next cell.
LEMMA OnThrifty ==
    ASSUME NEW r \in Request, NEW j \in Job(r), NEW store, Thrifty(r, j, store),
           j.pc \notin {"idle", "replied"},
           j.stage \in {"probe", "fill"}, j.row <= N(r), j.col <= N(r)
    PROVE  Thrifty(r, Advance(r, j), store)
BY AdvanceThrifty DEF Thrifty

LEMMA SetCellThrifty ==
    ASSUME NEW r \in Request, NEW j \in Job(r), NEW store, j.stage = "fill", NEW s
    PROVE  Thrifty(r, SetCell(r, j, s), store)
<1> DEFINE a == SetCell(r, j, s)
<1>1. a.pc = "next" /\ a.stage = "fill" /\ a.rev = FALSE
  BY Zenon DEF SetCell, Advance, Job
<1> HIDE DEF a
<1> QED
  BY <1>1, FillThrifty DEF Looked, a

LEMMA HitThrifty ==
    ASSUME NEW r \in Request, NEW j, Good(r, j), NEW store, NEW s \in Segment,
           j.pc \in Lookup,
           j.stage = "probe" => \A c \in j.miss : Absent(r, j, c, store) /\ Before(c, j)
    PROVE  Thrifty(r, Hit(r, j, s), store)
<1>0. /\ j \in Job(r) /\ j.row <= N(r) /\ j.col <= N(r) /\ j.stage \in {"probe", "fill"}
  BY DEF Good, Shape, Job, Lookup
<1>1. CASE j.stage = "fill"
  BY <1>0, <1>1, SetCellThrifty DEF Hit
<1>2. CASE j.stage = "probe"
  <2> DEFINE f == [j.seg EXCEPT ![Key(r, j)] = s]
             a == [j EXCEPT !.seg = f]
  <2>0. f \in [Arc -> Segment \cup {None}]
    BY <1>0, PairAtType DEF Job
  <2>1. Hit(r, j, s) = Advance(r, a)
    BY <1>2 DEF Hit
  <2> HIDE DEF f
  <2>2. a \in Job(r)
    BY <1>0, <2>0, Zenon DEF Job
  <2>3. /\ a.stage = j.stage /\ a.row = j.row /\ a.col = j.col
        /\ a.miss = j.miss /\ a.start = j.start
    BY <1>0, Zenon DEF Job
  <2> HIDE DEF a
  <2>4. \A c \in a.miss : Absent(r, a, c, store) /\ Before(c, a)
    BY <1>2, <2>3 DEF Absent, Before
  <2> QED
    BY <1>0, <2>1, <2>2, <2>3, <2>4, AdvanceThrifty
<1> QED
  BY <1>0, <1>1, <1>2

LEMMA MissedThrifty ==
    ASSUME NEW r \in Request, NEW j, Good(r, j), NEW store, Thrifty(r, j, store), j.pc = "archive"
    PROVE  Thrifty(r, Missed(r, j), store)
<1> DEFINE m == j.miss \cup {Here(j)}
           a == [j EXCEPT !.miss = m]
           b == [j EXCEPT !.pc = "call"]
           d == [j EXCEPT !.pc = "redis", !.rev = TRUE]
<1>0. /\ j \in Job(r) /\ j.row <= N(r) /\ j.col <= N(r) /\ j.row # j.col
      /\ j.stage \in {"probe", "fill"}
      /\ Absent(r, j, Here(j), store)
  BY DEF Good, Shape, Job, Lookup, Thrifty, Looked
<1>1. /\ b.stage = j.stage /\ b.miss = j.miss /\ b.seg = j.seg /\ b.start = j.start
      /\ b.row = j.row /\ b.col = j.col /\ b.pc = "call"
      /\ d.stage = j.stage /\ d.miss = j.miss /\ d.seg = j.seg /\ d.start = j.start
      /\ d.row = j.row /\ d.col = j.col /\ d.pc = "redis"
  BY <1>0, Zenon DEF Job
<1>2. m \in SUBSET OffDiagonal(r)
  <2>1. Here(j) \in OffDiagonal(r)
    BY <1>0, PairAtType DEF OffDiagonal, Here
  <2>2. j.miss \in SUBSET OffDiagonal(r)
    BY <1>0 DEF Job
  <2> QED
    BY <2>1, <2>2
<1> HIDE DEF b, d
<1>3. Thrifty(r, b, store) /\ Thrifty(r, d, store)
  BY <1>0, <1>1, SteadyThrifty
<1>4. j.stage = "probe" => Thrifty(r, Advance(r, a), store)
  <2> SUFFICES ASSUME j.stage = "probe" PROVE Thrifty(r, Advance(r, a), store)
    OBVIOUS
  <2> HIDE DEF m
  <2>1. /\ a \in Job(r) /\ a.stage = j.stage /\ a.row = j.row /\ a.col = j.col
        /\ a.miss = m /\ a.start = j.start
    BY <1>0, <1>2, Zenon DEF Job
  <2> HIDE DEF a
  <2>2. \A c \in m : Absent(r, j, c, store) /\ (Before(c, j) \/ c = Here(j))
    BY <1>0 DEF m, Thrifty
  <2>3. \A c \in a.miss : Absent(r, a, c, store) /\ (Before(c, a) \/ c = Here(a))
    BY <2>1, <2>2 DEF Absent, Before, Here
  <2> QED
    BY <1>0, <2>1, <2>3, AdvanceThrifty
<1> QED
  BY <1>0, <1>3, <1>4 DEF Missed, a, b, d, m

\* The steps that only move the control.
LEMMA ControlThrifty ==
    ASSUME NEW r \in Request, NEW j, Good(r, j), NEW store, Thrifty(r, j, store),
           j.pc \notin {"idle", "replied"}, ~j.rev
    PROVE  /\ \A p \in {"redis", "next", "absorb"} : Thrifty(r, [j EXCEPT !.pc = p], store)
           /\ j.stage = "probe" => Thrifty(r, [j EXCEPT !.pc = "plan"], store)
           /\ Thrifty(r, StartFill(j), store)
           /\ j.stage = "walk" => Thrifty(r, [j EXCEPT !.pc = "call"], store)
           /\ \A code : Thrifty(r, Answer(j, code), store)
<1>0. j \in Job(r)
  BY DEF Good
<1>1. ASSUME NEW p \in {"redis", "plan", "next", "absorb", "call"}, p = "call" => j.stage = "walk",
             p = "plan" => j.stage = "probe"
      PROVE  Thrifty(r, [j EXCEPT !.pc = p], store)
  <2> DEFINE a == [j EXCEPT !.pc = p]
  <2>1. /\ a.stage = j.stage /\ a.miss = j.miss /\ a.seg = j.seg /\ a.start = j.start
        /\ a.row = j.row /\ a.col = j.col /\ a.pc = p /\ a.rev = j.rev
    BY <1>0, Zenon DEF Job
  <2> HIDE DEF a
  <2>2. ~Looked(a)
    BY <1>1, <2>1 DEF Looked
  <2> QED
    BY <1>1, <2>1, <2>2, SteadyThrifty DEF a
<1>2. Thrifty(r, StartFill(j), store)
  <2> DEFINE a == StartFill(j)
  <2>1. a.pc = "next" /\ a.stage = "fill" /\ a.rev = j.rev
    BY <1>0, Zenon DEF Job, StartFill
  <2> HIDE DEF a
  <2>2. ~Looked(a)
    BY <2>1 DEF Looked
  <2> QED
    BY <2>1, <2>2, FillThrifty DEF a
<1>3. ASSUME NEW code PROVE Thrifty(r, Answer(j, code), store)
  <2>1. Answer(j, code).pc = "replied"
    BY <1>0, Zenon DEF Answer, Job
  <2> QED
    BY <2>1, OverThrifty
<1> QED
  BY <1>1, <1>2, <1>3

-----------------------------------------------------------------------------
(* The actions *)

\* The one call moves; the store may have changed with it.
LEMMA DoThrifty ==
    ASSUME IInv, OneClient, NEW r \in Request, \E j : Thrifty(r, j, redis') /\ Do(r, j)
    PROVE  ThriftInv'
<1>1. \A q \in Request : q = r
  BY DEF OneClient
<1> QED
  BY <1>1 DEF ThriftInv, IInv, Do

\* An eviction makes nothing present.
LEMMA EvictThrifty ==
    ASSUME ThriftInv, NEW h, Evict(h)
    PROVE  ThriftInv'
<1>1. job' = job /\ \A a, slot : Holds(redis', a, slot) => Holds(redis, a, slot)
  BY DEF Evict, Holds
<1> QED
  BY <1>1 DEF ThriftInv, Thrifty, Absent

LEMMA SubmitThrifty ==
    ASSUME IInv, OneClient, ThriftInv, NEW r \in Request, Submit(r)
    PROVE  ThriftInv'
<1> DEFINE a == Fresh(r, Wmt(r))
           b == Answer(a, "400")
<1>1. /\ a.pc = "next" /\ a.stage = "probe" /\ a.rev = FALSE /\ a.miss = {} /\ b.pc = "replied"
  BY Zenon DEF Fresh, Answer
<1> HIDE DEF a, b
<1>2. Thrifty(r, a, redis') /\ Thrifty(r, b, redis')
  BY <1>1, OverThrifty DEF Thrifty, Looked
<1>3. \E k : Thrifty(r, k, redis') /\ Do(r, k)
  BY <1>2 DEF Submit, a, b
<1> QED
  BY <1>3, DoThrifty

LEMMA QuietThrifty ==
    ASSUME IInv, FitInv, OneClient, ThriftInv, NEW r \in Request,
           ProbeNext(r) \/ MakePlan(r) \/ WalkNext(r)
    PROVE  ThriftInv'
<1> DEFINE j == job[r]
<1>0. /\ Good(r, j) /\ Thrifty(r, j, redis) /\ redis' = redis
      /\ j.pc \in {"next", "plan"} /\ ~j.rev /\ j \in Job(r)
      /\ j.col <= N(r) /\ N(r) \in Nat
  BY NType DEF IInv, FitInv, ThriftInv, Fit, Pending, Lookup, ProbeNext, MakePlan, WalkNext, stores,
     Good, Shape, Job
<1>1. CASE ProbeNext(r)
  <2>1. ~Over(r, j) => j.row <= N(r)
    BY <1>0 DEF Over, Job
  <2>2. ~Over(r, j) => Thrifty(r, Advance(r, j), redis)
    BY <1>0, <1>1, <2>1, OnThrifty DEF ProbeNext
  <2>3. \E k : Thrifty(r, k, redis) /\ Do(r, k)
    BY <1>0, <1>1, <2>2, ControlThrifty DEF ProbeNext, TimedOut
  <2> QED
    BY <1>0, <2>3, DoThrifty
<1>2. CASE MakePlan(r)
  <2> DEFINE a == [j EXCEPT !.pc = "next", !.stage = "walk", !.walks = Plan(N(r), j.miss)]
  <2>0. j.pc = "plan" /\ j.stage = "probe"
    BY <1>0, <1>2 DEF MakePlan, Thrifty
  <2>1. /\ a.pc = "next" /\ a.stage = "walk" /\ a.rev = j.rev /\ a.miss = j.miss
        /\ a.start = j.start
    BY <1>0, Zenon DEF Job
  <2>2. \A c \in a.miss : Absent(r, a, c, redis)
    BY <1>0, <2>0, <2>1 DEF Thrifty, Absent
  <2>3. Do(r, IF j.late THEN TimedOut(j) ELSE a)
    BY <1>2 DEF MakePlan
  <2> HIDE DEF a
  <2>4. Thrifty(r, a, redis)
    BY <1>0, <2>1, <2>2 DEF Thrifty, Looked
  <2>5. \E k : Thrifty(r, k, redis) /\ Do(r, k)
    BY <1>0, <2>3, <2>4, ControlThrifty DEF TimedOut
  <2> QED
    BY <1>0, <2>5, DoThrifty
<1>3. CASE WalkNext(r)
  <2>1. \E k : Thrifty(r, k, redis) /\ Do(r, k)
    BY <1>0, <1>3, ControlThrifty DEF WalkNext, TimedOut
  <2> QED
    BY <1>0, <2>1, DoThrifty
<1> QED
  BY <1>1, <1>2, <1>3

\* A step per leg comes back: what was looked up, and what is missing, stay.
LEMMA CallReturnsThrifty ==
    ASSUME IInv, FitInv, OneClient, ThriftInv, NEW r \in Request, CallReturns(r)
    PROVE  ThriftInv'
<1> DEFINE j == job[r]
<1>0. /\ Good(r, j) /\ Thrifty(r, j, redis) /\ redis' = redis
      /\ j.pc = "call" /\ ~j.rev /\ j \in Job(r) /\ j.stage \in {"walk", "fill"}
  BY DEF IInv, FitInv, ThriftInv, Fit, Pending, Lookup, CallReturns, stores, Good, Shape, Buying, Job
<1>1. ASSUME NEW steps PROVE Thrifty(r, Returned(r, j, steps), redis)
  <2> DEFINE a == Returned(r, j, steps)
  <2>1. /\ a.pc = "absorb" /\ a.stage = j.stage /\ a.rev = j.rev /\ a.miss = j.miss
        /\ a.start = j.start /\ a.seg = j.seg
    BY <1>0, Zenon DEF Job, Returned
  <2> HIDE DEF a
  <2>2. ~Looked(a)
    BY <1>0, <2>1 DEF Looked
  <2> QED
    BY <1>0, <2>1, <2>2 DEF Thrifty, Absent, a
<1>2. Thrifty(r, TimedOut(j), redis)
  BY <1>0, ControlThrifty DEF TimedOut
<1>3. \E k : Thrifty(r, k, redis) /\ Do(r, k)
  BY <1>1, <1>2 DEF CallReturns
<1> QED
  BY <1>0, <1>3, DoThrifty

\* An exact lookup that finds nothing: the pair is absent.
LEMMA NotFoundAbsent ==
    ASSUME NEW r, NEW store, NEW a, NEW s, Found(store, r, Hashes(a), s) = {}
    PROVE  ~Holds(store, a, s)
<1> SUFFICES ASSUME NEW e \in store, Hashes(PairOf(e)) = Hashes(a), e.slot = s PROVE FALSE
  BY DEF Holds
<1>1. 1 \in DOMAIN SlotsTried(r, s) /\ SlotsTried(r, s)[1] = s
  BY DEF SlotsTried
<1>2. 1 .. 1 - 1 = {}
  OBVIOUS
<1> QED
  BY <1>1, <1>2 DEF Found

LEMMA RedisGetThrifty ==
    ASSUME IInv, FitInv, LooksWhereItFiles, ThriftInv, NEW r \in Request, RedisGet(r)
    PROVE  ThriftInv'
<1> DEFINE j == job[r]
           a == Key(r, j)
           exact == Found(redis, r, Hashes(a), LookupSlot(r))
           fuzzy == Fuzzy(r, Hashes(a), LookupSlot(r))
           zero == [o |-> a[1], d |-> a[2], slot |-> LookupSlot(r),
                    src |-> "cache", late |-> FALSE]
           b == [j EXCEPT !.pc = "archive"]
<1>0. /\ Good(r, j) /\ Thrifty(r, j, redis) /\ j.pc = "redis" /\ j.pc \in Lookup
      /\ a \in Arc /\ LookupSlot(r) \in Hour /\ LookupSlot(r) = j.start
      /\ j \in Job(r) /\ redis' = redis
  <2>1. Good(r, job[r]) /\ Thrifty(r, job[r], redis) /\ job[r].pc = "redis" /\ redis' = redis
    BY DEF IInv, ThriftInv, RedisGet, stores
  <2>2. job[r] \in Job(r) /\ job[r].row <= N(r) /\ job[r].col <= N(r)
    BY <2>1 DEF Good, Shape, Lookup
  <2>3. LookupSlot(r) \in Hour
    BY RequestAssumption DEF LookupSlot, IInv
  <2>4. LookupSlot(r) = job[r].start
    BY <2>1 DEF LookupSlot, LooksWhereItFiles, FitInv, Fit, Begun
  <2> QED
    BY <2>1, <2>2, <2>3, <2>4, PairAtType DEF Lookup
<1>p. j.stage = "probe" => \A c \in j.miss : Absent(r, j, c, redis) /\ Before(c, j)
  BY <1>0 DEF Thrifty
<1>1. Thrifty(r, LookupFailed(j), redis)
  <2>1. \A code : Answer(j, code).pc = "replied"
    BY <1>0, Zenon DEF Answer, Job
  <2> QED
    BY <2>1, OverThrifty DEF LookupFailed
<1>2. \A e \in exact \cup fuzzy : Thrifty(r, Hit(r, j, Cached(e)), redis)
  <2>1. \A e \in exact \cup fuzzy : e \in RoadEdge
    BY FoundInStore, FuzzyInRedis DEF IInv
  <2> HIDE DEF exact, fuzzy, a, j
  <2> QED
    BY <1>0, <1>p, <2>1, CachedEdge, HitThrifty
<1>3. Thrifty(r, Hit(r, j, zero), redis)
  <2>1. a[1] \in Place /\ a[2] \in Place
    BY <1>0 DEF Arc
  <2> HIDE DEF a
  <2>2. zero \in Segment
    BY <1>0, <2>1, Zenon DEF Segment
  <2> HIDE DEF zero, j
  <2> QED
    BY <1>0, <1>p, <2>2, HitThrifty
<1>4. exact = {} => Thrifty(r, b, redis)
  <2> SUFFICES ASSUME exact = {} PROVE Thrifty(r, b, redis)
    OBVIOUS
  <2>1. ~Holds(redis, a, j.start)
    BY <1>0, NotFoundAbsent
  <2>2. Absent(r, j, Here(j), redis)
    <3>1. CASE j.rev
      BY <1>0, <3>1 DEF Thrifty, Looked
    <3>2. CASE ~j.rev
      BY <2>1, <3>2 DEF Absent, Key, CellPair, PairAt, Here
    <3> QED
      BY <3>1, <3>2
  <2>3. /\ b.stage = j.stage /\ b.miss = j.miss /\ b.seg = j.seg /\ b.start = j.start
        /\ b.row = j.row /\ b.col = j.col /\ b.pc = "archive"
    BY <1>0, Zenon DEF Job
  <2> HIDE DEF b, j
  <2> QED
    BY <1>0, <2>2, <2>3, SteadyThrifty
<1> HIDE DEF exact, fuzzy, zero, b
<1>5. \E k : Thrifty(r, k, redis) /\ Do(r, k)
  BY <1>1, <1>2, <1>3, <1>4 DEF RedisGet, LooksWhereItFiles, exact, fuzzy, zero, a, b
<1> QED
  BY <1>0, <1>5, DoThrifty DEF LooksWhereItFiles

LEMMA ArchiveGetThrifty ==
    ASSUME IInv, OneClient, ThriftInv, NEW r \in Request, ArchiveGet(r)
    PROVE  ThriftInv'
<1> DEFINE j == job[r]
<1>0. /\ Good(r, j) /\ Thrifty(r, j, redis) /\ j.pc = "archive" /\ j \in Job(r) /\ redis' = redis
      /\ j.stage \in {"probe", "fill"}
  BY DEF IInv, ThriftInv, ArchiveGet, stores, Good, Shape, Lookup, Job
<1>1. Thrifty(r, LookupFailed(j), redis)
  <2>1. \A code : Answer(j, code).pc = "replied"
    BY <1>0, Zenon DEF Answer, Job
  <2> QED
    BY <2>1, OverThrifty DEF LookupFailed
<1>2. ASSUME NEW e, UseArchive PROVE Thrifty(r, [j EXCEPT !.pc = "promote", !.held = e], redis)
  <2> DEFINE a == [j EXCEPT !.pc = "promote", !.held = e]
  <2>1. /\ a.stage = j.stage /\ a.miss = j.miss /\ a.seg = j.seg /\ a.start = j.start
        /\ a.row = j.row /\ a.col = j.col /\ a.pc = "promote"
    BY <1>0, Zenon DEF Job
  <2>2. Absent(r, j, Here(j), redis)
    BY <1>0 DEF Thrifty, Looked
  <2> HIDE DEF a, j
  <2> QED
    BY <1>0, <1>2, <2>1, <2>2, SteadyThrifty DEF a
<1>3. Thrifty(r, Missed(r, j), redis)
  BY <1>0, MissedThrifty
<1>4. \E k : Thrifty(r, k, redis) /\ Do(r, k)
  BY <1>1, <1>2, <1>3 DEF ArchiveGet
<1> QED
  BY <1>0, <1>4, DoThrifty

\* What a write of e makes present is e's own pair.
LEMMA WriteAdds ==
    ASSUME CellsApart, NEW store, NEW e \in Segment, NEW a \in Arc, NEW slot,
           Holds(Write(store, e), a, slot), ~Holds(store, a, slot)
    PROVE  PairOf(e) = a
<1>1. PICK x \in Write(store, e) : Hashes(PairOf(x)) = Hashes(a) /\ x.slot = slot
  BY DEF Holds
<1>2. x = e
  BY <1>1 DEF Write, Holds
<1>3. PairOf(e) = <<e.o, e.d>> /\ e.o \in Place /\ e.d \in Place
  BY Zenon DEF PairOf, Segment
<1>4. a = <<a[1], a[2]>> /\ a[1] \in Place /\ a[2] \in Place
  BY DEF Arc
<1>5. GeoHash[e.o] = GeoHash[a[1]] /\ GeoHash[e.d] = GeoHash[a[2]]
  BY <1>1, <1>2, <1>3 DEF Hashes
<1> QED
  BY <1>3, <1>4, <1>5 DEF CellsApart

LEMMA CellPairArc == \A r \in Request : \A c \in OffDiagonal(r) : CellPair(r, c) \in Arc
BY PointType DEF CellPair, Arc, OffDiagonal, Cell

LEMMA PromoteThrifty ==
    ASSUME IInv, FitInv, LooksWhereItFiles, ThriftInv, NEW r \in Request, Promote(r)
    PROVE  ThriftInv'
<1> DEFINE j == job[r]
           e == j.held
<1>0. /\ Good(r, j) /\ Fit(r, j, hour) /\ Thrifty(r, j, redis) /\ j.pc = "promote" /\ j \in Job(r)
      /\ e \in RoadEdge /\ RedisPut(j, e)
  BY DEF IInv, FitInv, ThriftInv, Promote, Good, Shape, Sourced
<1>1. j.pc \in Lookup /\ j.row <= N(r) /\ j.col <= N(r)
      /\ j.row \in 1 .. N(r) /\ j.col \in 1 .. N(r)
  BY <1>0, NType DEF Lookup, Good, Shape, Job
<1>2. Cached(e) \in Segment /\ e \in Segment
  BY <1>0, CachedEdge DEF RoadEdge
<1>3. ASSUME j.stage = "probe", NEW c \in j.miss
      PROVE  Absent(r, j, c, redis') /\ Before(c, j)
  <2>1. Absent(r, j, c, redis) /\ Before(c, j) /\ UseArchive
    BY <1>0, <1>3 DEF Thrifty
  <2>2. r \in Strict /\ PointsDiffer /\ CellsApart
    BY <2>1 DEF LooksWhereItFiles
  <2>3. c \in OffDiagonal(r) /\ CellPair(r, c) \in Arc
    BY <1>0, CellPairArc DEF Job
  <2>4. ASSUME Holds(redis', CellPair(r, c), j.start) PROVE FALSE
    <3>1. redis' = Write(redis, e)
      BY <1>0, <2>1, <2>4 DEF RedisPut, Absent
    <3>2. PairOf(e) = CellPair(r, c)
      BY <1>2, <2>1, <2>2, <2>3, <2>4, <3>1, WriteAdds DEF Absent
    <3>3. e # None /\ j.rev = FALSE
      BY <1>0, <1>2, <2>2, NoneIsNoSegment DEF Fit, Pending, Job
    <3>4. Hashes(PairOf(e)) = Hashes(PairAt(r, j))
      BY <1>0, <2>2, <3>3 DEF Fit, Pending, FitsPair, PairFits, Key
    <3>5. Waypoints[r][j.row] \in Place /\ Waypoints[r][j.col] \in Place
      BY <1>1, PointType
    <3>6. c \in Cell(r) /\ c[1] \in 1 .. N(r) /\ c[2] \in 1 .. N(r)
      BY <2>3 DEF OffDiagonal, Cell
    <3>7. Waypoints[r][c[1]] \in Place /\ Waypoints[r][c[2]] \in Place
      BY <3>6, PointType
    <3>8. /\ GeoHash[Waypoints[r][c[1]]] = GeoHash[Waypoints[r][j.row]]
          /\ GeoHash[Waypoints[r][c[2]]] = GeoHash[Waypoints[r][j.col]]
      BY <3>2, <3>4 DEF Hashes, CellPair, PairAt
    <3>9. c[1] = j.row /\ c[2] = j.col
      BY <1>1, <2>2, <3>5, <3>6, <3>7, <3>8 DEF CellsApart, PointsDiffer
    <3> QED
      BY <1>1, <2>1, <3>9 DEF Before
  <2> QED
    BY <2>1, <2>4 DEF Absent
<1> HIDE DEF j, e
<1>4. Thrifty(r, Hit(r, j, Cached(e)), redis')
  BY <1>0, <1>1, <1>2, <1>3, HitThrifty
<1>5. Do(r, Hit(r, j, Cached(e)))
  BY DEF Promote, j, e
<1> QED
  BY <1>4, <1>5, DoThrifty DEF LooksWhereItFiles

\* In the fill, a step goes to its cell; on a walk the call goes on to the next.
LEMMA AbsorbedThrifty ==
    ASSUME NEW r \in Request, NEW j \in Job(r), j.stage \in {"walk", "fill"}, ~j.rev, NEW store,
           j.stage = "walk" =>
               \A c \in j.miss : Absent(r, j, c, store) \/ Asked(j.seg[CellPair(r, c)])
    PROVE  Thrifty(r, Absorbed(r, j), store)
<1>1. CASE j.stage = "fill"
  <2> DEFINE a == [j EXCEPT !.steps = <<>>]
  <2>0. <<>> \in Seq(Segment)
    OBVIOUS
  <2>1. a.stage = "fill"
    BY <1>1, Zenon DEF Job
  <2>2. a \in Job(r)
    BY <2>0, Zenon DEF Job
  <2> HIDE DEF a
  <2> QED
    BY <1>1, <2>1, <2>2, SetCellThrifty DEF Absorbed, a
<1>2. CASE j.stage = "walk"
  <2> DEFINE a == [j EXCEPT !.pc = "absorb", !.steps = Tail(@)]
  <2>1. /\ a.stage = "walk" /\ a.miss = j.miss /\ a.seg = j.seg /\ a.start = j.start
        /\ a.pc = "absorb" /\ a.rev = FALSE
    BY <1>2, Zenon DEF Job
  <2>2. Absorbed(r, j) = a
    BY <1>2 DEF Absorbed
  <2> HIDE DEF a
  <2> QED
    BY <1>2, <2>1, <2>2 DEF Thrifty, Looked, Absent
<1> QED
  BY <1>1, <1>2

LEMMA AbsorbThrifty ==
    ASSUME IInv, FitInv, OneClient, ThriftInv, NEW r \in Request, Absorb(r)
    PROVE  ThriftInv'
<1> DEFINE j == job[r]
           s == Head(j.steps)
           k == IF j.stage = "walk" THEN [j EXCEPT !.seg[PairOf(s)] = s] ELSE j
           p == [k EXCEPT !.pc = "put"]
<1>0. /\ Good(r, j) /\ Thrifty(r, j, redis) /\ j.pc = "absorb" /\ j \in Job(r) /\ redis' = redis
      /\ j.stage \in {"walk", "fill"} /\ j.rev = FALSE
  BY DEF IInv, FitInv, Fit, Pending, Lookup, ThriftInv, Absorb, Good, Shape, Buying, Job, stores
<1>1. CASE j.steps = <<>>
  <2>1. Thrifty(r, [j EXCEPT !.pc = "next"], redis)
    BY <1>0, ControlThrifty
  <2>2. Do(r, [j EXCEPT !.pc = "next"])
    BY <1>1 DEF Absorb
  <2> QED
    BY <1>0, <2>1, <2>2, DoThrifty
<1>2. CASE j.steps # <<>>
  <2>1. /\ s = j.steps[1] /\ s \in Segment /\ s.src # "cache"
    BY <1>0, <1>2 DEF Good, Job, Sourced, StepsSourced
  <2>2. Asked(s)
    BY <2>1, NoneIsNoSegment DEF Asked
  <2>3. PairOf(s) \in Arc
    <3>1. s.o \in Place /\ s.d \in Place
      BY <2>1, Zenon DEF Segment
    <3> QED
      BY <3>1 DEF PairOf, Arc
  <2> HIDE DEF s
  <2>4. /\ k \in Job(r) /\ k.stage = j.stage /\ k.steps = j.steps /\ k.rev = FALSE
        /\ k.miss = j.miss /\ k.start = j.start
        /\ j.stage = "walk" => k.seg[PairOf(s)] = s
        /\ \A a \in Arc : k.seg[a] = j.seg[a] \/ k.seg[a] = s
    <3>1. CASE j.stage = "walk"
      <4> DEFINE f == [j.seg EXCEPT ![PairOf(s)] = s]
      <4>1. k = [j EXCEPT !.seg = f]
        BY <3>1
      <4>2. f \in [Arc -> Segment \cup {None}]
        BY <1>0, <2>1, <2>3 DEF Job
      <4>3. f[PairOf(s)] = s /\ \A a \in Arc : f[a] = j.seg[a] \/ f[a] = s
        BY <1>0, <2>3 DEF Job
      <4> HIDE DEF f, k
      <4>4. /\ k \in Job(r) /\ k.stage = j.stage /\ k.steps = j.steps /\ k.rev = j.rev
            /\ k.miss = j.miss /\ k.start = j.start /\ k.seg = f
        BY <1>0, <4>1, <4>2, Zenon DEF Job
      <4> QED
        BY <1>0, <4>3, <4>4
    <3>2. CASE j.stage # "walk"
      BY <1>0, <3>2
    <3> QED
      BY <3>1, <3>2
  <2>5. ASSUME k.stage = "walk", NEW c \in k.miss
        PROVE  Absent(r, k, c, redis) \/ Asked(k.seg[CellPair(r, c)])
    <3>1. CellPair(r, c) \in Arc
      BY <1>0, <2>4, <2>5, CellPairArc DEF Job
    <3>2. Absent(r, j, c, redis) \/ Asked(j.seg[CellPair(r, c)])
      BY <1>0, <2>4, <2>5 DEF Thrifty
    <3> HIDE DEF k, j
    <3> QED
      BY <2>2, <2>4, <3>1, <3>2 DEF Absent
  <2>6. Do(r, IF Durable(s) THEN p ELSE Absorbed(r, k))
    BY <1>2 DEF Absorb, s
  <2> HIDE DEF k
  <2>7. Thrifty(r, p, redis)
    <3>1. /\ p.pc = "put" /\ p.stage = k.stage /\ p.steps = k.steps /\ p.rev = FALSE
          /\ p.miss = k.miss /\ p.start = k.start /\ p.seg = k.seg
      BY <2>4, Zenon DEF Job
    <3> HIDE DEF p, j
    <3>2. p.stage = "walk" => Asked(p.seg[PairOf(p.steps[1])])
      BY <2>1, <2>2, <2>4, <3>1
    <3> QED
      BY <1>0, <2>4, <2>5, <3>1, <3>2 DEF Thrifty, Looked, Absent
  <2>8. Thrifty(r, Absorbed(r, k), redis)
    BY <1>0, <2>4, <2>5, AbsorbedThrifty
  <2> HIDE DEF p
  <2> QED
    BY <1>0, <2>6, <2>7, <2>8, DoThrifty
<1> QED
  BY <1>1, <1>2

\* On a walk, what is written is the step that was just filed.
LEMMA PutEdgeThrifty ==
    ASSUME IInv, FitInv, LooksWhereItFiles, ThriftInv, NEW r \in Request, PutEdge(r)
    PROVE  ThriftInv'
<1> DEFINE j == job[r]
           e == Head(j.steps)
           b == j.banked \/ redis' # redis
           a == [j EXCEPT !.pc = "enqueue", !.banked = b]
<1>0. /\ Good(r, j) /\ Thrifty(r, j, redis) /\ j.pc = "put" /\ j \in Job(r) /\ j.rev = FALSE
      /\ j.stage \in {"walk", "fill"} /\ RedisPut(j, e) /\ j.steps # <<>>
  BY DEF IInv, FitInv, Fit, Pending, Lookup, ThriftInv, PutEdge, Good, Shape, Buying, Job
<1>1. e = j.steps[1] /\ e \in Segment
  BY <1>0 DEF Job
<1>2. ASSUME j.stage = "walk", NEW c \in j.miss
      PROVE  Absent(r, j, c, redis') \/ Asked(j.seg[CellPair(r, c)])
  <2>1. CellPair(r, c) \in Arc
    BY <1>0, <1>2, CellPairArc DEF Job
  <2>2. Absent(r, j, c, redis) \/ Asked(j.seg[CellPair(r, c)])
    BY <1>0, <1>2 DEF Thrifty
  <2>3. Asked(j.seg[PairOf(e)])
    BY <1>0, <1>1, <1>2 DEF Thrifty
  <2>4. redis' = redis \/ redis' = Write(redis, e)
    BY <1>0 DEF RedisPut
  <2> HIDE DEF j, e
  <2>5. CASE redis' = redis
    BY <2>2, <2>5
  <2>6. CASE redis' = Write(redis, e)
    BY <1>1, <2>1, <2>2, <2>3, <2>6, WriteAdds DEF Absent, LooksWhereItFiles
  <2> QED
    BY <2>4, <2>5, <2>6
<1>3. /\ a.pc = "enqueue" /\ a.seg = j.seg /\ a.miss = j.miss /\ a.start = j.start
      /\ a.stage = j.stage /\ a.rev = FALSE
  BY <1>0, Zenon DEF Job
<1>4. Do(r, a)
  BY DEF PutEdge
<1> HIDE DEF a, j
<1>5. Thrifty(r, a, redis')
  BY <1>0, <1>2, <1>3 DEF Thrifty, Looked, Absent
<1> QED
  BY <1>4, <1>5, DoThrifty DEF LooksWhereItFiles

LEMMA EnqueueThrifty ==
    ASSUME IInv, FitInv, OneClient, ThriftInv, NEW r \in Request, Enqueue(r)
    PROVE  ThriftInv'
<1> DEFINE j == job[r]
<1>0. /\ Good(r, j) /\ Thrifty(r, j, redis) /\ j.pc = "enqueue" /\ j \in Job(r) /\ ~j.rev
      /\ j.stage \in {"walk", "fill"} /\ redis' = redis /\ Do(r, Absorbed(r, j))
  BY DEF IInv, FitInv, Fit, Pending, Lookup, ThriftInv, Enqueue, Good, Shape, Buying, Job
<1>1. j.stage = "walk" =>
          \A c \in j.miss : Absent(r, j, c, redis) \/ Asked(j.seg[CellPair(r, c)])
  BY <1>0 DEF Thrifty
<1> HIDE DEF j
<1>2. Thrifty(r, Absorbed(r, j), redis)
  BY <1>0, <1>1, AbsorbedThrifty
<1> QED
  BY <1>0, <1>2, DoThrifty

LEMMA FillNextThrifty ==
    ASSUME IInv, FitInv, OneClient, ThriftInv, NEW r \in Request, FillNext(r)
    PROVE  ThriftInv'
<1> DEFINE j == job[r]
           a == PairAt(r, j)
<1>0. /\ Good(r, j) /\ Thrifty(r, j, redis) /\ j.pc = "next" /\ j \in Job(r) /\ ~j.rev
      /\ j.stage = "fill" /\ redis' = redis /\ j.col <= N(r) /\ N(r) \in Nat /\ j.row \in Nat
  <2>1. /\ Good(r, j) /\ Thrifty(r, j, redis) /\ j.pc = "next" /\ ~j.rev
        /\ j.stage = "fill" /\ redis' = redis
    BY DEF IInv, FitInv, Fit, Pending, Lookup, ThriftInv, FillNext, stores
  <2> HIDE DEF j
  <2> QED
    BY <2>1, NType DEF Good, Shape, Job
<1>1. /\ \A code : Thrifty(r, Answer(j, code), redis)
      /\ Thrifty(r, [j EXCEPT !.pc = "redis"], redis)
  BY <1>0, ControlThrifty
<1>2. \A s : Thrifty(r, SetCell(r, j, s), redis)
  BY <1>0, SetCellThrifty
<1>3. ~Over(r, j) => Thrifty(r, Advance(r, j), redis)
  BY <1>0, OnThrifty DEF Over
<1> HIDE DEF a
<1>4. \E k : Thrifty(r, k, redis) /\ Do(r, k)
  BY <1>1, <1>2, <1>3 DEF FillNext, TimedOut, a
<1> QED
  BY <1>0, <1>4, DoThrifty

LEMMA ExpireThrifty ==
    ASSUME IInv, OneClient, ThriftInv, NEW r \in Request, Expire(r)
    PROVE  ThriftInv'
<1> DEFINE j == job[r]
           a == [j EXCEPT !.late = TRUE]
<1>0. j \in Job(r) /\ Thrifty(r, j, redis) /\ redis' = redis /\ Do(r, a)
  BY DEF IInv, Good, ThriftInv, Expire, stores
<1>1. /\ a.pc = j.pc /\ a.stage = j.stage /\ a.miss = j.miss /\ a.seg = j.seg /\ a.start = j.start
      /\ a.row = j.row /\ a.col = j.col /\ a.rev = j.rev /\ a.steps = j.steps
  BY <1>0, Zenon DEF Job
<1> HIDE DEF a, j
<1>2. Thrifty(r, a, redis)
  BY <1>0, <1>1 DEF Thrifty, Looked, Absent, Before, Here
<1> QED
  BY <1>0, <1>2, DoThrifty

LEMMA CrashThrifty ==
    ASSUME IInv, ThriftInv, Crash
    PROVE  ThriftInv'
<1> SUFFICES ASSUME NEW r \in Request PROVE Thrifty(r, job'[r], redis')
  BY DEF ThriftInv
<1>0. /\ job'[r] = (IF Running(r) THEN Answer(job[r], "dropped") ELSE job[r])
      /\ redis' = redis /\ Thrifty(r, job[r], redis) /\ job[r] \in Job(r)
  BY DEF Crash, ThriftInv, IInv, Good
<1>1. Answer(job[r], "dropped").pc = "replied"
  BY <1>0, Zenon DEF Answer, Job
<1> QED
  BY <1>0, <1>1, OverThrifty

LEMMA InitThrifty == Init => ThriftInv
<1> SUFFICES ASSUME Init, NEW r \in Request PROVE Thrifty(r, job[r], redis)
  BY DEF ThriftInv
<1>1. job[r] = [Fresh(r, 0) EXCEPT !.pc = "idle"]
  BY DEF Init
<1>2. job[r].pc = "idle"
  BY <1>1, Zenon DEF Fresh
<1> QED
  BY <1>2, OverThrifty

LEMMA NextThrifty ==
    ASSUME LooksWhereItFiles, IInv, FitInv, ThriftInv, [Next]_vars
    PROVE  ThriftInv'
<1>1. ASSUME NEW r \in Request, Submit(r) \/ Step(r) \/ Expire(r)
      PROVE  ThriftInv'
  <2>1. OneClient
    BY DEF LooksWhereItFiles
  <2> QED
    BY <1>1, <2>1, SubmitThrifty, QuietThrifty, CallReturnsThrifty, RedisGetThrifty,
       ArchiveGetThrifty, PromoteThrifty, AbsorbThrifty, PutEdgeThrifty, EnqueueThrifty,
       FillNextThrifty, ExpireThrifty DEF Step
<1>2. CASE ArchiveWorker \/ Tick \/ UNCHANGED vars
  BY <1>2 DEF ArchiveWorker, Tick, stores, vars, ThriftInv
<1>3. CASE \E a \in Arc : Evict(Hashes(a))
  BY <1>3, EvictThrifty
<1>4. CASE Crash
  BY <1>4, CrashThrifty
<1> QED
  BY <1>1, <1>2, <1>3, <1>4 DEF Next

LEMMA ThriftSuffices == IInv /\ ThriftInv => NeverPaysTwice
<1> SUFFICES ASSUME IInv, ThriftInv, NEW r \in Request, job[r].pc = "call",
                    NEW c \in IF job[r].stage = "fill" THEN {Here(job[r])}
                              ELSE {x \in job[r].miss :
                                      \E l \in DOMAIN Head(job[r].walks) : Head(job[r].walks)[l] = x},
                    InRedis(CellPair(r, c), job[r].start)
             PROVE  Asked(job[r].seg[CellPair(r, c)])
  BY DEF NeverPaysTwice, CellPair, Asked
<1>1. Thrifty(r, job[r], redis) /\ ~Absent(r, job[r], c, redis)
  BY DEF ThriftInv, Absent, InRedis, Holds
<1>2. CASE job[r].stage = "fill"
  BY <1>1, <1>2 DEF Thrifty, Looked
<1>3. CASE job[r].stage # "fill"
  <2>1. job[r].stage \in {"probe", "walk"} /\ c \in job[r].miss
    BY <1>3 DEF IInv, Good, Job
  <2> QED
    BY <1>1, <2>1 DEF Thrifty
<1> QED
  BY <1>2, <1>3

\* A client that is alone buys no missing pair that Redis holds, whatever its
\* earlier attempts left there and however they ended, over any number of points
\* and any plan; Redis may refuse writes and evict, the archive's queue may still
\* be at work for an earlier attempt.
THEOREM PaysOnlyForTheAbsent == ASSUME LooksWhereItFiles PROVE Spec => []NeverPaysTwice
<1>1. IInv /\ FitInv /\ ThriftInv /\ [Next]_vars => ThriftInv'
  BY NextThrifty
<1>2. Spec => []ThriftInv
  BY InitThrifty, <1>1, Invariance, FitInvariance, PTL DEF Spec
<1> QED
  BY <1>2, Invariance, ThriftSuffices, PTL
=============================================================================
