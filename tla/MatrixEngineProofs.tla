------------------------- MODULE MatrixEngineProofs -------------------------
(***************************************************************************)
(* Proofs about MatrixEngine, for every set of requests, every planner     *)
(* that satisfies PlanContract and every combination of backends and       *)
(* faults: typing, "stores hold road data only", "a 200 is never cut       *)
(* short by the deadline".                                                 *)
(*                                                                         *)
(* The invariant is Good(r, j), a predicate of one call's local state j.   *)
(* Each local step of Compute is a function from such states to such       *)
(* states and has a lemma of its own; the theorem then only has to match   *)
(* every branch of every action with its lemma.                            *)
(***************************************************************************)
EXTENDS MatrixEngine, TLAPS

Lookup == {"redis", "archive", "promote"}
Buying == {"call", "absorb", "put", "enqueue"}

\* Where the control is and what it relies on there.
Shape(r, j) ==
    /\ j.pc \notin {"idle", "replied"} => N(r) >= 2 /\ j.col <= N(r) /\ j.reply = "none"
    /\ j.pc \in Lookup => j.stage # "walk"
    /\ j.pc \in Buying => j.stage # "probe"
    /\ j.pc \in Lookup \/ (j.stage = "fill" /\ j.pc \in Buying) =>
            j.row <= N(r) /\ j.row # j.col
    /\ j.pc = "promote" => j.held # None
    /\ j.pc = "plan" => j.miss # {}
    /\ j.pc = "call" /\ j.stage = "walk" => j.walks # <<>>
    /\ j.pc \in {"put", "enqueue"} \/ (j.stage = "fill" /\ j.pc = "absorb") => j.steps # <<>>

\* What may be stored: the provider's word, never an estimate.
RoadEdge == {e \in Segment : e.src = "provider" /\ ~e.late}

StepsSourced(j) ==
    \A k \in DOMAIN j.steps : /\ j.steps[k].src # "cache"
                              /\ j.steps[k].late => j.steps[k].src = "fallback"
Sourced(j) ==
    /\ StepsSourced(j)
    /\ j.pc \in {"put", "enqueue"} => j.steps[1].src = "provider"
    /\ j.held # None => j.held \in RoadEdge

\* Nothing is marked as cut by the deadline before the deadline has passed, nor
\* in a matrix whose last cell has been dealt with.
Clean(s) == s # None => ~s.late
CleanCells(r, j) == \A c \in Cell(r) : Clean(j.cells[c])
Punctual(r, j) ==
    ~j.late => /\ \A a \in Arc : Clean(j.seg[a])
               /\ \A k \in DOMAIN j.steps : ~j.steps[k].late
               /\ CleanCells(r, j)
Timely(r, j) ==
    /\ Punctual(r, j)
    /\ j.stage = "fill" /\ j.pc = "next" /\ j.row > N(r) => CleanCells(r, j)
    /\ j.reply = "200" => CleanCells(r, j)

Good(r, j) == j \in Job(r) /\ Shape(r, j) /\ Sourced(j) /\ Timely(r, j)

IInv ==
    /\ DOMAIN job = Request
    /\ \A r \in Request : Good(r, job[r])
    /\ redis \subseteq RoadEdge
    /\ archive \subseteq RoadEdge
    /\ queue \in Seq(RoadEdge) /\ Len(queue) <= QueueCap
    /\ hour \in Hour
    /\ crashes \in Nat

-----------------------------------------------------------------------------
(* Facts about the data *)

LEMMA NType == \A r \in Request : N(r) \in Nat
BY RequestAssumption DEF N

LEMMA PointType == \A r \in Request : \A k \in 1 .. N(r) : Waypoints[r][k] \in Place
BY RequestAssumption DEF N

LEMMA NoneIsNoSegment == None \notin Segment
BY BoundAssumption

\* An edge read from a store is reported as cached, and is not cut short.
LEMMA CachedEdge ==
    ASSUME NEW e \in RoadEdge
    PROVE  Cached(e) \in Segment /\ ~Cached(e).late
BY Zenon DEF Cached, RoadEdge, Segment

LEMMA WriteRoad ==
    ASSUME NEW store, store \subseteq RoadEdge, NEW e \in RoadEdge
    PROVE  Write(store, e) \subseteq RoadEdge
BY DEF Write

LEMMA UpsertRoad ==
    ASSUME NEW store, store \subseteq RoadEdge, NEW e \in RoadEdge
    PROVE  Upsert(store, e) \subseteq RoadEdge
BY WriteRoad DEF Upsert

LEMMA FoundInStore ==
    ASSUME NEW store, NEW r, NEW h, NEW s, NEW e \in Found(store, r, h, s)
    PROVE  e \in store
BY DEF Found

LEMMA FuzzyInRedis ==
    ASSUME NEW r, NEW h, NEW s, NEW e \in Fuzzy(r, h, s)
    PROVE  e \in redis
BY FoundInStore DEF Fuzzy

LEMMA PairAtType ==
    ASSUME NEW r \in Request, NEW j \in Job(r), j.row <= N(r), j.col <= N(r)
    PROVE  /\ PairAt(r, j) \in Arc
           /\ Key(r, j) \in Arc
           /\ Here(j) \in Cell(r)
<1>1. j.row \in 1 .. N(r) /\ j.col \in 1 .. N(r)
  BY NType DEF Job
<1>2. Waypoints[r][j.row] \in Place /\ Waypoints[r][j.col] \in Place
  BY <1>1, PointType
<1> QED
  BY <1>1, <1>2 DEF PairAt, Key, Swap, Arc, Here, Cell

-----------------------------------------------------------------------------
(* The local steps *)

\* Compute returns with code. A 200 must come with a clean matrix.
LEMMA AnswerGood ==
    ASSUME NEW r \in Request, NEW j, Good(r, j), NEW code \in Reply,
           code = "200" => CleanCells(r, j)
    PROVE  Good(r, Answer(j, code))
<1> DEFINE a == Answer(j, code)
<1>0. /\ j \in Job(r) /\ 1 \in 1 .. N(r) + 1
      /\ {} \in SUBSET OffDiagonal(r) /\ <<>> \in Seq(Seq(Cell(r))) /\ <<>> \in Seq(Segment)
  BY NType DEF Good
<1>1. a \in Job(r)
  BY <1>0, Zenon DEF Answer, Job, Pc
<1>2. /\ a.pc = "replied" /\ a.reply = code /\ a.held = None /\ a.steps = <<>>
      /\ a.stage = j.stage /\ a.cells = j.cells /\ a.seg = j.seg /\ a.late = j.late
  BY <1>0, Zenon DEF Answer, Job
<1> HIDE DEF a
<1>3. Shape(r, a)
  BY <1>2 DEF Shape, Lookup, Buying
<1>4. Sourced(a)
  BY <1>2 DEF Sourced, StepsSourced
<1>5. Timely(r, a)
  BY <1>2 DEF Timely, Punctual, CleanCells, Good
<1> QED
  BY <1>1, <1>3, <1>4, <1>5 DEF Good, a

\* The next cell. Leaving the last one takes a clean matrix; from a cell off
\* the diagonal the loop is not left.
LEMMA AdvanceGood ==
    ASSUME NEW r \in Request, NEW j \in Job(r), StepsSourced(j), Punctual(r, j), N(r) >= 2, j.row <= N(r), j.col <= N(r),
           j.reply = "none", j.stage \in {"probe", "fill"},
           j.stage = "fill" /\ j.row = j.col => CleanCells(r, j)
    PROVE  Good(r, Advance(r, j))
<1> DEFINE a == Advance(r, j)
           x == IF j.col = N(r) THEN j.row + 1 ELSE j.row
           y == IF j.col = N(r) THEN 1 ELSE j.col + 1
<1>0. /\ j.row \in 1 .. N(r) /\ j.col \in 1 .. N(r)
      /\ x \in 1 .. N(r) + 1 /\ y \in 1 .. N(r) /\ y \in 1 .. N(r) + 1
      /\ x > N(r) => j.row = N(r) /\ j.col = N(r)
  BY NType DEF Job
<1>1. a = [j EXCEPT !.pc = "next", !.rev = FALSE, !.held = None, !.row = x, !.col = y]
  BY DEF Advance
<1> HIDE DEF x, y, a
<1>2. a \in Job(r)
  BY <1>0, <1>1, Zenon DEF Job, Pc
<1>3. /\ a.pc = "next" /\ a.row = x /\ a.col = y /\ a.reply = j.reply /\ a.held = None
      /\ a.steps = j.steps /\ a.seg = j.seg /\ a.cells = j.cells /\ a.late = j.late
      /\ a.stage = j.stage
  BY <1>1, Zenon DEF Job
<1>5. Shape(r, a)
  BY <1>0, <1>3, NType DEF Shape, Lookup, Buying
<1>6. Sourced(a)
  BY <1>3 DEF Sourced, StepsSourced
<1>7. Timely(r, a)
  BY <1>0, <1>3, NType DEF Timely, Punctual, CleanCells
<1> QED
  BY <1>2, <1>5, <1>6, <1>7 DEF Good, a

\* The state of a call as the next loop finds it: nothing is pending.
Calm(r, j) ==
    /\ j \in Job(r)
    /\ StepsSourced(j) /\ Punctual(r, j)
    /\ N(r) >= 2 /\ j.reply = "none"

\* A cell off the diagonal is filled with segment s.
LEMMA SetCellGood ==
    ASSUME NEW r \in Request, NEW j, Calm(r, j), j.row <= N(r), j.col <= N(r),
           j.row # j.col, j.stage = "fill", NEW s \in Segment, j.late \/ ~s.late
    PROVE  Good(r, SetCell(r, j, s))
<1> DEFINE f == [j.cells EXCEPT ![Here(j)] = s]
           a == [j EXCEPT !.cells = f]
<1>0. Here(j) \in Cell(r) /\ j \in Job(r) /\ f \in [Cell(r) -> Segment \cup {None}]
      /\ \A c \in Cell(r) : f[c] = (IF c = Here(j) THEN s ELSE j.cells[c])
  BY PairAtType DEF Calm, Job
<1>1. SetCell(r, j, s) = Advance(r, a)
  BY DEF SetCell
<1> HIDE DEF f
<1>2. a \in Job(r)
  BY <1>0, Zenon DEF Job
<1>3. /\ a.row = j.row /\ a.col = j.col /\ a.reply = j.reply /\ a.steps = j.steps
      /\ a.seg = j.seg /\ a.cells = f /\ a.late = j.late /\ a.stage = j.stage
  BY <1>0, Zenon DEF Job
<1> HIDE DEF a
<1>4. StepsSourced(a)
  BY <1>3 DEF StepsSourced, Calm
<1>5. Punctual(r, a)
  BY <1>0, <1>3 DEF Punctual, Calm, CleanCells, Clean
<1> QED
  BY <1>1, <1>2, <1>3, <1>4, <1>5, AdvanceGood DEF Calm

\* lookupEdge succeeds.
LEMMA HitGood ==
    ASSUME NEW r \in Request, NEW j, Good(r, j), j.pc \in Lookup,
           NEW s \in Segment, ~s.late
    PROVE  Good(r, Hit(r, j, s))
<1>0. /\ j \in Job(r) /\ j.row <= N(r) /\ j.col <= N(r) /\ j.row # j.col
      /\ Calm(r, j) /\ j.stage \in {"probe", "fill"}
  BY DEF Good, Shape, Sourced, Timely, Calm, Job, Lookup
<1>1. CASE j.stage = "fill"
  BY <1>0, <1>1, SetCellGood DEF Hit
<1>2. CASE j.stage = "probe"
  <2> DEFINE f == [j.seg EXCEPT ![Key(r, j)] = s]
             a == [j EXCEPT !.seg = f]
  <2>0. Key(r, j) \in Arc /\ f \in [Arc -> Segment \cup {None}]
        /\ \A c \in Arc : f[c] = (IF c = Key(r, j) THEN s ELSE j.seg[c])
    BY <1>0, PairAtType DEF Job
  <2>1. Hit(r, j, s) = Advance(r, a)
    BY <1>2 DEF Hit
  <2> HIDE DEF f
  <2>2. a \in Job(r)
    BY <1>0, <2>0, Zenon DEF Job
  <2>3. /\ a.row = j.row /\ a.col = j.col /\ a.reply = j.reply /\ a.steps = j.steps
        /\ a.seg = f /\ a.cells = j.cells /\ a.late = j.late /\ a.stage = j.stage
    BY <1>0, Zenon DEF Job
  <2> HIDE DEF a
  <2>4. StepsSourced(a)
    BY <1>0, <2>3 DEF StepsSourced, Calm
  <2>5. Punctual(r, a)
    BY <1>0, <2>0, <2>3 DEF Punctual, Calm, CleanCells, Clean
  <2> QED
    BY <1>0, <1>2, <2>1, <2>2, <2>3, <2>4, <2>5, AdvanceGood DEF Calm
<1> QED
  BY <1>0, <1>1, <1>2

\* A step that only moves the control: to a lookup, to the planner, to a call.
LEMMA MoveGood ==
    ASSUME NEW r \in Request, NEW j, Good(r, j), NEW p \in {"redis", "archive", "plan", "call"},
           j.pc \notin {"idle", "replied"},
           p \in {"redis", "archive"} => j.stage # "walk" /\ j.row <= N(r) /\ j.row # j.col,
           p = "plan" => j.miss # {},
           p = "call" => \/ j.stage = "fill" /\ j.row <= N(r) /\ j.row # j.col
                         \/ j.stage = "walk" /\ j.walks # <<>>,
           NEW v \in BOOLEAN
    PROVE  Good(r, [j EXCEPT !.pc = p, !.rev = v])
<1> DEFINE a == [j EXCEPT !.pc = p, !.rev = v]
<1>0. j \in Job(r) /\ p \in Pc
  BY DEF Good, Pc
<1>1. a \in Job(r)
  BY <1>0, Zenon DEF Job
<1>2. /\ a.pc = p /\ a.row = j.row /\ a.col = j.col /\ a.reply = j.reply /\ a.steps = j.steps
      /\ a.seg = j.seg /\ a.cells = j.cells /\ a.late = j.late /\ a.stage = j.stage
      /\ a.held = j.held /\ a.walks = j.walks /\ a.miss = j.miss
  BY <1>0, Zenon DEF Job
<1> HIDE DEF a
<1>3. Shape(r, a)
  BY <1>2 DEF Good, Shape, Lookup, Buying
<1>4. Sourced(a) /\ Timely(r, a)
  BY <1>2 DEF Good, Sourced, StepsSourced, Timely, Punctual, CleanCells
<1> QED
  BY <1>1, <1>3, <1>4 DEF Good, a

LEMMA MoveOnlyGood ==
    ASSUME NEW r \in Request, NEW j, Good(r, j), NEW p \in {"redis", "archive", "plan", "call"},
           j.pc \notin {"idle", "replied"},
           p \in {"redis", "archive"} => j.stage # "walk" /\ j.row <= N(r) /\ j.row # j.col,
           p = "plan" => j.miss # {},
           p = "call" => \/ j.stage = "fill" /\ j.row <= N(r) /\ j.row # j.col
                         \/ j.stage = "walk" /\ j.walks # <<>>
    PROVE  Good(r, [j EXCEPT !.pc = p])
<1>1. j.rev \in BOOLEAN
  BY DEF Good, Job
<1>2. [j EXCEPT !.pc = p] = [j EXCEPT !.pc = p, !.rev = j.rev]
  BY Zenon DEF Good, Job
<1> QED
  BY <1>1, <1>2, MoveGood

\* lookupEdge finds nothing.
LEMMA MissedGood ==
    ASSUME NEW r \in Request, NEW j, Good(r, j), j.pc \in Lookup
    PROVE  Good(r, Missed(r, j))
<1>0. /\ j \in Job(r) /\ j.row <= N(r) /\ j.col <= N(r) /\ j.row # j.col
      /\ Calm(r, j) /\ j.stage \in {"probe", "fill"} /\ j.pc \notin {"idle", "replied"}
  BY DEF Good, Shape, Sourced, Timely, Calm, Job, Lookup
<1>1. CASE j.stage = "fill"
  BY <1>0, <1>1, MoveOnlyGood DEF Missed
<1>2. CASE j.stage # "fill" /\ ~j.rev /\ MayReverse(r)
  <2>1. Good(r, [j EXCEPT !.pc = "redis", !.rev = TRUE])
    BY <1>0, <1>2, MoveGood
  <2> QED
    BY <1>2, <2>1 DEF Missed
<1>3. CASE j.stage # "fill" /\ ~(~j.rev /\ MayReverse(r))
  <2> DEFINE a == [j EXCEPT !.miss = j.miss \cup {Here(j)}]
  <2>a. Here(j) \in OffDiagonal(r)
    BY <1>0, PairAtType DEF OffDiagonal, Here
  <2>b. j.miss \in SUBSET OffDiagonal(r)
    BY <1>0 DEF Job
  <2>0. j.miss \cup {Here(j)} \in SUBSET OffDiagonal(r)
    BY <2>a, <2>b
  <2>1. Missed(r, j) = Advance(r, a)
    BY <1>3 DEF Missed
  <2>2. a \in Job(r)
    BY <1>0, <2>0, Zenon DEF Job
  <2>3. /\ a.row = j.row /\ a.col = j.col /\ a.reply = j.reply /\ a.steps = j.steps
        /\ a.seg = j.seg /\ a.cells = j.cells /\ a.late = j.late /\ a.stage = j.stage
    BY <1>0, Zenon DEF Job
  <2> HIDE DEF a
  <2>4. StepsSourced(a) /\ Punctual(r, a)
    BY <1>0, <2>3 DEF StepsSourced, Punctual, Calm, CleanCells, Clean
  <2> QED
    BY <1>0, <1>3, <2>1, <2>2, <2>3, <2>4, AdvanceGood DEF Calm
<1> QED
  BY <1>1, <1>2, <1>3

\* The fill starts over at the first cell.
LEMMA StartFillGood ==
    ASSUME NEW r \in Request, NEW j, Good(r, j), j.pc = "next"
    PROVE  Good(r, StartFill(j))
<1> DEFINE a == StartFill(j)
<1>0. j \in Job(r) /\ N(r) >= 2 /\ 1 \in 1 .. N(r) + 1
  BY NType DEF Good, Shape
<1>1. a \in Job(r)
  BY <1>0, Zenon DEF StartFill, Job, Pc
<1>2. /\ a.pc = "next" /\ a.row = 1 /\ a.col = 1 /\ a.reply = j.reply /\ a.steps = j.steps
      /\ a.seg = j.seg /\ a.cells = j.cells /\ a.late = j.late /\ a.stage = "fill"
      /\ a.held = j.held
  BY <1>0, Zenon DEF StartFill, Job
<1> HIDE DEF a
<1>3. Shape(r, a)
  BY <1>0, <1>2, NType DEF Good, Shape, Lookup, Buying
<1>4. Sourced(a) /\ Timely(r, a)
  BY <1>0, <1>2, NType DEF Good, Sourced, StepsSourced, Timely, Punctual, CleanCells
<1> QED
  BY <1>1, <1>3, <1>4 DEF Good, a

\* A new attempt.
LEMMA FreshGood ==
    ASSUME NEW r \in Request, NEW s \in Hour
    PROVE  /\ N(r) >= 2 => Good(r, Fresh(r, s))
           /\ Good(r, Answer(Fresh(r, s), "400"))
           /\ Good(r, [Fresh(r, s) EXCEPT !.pc = "idle"])
<1> DEFINE a == Fresh(r, s)
           b == Answer(a, "400")
           c == [a EXCEPT !.pc = "idle"]
<1>0. /\ 1 \in 1 .. N(r) + 1 /\ {} \in SUBSET OffDiagonal(r)
      /\ <<>> \in Seq(Seq(Cell(r))) /\ <<>> \in Seq(Segment)
      /\ [x \in Arc |-> None] \in [Arc -> Segment \cup {None}]
      /\ [x \in Cell(r) |-> None] \in [Cell(r) -> Segment \cup {None}]
  BY NType
<1>1. a \in Job(r)
  BY <1>0, Zenon DEF Fresh, Job, Pc, Reply
<1>2. /\ a.pc = "next" /\ a.stage = "probe" /\ a.row = 1 /\ a.col = 1 /\ a.reply = "none"
      /\ a.steps = <<>> /\ a.held = None /\ ~a.late
      /\ \A x \in Arc : a.seg[x] = None
      /\ \A x \in Cell(r) : a.cells[x] = None
  BY Zenon DEF Fresh
<1> HIDE DEF a
<1>3. /\ c \in Job(r) /\ c.pc = "idle" /\ c.stage = a.stage /\ c.reply = a.reply /\ c.steps = a.steps
      /\ c.held = a.held /\ c.late = a.late /\ c.seg = a.seg /\ c.cells = a.cells
      /\ c.row = a.row /\ c.col = a.col
  BY <1>1, Zenon DEF Job, Pc
<1>4. /\ b \in Job(r) /\ b.pc = "replied" /\ b.reply = "400" /\ b.held = None /\ b.steps = <<>>
      /\ b.stage = a.stage /\ b.cells = a.cells /\ b.seg = a.seg /\ b.late = a.late
  BY <1>0, <1>1, Zenon DEF Answer, Job, Pc, Reply
<1> HIDE DEF b, c
<1>5. N(r) >= 2 => Good(r, a)
  BY <1>1, <1>2, NType DEF Good, Shape, Lookup, Buying, Sourced, StepsSourced, Timely, Punctual, CleanCells, Clean
<1>6. Good(r, b)
  BY <1>2, <1>4 DEF Good, Shape, Lookup, Buying, Sourced, StepsSourced, Timely, Punctual, CleanCells, Clean
<1>7. Good(r, c)
  BY <1>2, <1>3 DEF Good, Shape, Lookup, Buying, Sourced, StepsSourced, Timely, Punctual, CleanCells, Clean
<1> QED
  BY <1>5, <1>6, <1>7 DEF a, b, c

\* An archive edge is held for promotion.
LEMMA HoldGood ==
    ASSUME NEW r \in Request, NEW j, Good(r, j), j.pc = "archive", NEW e \in RoadEdge
    PROVE  Good(r, [j EXCEPT !.pc = "promote", !.held = e])
<1> DEFINE a == [j EXCEPT !.pc = "promote", !.held = e]
<1>0. j \in Job(r) /\ e \in Segment
  BY DEF Good, RoadEdge
<1>1. a \in Job(r)
  BY <1>0, Zenon DEF Job, Pc
<1>2. /\ a.pc = "promote" /\ a.row = j.row /\ a.col = j.col /\ a.reply = j.reply
      /\ a.steps = j.steps /\ a.seg = j.seg /\ a.cells = j.cells /\ a.late = j.late
      /\ a.stage = j.stage /\ a.held = e
  BY <1>0, Zenon DEF Job
<1> HIDE DEF a
<1>3. Shape(r, a)
  BY <1>0, <1>2, NoneIsNoSegment DEF Good, Shape, Lookup, Buying
<1>4. Sourced(a) /\ Timely(r, a)
  BY <1>2 DEF Good, Sourced, StepsSourced, Timely, Punctual, CleanCells
<1> QED
  BY <1>1, <1>3, <1>4 DEF Good, a

\* The planner's walks replace the misses.
LEMMA PlannedGood ==
    ASSUME NEW r \in Request, NEW j, Good(r, j), j.pc \notin {"idle", "replied"},
           NEW w \in Seq(Seq(Cell(r)))
    PROVE  Good(r, [j EXCEPT !.pc = "next", !.stage = "walk", !.walks = w])
<1> DEFINE a == [j EXCEPT !.pc = "next", !.stage = "walk", !.walks = w]
<1>0. j \in Job(r)
  BY DEF Good
<1>1. a \in Job(r)
  BY <1>0, Zenon DEF Job, Pc
<1>2. /\ a.pc = "next" /\ a.row = j.row /\ a.col = j.col /\ a.reply = j.reply
      /\ a.steps = j.steps /\ a.seg = j.seg /\ a.cells = j.cells /\ a.late = j.late
      /\ a.stage = "walk" /\ a.held = j.held
  BY <1>0, Zenon DEF Job
<1> HIDE DEF a
<1>3. Shape(r, a)
  BY <1>2 DEF Good, Shape, Lookup, Buying
<1>4. Sourced(a) /\ Timely(r, a)
  BY <1>2 DEF Good, Sourced, StepsSourced, Timely, Punctual, CleanCells
<1> QED
  BY <1>1, <1>3, <1>4 DEF Good, a

\* The pairs a provider call asks for are pairs of the request's points.
LEMMA LegsType ==
    ASSUME NEW r \in Request, NEW j, Good(r, j), j.pc = "call"
    PROVE  Legs(r, j) \in Seq(Arc) /\ (j.stage = "fill" => Len(Legs(r, j)) = 1)
<1>0. j \in Job(r) /\ j.stage \in {"walk", "fill"}
  BY DEF Good, Shape, Buying, Job
<1>1. CASE j.stage = "fill"
  <2>1. PairAt(r, j) \in Arc
    BY <1>0, <1>1, PairAtType DEF Good, Shape, Buying
  <2>2. Legs(r, j) = <<PairAt(r, j)>>
    BY <1>1 DEF Legs
  <2> QED
    BY <2>1, <2>2
<1>2. CASE j.stage = "walk"
  <2> DEFINE w == Head(j.walks)
             p(k) == IF k = 1 THEN w[1][1] ELSE w[k - 1][2]
  <2>1. w \in Seq(Cell(r))
    BY <1>0, <1>2 DEF Good, Shape, Job
  <2>2. \A k \in DOMAIN w : w[k] \in Cell(r) /\ w[k][1] \in 1 .. N(r) /\ w[k][2] \in 1 .. N(r)
    BY <2>1 DEF Cell
  <2>3. \A k \in DOMAIN w : k \in Nat /\ (k # 1 => k - 1 \in DOMAIN w /\ 1 \in DOMAIN w)
    BY <2>1
  <2>4. \A k \in DOMAIN w : p(k) \in 1 .. N(r)
    BY <2>2, <2>3
  <2>5. \A k \in DOMAIN w : <<Waypoints[r][p(k)], Waypoints[r][w[k][2]]>> \in Arc
    BY <2>2, <2>4, PointType DEF Arc
  <2>6. Legs(r, j) = [k \in DOMAIN w |-> <<Waypoints[r][p(k)], Waypoints[r][w[k][2]]>>]
    BY <1>2 DEF Legs
  <2>7. DOMAIN w = 1 .. Len(w) /\ Len(w) \in Nat
    BY <2>1
  <2> HIDE DEF w, p
  <2> QED
    BY <1>2, <2>5, <2>6, <2>7
<1> QED
  BY <1>0, <1>1, <1>2

LEMMA StepsType ==
    ASSUME NEW r \in Request, NEW j, Good(r, j), j.pc = "call",
           NEW n \in 0 .. Len(Legs(r, j)), NEW src \in {"provider", "fallback"}
    PROVE  LET steps == Steps(r, j, n, src)
           IN  /\ steps \in Seq(Segment)
               /\ Len(steps) = n
               /\ \A k \in DOMAIN steps : /\ steps[k].src = src
                                          /\ steps[k].late <=> (src = "fallback" /\ j.late)
<1> DEFINE l == Legs(r, j)
           late == src = "fallback" /\ j.late
           S(i) == [o |-> l[i][1], d |-> l[i][2], slot |-> j.start, src |-> src, late |-> late]
<1>1. l \in Seq(Arc) /\ j.start \in Hour /\ late \in BOOLEAN
  BY LegsType DEF Good, Job
<1>2. \A i \in 1 .. n : l[i][1] \in Place /\ l[i][2] \in Place
  BY <1>1 DEF Arc
<1>3. Steps(r, j, n, src) = [i \in 1 .. n |-> S(i)]
  BY DEF Steps
<1> HIDE DEF l, late
<1>4. \A i \in 1 .. n : S(i) \in Segment /\ S(i).src = src /\ (S(i).late <=> late)
  BY <1>1, <1>2, Zenon DEF Segment
<1> HIDE DEF S
<1>5. n \in Nat
  BY <1>1 DEF l
<1> QED
  BY <1>3, <1>4, <1>5 DEF late

\* The provider call is over.
LEMMA ReturnedGood ==
    ASSUME NEW r \in Request, NEW j, Good(r, j), j.pc = "call",
           NEW n \in 0 .. Len(Legs(r, j)), NEW src \in {"provider", "fallback"},
           j.stage = "fill" => n # 0
    PROVE  Good(r, Returned(r, j, Steps(r, j, n, src)))
<1> DEFINE q == Steps(r, j, n, src)
           w == IF j.stage = "walk" THEN Tail(j.walks) ELSE j.walks
           a == [j EXCEPT !.pc = "absorb", !.steps = q, !.walks = w]
<1>0. j \in Job(r) /\ w \in Seq(Seq(Cell(r)))
  BY DEF Good, Shape, Job
<1>1. /\ q \in Seq(Segment) /\ Len(q) = n
      /\ \A k \in DOMAIN q : q[k].src = src /\ (q[k].late <=> (src = "fallback" /\ j.late))
  BY StepsType
<1>2. Returned(r, j, q) = a
  BY DEF Returned
<1> HIDE DEF q, w
<1>3. a \in Job(r)
  BY <1>0, <1>1, Zenon DEF Job, Pc
<1>4. /\ a.pc = "absorb" /\ a.row = j.row /\ a.col = j.col /\ a.reply = j.reply
      /\ a.steps = q /\ a.seg = j.seg /\ a.cells = j.cells /\ a.late = j.late
      /\ a.stage = j.stage /\ a.held = j.held
  BY <1>0, Zenon DEF Job
<1> HIDE DEF a
<1>5. Shape(r, a)
  BY <1>1, <1>4 DEF Good, Shape, Lookup, Buying
<1>6. Sourced(a)
  BY <1>1, <1>4 DEF Good, Sourced, StepsSourced
<1>7. Timely(r, a)
  BY <1>1, <1>4 DEF Good, Timely, Punctual, CleanCells
<1> QED
  BY <1>2, <1>3, <1>5, <1>6, <1>7 DEF Good, q

\* A step that neither moves in the matrix nor changes what is pending.
LEMMA PutNextGood ==
    ASSUME NEW r \in Request, NEW j, Good(r, j), j.pc \in {"absorb", "put"}, j.steps # <<>>,
           j.steps[1].src = "provider", NEW p \in {"put", "enqueue"}, NEW b \in BOOLEAN
    PROVE  Good(r, [j EXCEPT !.pc = p, !.banked = b])
<1> DEFINE a == [j EXCEPT !.pc = p, !.banked = b]
<1>0. j \in Job(r) /\ p \in Pc
  BY DEF Good, Pc
<1>1. a \in Job(r)
  BY <1>0, Zenon DEF Job
<1>2. /\ a.pc = p /\ a.row = j.row /\ a.col = j.col /\ a.reply = j.reply
      /\ a.steps = j.steps /\ a.seg = j.seg /\ a.cells = j.cells /\ a.late = j.late
      /\ a.stage = j.stage /\ a.held = j.held
  BY <1>0, Zenon DEF Job
<1> HIDE DEF a
<1>3. Shape(r, a) /\ Sourced(a) /\ Timely(r, a)
  BY <1>2 DEF Good, Shape, Lookup, Buying, Sourced, StepsSourced, Timely, Punctual, CleanCells
<1> QED
  BY <1>1, <1>3 DEF Good, a

\* The first pending step enters segmentByPair (walk stage only).
LEMMA AbsorbSegGood ==
    ASSUME NEW r \in Request, NEW j, Good(r, j), j.pc = "absorb", j.stage = "walk", j.steps # <<>>
    PROVE  Good(r, [j EXCEPT !.seg[PairOf(Head(j.steps))] = Head(j.steps)])
<1> DEFINE s == Head(j.steps)
           f == [j.seg EXCEPT ![PairOf(s)] = s]
           a == [j EXCEPT !.seg = f]
<1>0. /\ j \in Job(r) /\ s \in Segment /\ s = j.steps[1] /\ 1 \in DOMAIN j.steps
  BY DEF Good, Job
<1>1. s.o \in Place /\ s.d \in Place
  BY <1>0, Zenon DEF Segment
<1>2. /\ PairOf(s) \in Arc /\ f \in [Arc -> Segment \cup {None}]
      /\ \A x \in Arc : f[x] = (IF x = PairOf(s) THEN s ELSE j.seg[x])
  BY <1>0, <1>1 DEF Job, PairOf, Arc
<1> HIDE DEF f
<1>3. a \in Job(r)
  BY <1>0, <1>2, Zenon DEF Job
<1>4. /\ a.pc = j.pc /\ a.row = j.row /\ a.col = j.col /\ a.reply = j.reply
      /\ a.steps = j.steps /\ a.seg = f /\ a.cells = j.cells /\ a.late = j.late
      /\ a.stage = j.stage /\ a.held = j.held /\ a.walks = j.walks
  BY <1>0, Zenon DEF Job
<1> HIDE DEF a
<1>5. Shape(r, a) /\ Sourced(a)
  BY <1>4 DEF Good, Shape, Lookup, Buying, Sourced, StepsSourced
<1>6. Timely(r, a)
  BY <1>0, <1>2, <1>4 DEF Good, Timely, Punctual, CleanCells, Clean
<1> QED
  BY <1>3, <1>5, <1>6 DEF Good, a, f

\* The first pending step has been dealt with.
LEMMA AbsorbedGood ==
    ASSUME NEW r \in Request, NEW j, Good(r, j), j.pc \in {"absorb", "enqueue"}, j.steps # <<>>
    PROVE  Good(r, Absorbed(r, j))
<1>0. /\ j \in Job(r) /\ N(r) >= 2 /\ j.reply = "none" /\ j.stage \in {"walk", "fill"}
      /\ Head(j.steps) = j.steps[1] /\ 1 \in DOMAIN j.steps /\ Head(j.steps) \in Segment
      /\ StepsSourced(j) /\ Punctual(r, j)
      /\ Tail(j.steps) \in Seq(Segment) /\ <<>> \in Seq(Segment)
      /\ \A k \in DOMAIN Tail(j.steps) : k + 1 \in DOMAIN j.steps /\ Tail(j.steps)[k] = j.steps[k + 1]
  BY DEF Good, Shape, Lookup, Buying, Job, Sourced, Timely
<1>1. CASE j.stage = "fill"
  <2> DEFINE a == [j EXCEPT !.steps = <<>>]
  <2>1. a \in Job(r)
    BY <1>0, Zenon DEF Job
  <2>2. /\ a.row = j.row /\ a.col = j.col /\ a.reply = j.reply /\ a.steps = <<>>
        /\ a.seg = j.seg /\ a.cells = j.cells /\ a.late = j.late /\ a.stage = j.stage
    BY <1>0, Zenon DEF Job
  <2>3. Absorbed(r, j) = SetCell(r, a, Head(j.steps))
    BY <1>1 DEF Absorbed
  <2> HIDE DEF a
  <2>4. Calm(r, a)
    BY <1>0, <2>1, <2>2 DEF Calm, StepsSourced, Punctual, CleanCells
  <2>5. /\ a.row <= N(r) /\ a.col <= N(r) /\ a.row # a.col
        /\ a.late \/ ~Head(j.steps).late
    BY <1>0, <1>1, <2>2 DEF Good, Shape, Buying, Punctual
  <2> QED
    BY <1>0, <1>1, <2>2, <2>3, <2>4, <2>5, SetCellGood
<1>2. CASE j.stage = "walk"
  <2> DEFINE q == Tail(j.steps)
             a == [j EXCEPT !.pc = "absorb", !.steps = q]
  <2>1. Absorbed(r, j) = a
    BY <1>2 DEF Absorbed
  <2>2. /\ q \in Seq(Segment)
        /\ \A k \in DOMAIN q : k + 1 \in DOMAIN j.steps /\ q[k] = j.steps[k + 1]
    BY <1>0
  <2> HIDE DEF q
  <2>3. a \in Job(r)
    BY <1>0, <2>2, Zenon DEF Job, Pc
  <2>4. /\ a.pc = "absorb" /\ a.row = j.row /\ a.col = j.col /\ a.reply = j.reply
        /\ a.steps = q /\ a.seg = j.seg /\ a.cells = j.cells /\ a.late = j.late
        /\ a.stage = j.stage /\ a.held = j.held
    BY <1>0, Zenon DEF Job
  <2> HIDE DEF a
  <2>5. Shape(r, a)
    BY <1>2, <2>4 DEF Good, Shape, Lookup, Buying
  <2>6. Sourced(a) /\ Timely(r, a)
    BY <1>2, <2>2, <2>4 DEF Good, Sourced, StepsSourced, Timely, Punctual, CleanCells
  <2> QED
    BY <2>1, <2>3, <2>5, <2>6 DEF Good
<1> QED
  BY <1>0, <1>1, <1>2

\* The last step of a walk's call is done; or the deadline passes.
LEMMA LoopOnGood ==
    ASSUME NEW r \in Request, NEW j, Good(r, j), j.pc = "absorb", j.steps = <<>>
    PROVE  Good(r, [j EXCEPT !.pc = "next"])
<1> DEFINE a == [j EXCEPT !.pc = "next"]
<1>0. j \in Job(r) /\ j.stage = "walk"
  BY DEF Good, Shape, Buying, Job
<1>1. a \in Job(r)
  BY <1>0, Zenon DEF Job, Pc
<1>2. /\ a.pc = "next" /\ a.row = j.row /\ a.col = j.col /\ a.reply = j.reply
      /\ a.steps = j.steps /\ a.seg = j.seg /\ a.cells = j.cells /\ a.late = j.late
      /\ a.stage = j.stage /\ a.held = j.held
  BY <1>0, Zenon DEF Job
<1> HIDE DEF a
<1>3. Shape(r, a) /\ Sourced(a) /\ Timely(r, a)
  BY <1>0, <1>2 DEF Good, Shape, Lookup, Buying, Sourced, StepsSourced, Timely, Punctual, CleanCells
<1> QED
  BY <1>1, <1>3 DEF Good, a

LEMMA LateGood ==
    ASSUME NEW r \in Request, NEW j, Good(r, j)
    PROVE  Good(r, [j EXCEPT !.late = TRUE])
<1> DEFINE a == [j EXCEPT !.late = TRUE]
<1>0. j \in Job(r)
  BY DEF Good
<1>1. a \in Job(r)
  BY <1>0, Zenon DEF Job
<1>2. /\ a.pc = j.pc /\ a.row = j.row /\ a.col = j.col /\ a.reply = j.reply
      /\ a.steps = j.steps /\ a.seg = j.seg /\ a.cells = j.cells /\ a.late = TRUE
      /\ a.stage = j.stage /\ a.held = j.held /\ a.walks = j.walks /\ a.miss = j.miss
  BY <1>0, Zenon DEF Job
<1> HIDE DEF a
<1>3. Shape(r, a) /\ Sourced(a) /\ Timely(r, a)
  BY <1>2 DEF Good, Shape, Lookup, Buying, Sourced, StepsSourced, Timely, Punctual, CleanCells
<1> QED
  BY <1>1, <1>3 DEF Good, a

-----------------------------------------------------------------------------
(* The invariant *)

LEMMA InitInv == Init => IInv
<1> SUFFICES ASSUME Init PROVE IInv
  OBVIOUS
<1>1. 0 \in Hour
  BY BoundAssumption DEF Hour
<1>2. \A r \in Request : Good(r, job[r])
  BY <1>1, FreshGood DEF Init
<1> QED
  BY <1>1, <1>2, BoundAssumption DEF Init, IInv

\* One call moves to a good state ...
LEMMA DoGood ==
    ASSUME IInv, NEW r \in Request, \E j : Good(r, j) /\ Do(r, j)
    PROVE  DOMAIN job' = Request /\ \A q \in Request : Good(q, job'[q])
BY DEF IInv, Do

\* ... and the stores and the clock stay: the shape of most steps.
LEMMA LocalInv ==
    ASSUME IInv, NEW r \in Request, \E j : Good(r, j) /\ Do(r, j),
           UNCHANGED <<stores, hour, crashes>>
    PROVE  IInv'
BY DoGood DEF IInv, stores

LEMMA SubmitInv ==
    ASSUME IInv, NEW r \in Request, Submit(r)
    PROVE  IInv'
<1>1. Wmt(r) \in Hour
  BY RequestAssumption DEF Wmt, IInv
<1>2. CASE Invalid(r)
  BY <1>1, <1>2, FreshGood, LocalInv DEF Submit
<1>3. CASE ~Invalid(r)
  <2>1. N(r) >= 2
    BY <1>3, NType DEF Invalid
  <2> QED
    BY <1>1, <1>3, <2>1, FreshGood, LocalInv DEF Submit
<1> QED
  BY <1>2, <1>3

LEMMA ProbeNextInv ==
    ASSUME IInv, NEW r \in Request, ProbeNext(r)
    PROVE  IInv'
<1> DEFINE j == job[r]
<1>a. Good(r, j) /\ j.pc = "next" /\ j.stage = "probe" /\ "504" \in Reply
  BY DEF IInv, ProbeNext, Reply
<1>0. /\ Good(r, j) /\ j \in Job(r) /\ N(r) >= 2 /\ j.col <= N(r) /\ j.reply = "none"
      /\ j.pc = "next" /\ j.stage = "probe" /\ StepsSourced(j) /\ Punctual(r, j)
      /\ "504" \in Reply /\ N(r) \in Nat /\ j.row \in Nat
  BY <1>a, NType DEF Good, Shape, Sourced, Timely, Job
<1>1. CASE Over(r, j)
  <2>1. Good(r, StartFill(j)) /\ (j.miss # {} => Good(r, [j EXCEPT !.pc = "plan"]))
    BY <1>0, StartFillGood, MoveOnlyGood
  <2> QED
    BY <1>1, <2>1, LocalInv DEF ProbeNext
<1>2. CASE ~Over(r, j)
  <2>1. j.row <= N(r) /\ Good(r, Advance(r, j)) /\ Good(r, TimedOut(j))
    BY <1>0, <1>2, AdvanceGood, AnswerGood DEF Over, TimedOut
  <2>2. j.row # j.col => Good(r, [j EXCEPT !.pc = "redis"])
    BY <1>0, <2>1, MoveOnlyGood
  <2> QED
    BY <1>2, <2>1, <2>2, LocalInv DEF ProbeNext
<1> QED
  BY <1>1, <1>2

LEMMA RedisGetInv ==
    ASSUME IInv, NEW r \in Request, RedisGet(r)
    PROVE  IInv'
<1> DEFINE j == job[r]
           h == Hashes(Key(r, j))
           exact == Found(redis, r, h, LookupSlot(r))
           fuzzy == Fuzzy(r, h, LookupSlot(r))
           zero == [o |-> Key(r, j)[1], d |-> Key(r, j)[2], slot |-> LookupSlot(r),
                    src |-> "cache", late |-> FALSE]
<1>0. /\ Good(r, j) /\ j.pc = "redis" /\ j.pc \in Lookup /\ j.stage # "walk"
      /\ j.row <= N(r) /\ j.col <= N(r) /\ j.row # j.col /\ j \in Job(r)
      /\ "504" \in Reply /\ "400" \in Reply /\ j.pc \notin {"idle", "replied"}
  BY DEF IInv, RedisGet, Good, Shape, Lookup, Reply
<1>1. Good(r, [j EXCEPT !.pc = "archive"])
  BY <1>0, MoveOnlyGood
<1>2. Good(r, LookupFailed(j))
  BY <1>0, AnswerGood DEF LookupFailed
<1>3. \A e \in exact \cup fuzzy : Good(r, Hit(r, j, Cached(e)))
  <2>1. \A e \in exact \cup fuzzy : e \in RoadEdge
    BY FoundInStore, FuzzyInRedis DEF IInv
  <2> HIDE DEF exact, fuzzy
  <2> QED
    BY <1>0, <2>1, CachedEdge, HitGood
<1>4. Good(r, Hit(r, j, zero))
  <2>1. LookupSlot(r) \in Hour
    BY RequestAssumption DEF LookupSlot, IInv
  <2>2. Key(r, j)[1] \in Place /\ Key(r, j)[2] \in Place
    BY <1>0, PairAtType DEF Arc
  <2>3. zero \in Segment /\ ~zero.late
    BY <2>1, <2>2, Zenon DEF Segment
  <2> HIDE DEF zero
  <2> QED
    BY <1>0, <2>3, HitGood
<1> HIDE DEF exact, fuzzy, zero
<1>5. \E k : Good(r, k) /\ Do(r, k)
  BY <1>1, <1>2, <1>3, <1>4 DEF RedisGet, exact, fuzzy, zero
<1> QED
  BY <1>5, LocalInv DEF RedisGet

LEMMA ArchiveGetInv ==
    ASSUME IInv, NEW r \in Request, ArchiveGet(r)
    PROVE  IInv'
<1> DEFINE j == job[r]
           found == Found(archive, r, Hashes(Key(r, j)), LookupSlot(r))
<1>0. /\ Good(r, j) /\ j.pc = "archive" /\ j.pc \in Lookup
      /\ "504" \in Reply /\ "400" \in Reply
  BY DEF IInv, ArchiveGet, Lookup, Reply
<1>1. Good(r, Missed(r, j)) /\ Good(r, LookupFailed(j))
  BY <1>0, MissedGood, AnswerGood DEF LookupFailed
<1>2. \A e \in found : e \in RoadEdge
  BY FoundInStore DEF IInv
<1> HIDE DEF found
<1>3. \A e \in found : Good(r, [j EXCEPT !.pc = "promote", !.held = e])
  BY <1>0, <1>2, HoldGood
<1>4. \E k : Good(r, k) /\ Do(r, k)
  BY <1>1, <1>3 DEF ArchiveGet, found
<1> QED
  BY <1>4, LocalInv DEF ArchiveGet

LEMMA RedisPutRoad ==
    ASSUME IInv, NEW j, NEW e \in RoadEdge, RedisPut(j, e)
    PROVE  redis' \subseteq RoadEdge
BY WriteRoad DEF RedisPut, IInv

LEMMA PromoteInv ==
    ASSUME IInv, NEW r \in Request, Promote(r)
    PROVE  IInv'
<1> DEFINE j == job[r]
<1>0. /\ Good(r, j) /\ j.pc = "promote" /\ j.pc \in Lookup /\ j.held \in RoadEdge
  BY DEF IInv, Promote, Lookup, Good, Shape, Sourced
<1>1. Good(r, Hit(r, j, Cached(j.held)))
  BY <1>0, CachedEdge, HitGood
<1>2. redis' \subseteq RoadEdge
  BY <1>0, RedisPutRoad DEF Promote
<1>3. DOMAIN job' = Request /\ \A q \in Request : Good(q, job'[q])
  BY <1>1, DoGood DEF Promote
<1> QED
  BY <1>2, <1>3 DEF Promote, IInv

LEMMA MakePlanInv ==
    ASSUME IInv, NEW r \in Request, MakePlan(r)
    PROVE  IInv'
<1> DEFINE j == job[r]
<1>0. Good(r, j) /\ j.pc = "plan" /\ j.pc \notin {"idle", "replied"} /\ "504" \in Reply
  BY DEF IInv, MakePlan, Reply
<1>1. Good(r, TimedOut(j))
  BY <1>0, AnswerGood DEF TimedOut
<1>2. Plan(N(r), j.miss) \in Seq(Seq(Cell(r)))
  <2>1. j.miss \in SUBSET OffDiagonal(r) /\ j.miss # {}
    BY <1>0 DEF Good, Job, Shape
  <2>2. PlanContract(N(r), j.miss)
    BY <2>1, PlanAssumption
  <2> QED
    BY <2>2 DEF PlanContract, Covers, Cells, Cell
<1>3. Good(r, [j EXCEPT !.pc = "next", !.stage = "walk", !.walks = Plan(N(r), j.miss)])
  BY <1>0, <1>2, PlannedGood
<1>4. \E k : Good(r, k) /\ Do(r, k)
  BY <1>1, <1>3 DEF MakePlan
<1> QED
  BY <1>4, LocalInv DEF MakePlan

LEMMA WalkNextInv ==
    ASSUME IInv, NEW r \in Request, WalkNext(r)
    PROVE  IInv'
<1> DEFINE j == job[r]
<1>0. /\ Good(r, j) /\ j.pc = "next" /\ j.stage = "walk" /\ "504" \in Reply
      /\ j.pc \notin {"idle", "replied"}
  BY DEF IInv, WalkNext, Reply
<1>1. Good(r, TimedOut(j)) /\ Good(r, StartFill(j))
  BY <1>0, AnswerGood, StartFillGood DEF TimedOut
<1>2. j.walks # <<>> => Good(r, [j EXCEPT !.pc = "call"])
  BY <1>0, MoveOnlyGood
<1>3. \E k : Good(r, k) /\ Do(r, k)
  BY <1>1, <1>2 DEF WalkNext
<1> QED
  BY <1>3, LocalInv DEF WalkNext

LEMMA CallReturnsInv ==
    ASSUME IInv, NEW r \in Request, CallReturns(r)
    PROVE  IInv'
<1> DEFINE j == job[r]
           n == Len(Legs(r, j))
<1>a. Good(r, j) /\ j.pc = "call" /\ "504" \in Reply
  BY DEF IInv, CallReturns, Reply
<1>b. j.stage \in {"walk", "fill"}
  BY <1>a DEF Good, Job, Shape, Buying
<1>c. n \in Nat /\ (j.stage = "fill" => n = 1)
  BY <1>a, LegsType
<1>0. /\ Good(r, j) /\ j.pc = "call" /\ "504" \in Reply /\ j.stage \in {"walk", "fill"}
      /\ n \in Nat /\ (j.stage = "fill" => n = 1)
  BY <1>a, <1>b, <1>c
<1>1. Good(r, TimedOut(j))
  BY <1>0, AnswerGood DEF TimedOut
<1>2. \A k \in 0 .. n, src \in {"provider", "fallback"} :
         (j.stage = "fill" => k # 0) => Good(r, Returned(r, j, Steps(r, j, k, src)))
  BY <1>0, ReturnedGood
<1> HIDE DEF n
<1>3. \E k : Good(r, k) /\ Do(r, k)
  <2>1. \A k \in IF "short" \in Faults /\ j.stage = "walk" THEN 0 .. n ELSE {n} :
           k \in 0 .. n /\ (j.stage = "fill" => k # 0)
    BY <1>0
  <2>2. n \in 0 .. n /\ (j.stage = "fill" => n # 0)
    BY <1>0
  <2> QED
    BY <1>1, <1>2, <2>1, <2>2 DEF CallReturns, n
<1> QED
  BY <1>3, LocalInv DEF CallReturns

LEMMA AbsorbInv ==
    ASSUME IInv, NEW r \in Request, Absorb(r)
    PROVE  IInv'
<1> DEFINE j == job[r]
           s == Head(j.steps)
           k == IF j.stage = "walk" THEN [j EXCEPT !.seg[PairOf(s)] = s] ELSE j
<1>0. Good(r, j) /\ j.pc = "absorb"
  BY DEF IInv, Absorb
<1>1. CASE j.steps = <<>>
  BY <1>0, <1>1, LoopOnGood, LocalInv DEF Absorb
<1>2. CASE j.steps # <<>>
  <2>1. Good(r, k) /\ k.pc = "absorb" /\ k.steps = j.steps /\ k.banked = j.banked
    <3>1. CASE j.stage = "walk"
      <4>1. k = [j EXCEPT !.seg[PairOf(s)] = s]
        BY <3>1
      <4>2. Good(r, k)
        BY <1>0, <1>2, <3>1, <4>1, AbsorbSegGood
      <4>3. k.pc = j.pc /\ k.steps = j.steps /\ k.banked = j.banked
        BY <1>0, <4>1, Zenon DEF Good, Job
      <4> QED
        BY <1>0, <4>2, <4>3
    <3>2. CASE j.stage # "walk"
      BY <1>0, <3>2
    <3> QED
      BY <3>1, <3>2
  <2> HIDE DEF k
  <2>2. Good(r, Absorbed(r, k))
    BY <1>2, <2>1, AbsorbedGood
  <2>3. Durable(s) => Good(r, [k EXCEPT !.pc = "put"])
    <3>1. s = k.steps[1] /\ k.banked \in BOOLEAN /\ k.steps \in Seq(Segment)
          /\ k.steps[1].src # "cache" /\ k.steps[1] \in Segment
      BY <1>2, <2>1 DEF Good, Job, Sourced, StepsSourced
    <3>2. k.steps[1].src \in {"provider", "cache", "fallback"}
      BY <3>1, Zenon DEF Segment
    <3>3. [k EXCEPT !.pc = "put"] = [k EXCEPT !.pc = "put", !.banked = k.banked]
      BY <2>1, Zenon DEF Good, Job
    <3> QED
      BY <1>2, <2>1, <3>1, <3>2, <3>3, PutNextGood DEF Durable
  <2>4. \E q : Good(r, q) /\ Do(r, q)
    BY <1>2, <2>2, <2>3 DEF Absorb, k
  <2> QED
    BY <2>4, LocalInv DEF Absorb
<1> QED
  BY <1>1, <1>2

LEMMA PutEdgeInv ==
    ASSUME IInv, NEW r \in Request, PutEdge(r)
    PROVE  IInv'
<1> DEFINE j == job[r]
           b == j.banked \/ redis' # redis
<1>0. /\ Good(r, j) /\ j.pc = "put" /\ b \in BOOLEAN
      /\ j.steps \in Seq(Segment) /\ j.steps # <<>> /\ j.steps[1].src = "provider"
  BY DEF IInv, PutEdge, Good, Shape, Sourced, Job
<1>1. Head(j.steps) \in RoadEdge
  <2>1. Head(j.steps) = j.steps[1] /\ 1 \in DOMAIN j.steps /\ j.steps[1] \in Segment
    BY <1>0
  <2>2. j.steps[1].late \in BOOLEAN
    BY <2>1, Zenon DEF Segment
  <2> QED
    BY <1>0, <2>1, <2>2 DEF RoadEdge, Good, Sourced, StepsSourced
<1>2. redis' \subseteq RoadEdge
  BY <1>1, RedisPutRoad DEF PutEdge
<1> HIDE DEF b
<1>3. Good(r, [j EXCEPT !.pc = "enqueue", !.banked = b])
  BY <1>0, PutNextGood
<1>4. [j EXCEPT !.pc = "enqueue", !.banked = @ \/ redis' # redis]
         = [j EXCEPT !.pc = "enqueue", !.banked = b]
  BY DEF b
<1>5. DOMAIN job' = Request /\ \A q \in Request : Good(q, job'[q])
  BY <1>3, <1>4, DoGood DEF PutEdge
<1> QED
  BY <1>2, <1>5 DEF PutEdge, IInv

\* The queue never grows over its capacity.
LEMMA OfferRoad ==
    ASSUME NEW q \in Seq(RoadEdge), Len(q) <= QueueCap, NEW e \in RoadEdge
    PROVE  Offer(q, e) \in Seq(RoadEdge) /\ Len(Offer(q, e)) <= QueueCap
BY BoundAssumption DEF Offer

LEMMA EnqueueInv ==
    ASSUME IInv, NEW r \in Request, Enqueue(r)
    PROVE  IInv'
<1> DEFINE j == job[r]
           e == Head(j.steps)
<1>0. /\ Good(r, j) /\ j.pc = "enqueue"
      /\ j.steps \in Seq(Segment) /\ j.steps # <<>> /\ j.steps[1].src = "provider"
  BY DEF IInv, Enqueue, Good, Shape, Sourced, Job
<1>1. e \in RoadEdge
  <2>1. e = j.steps[1] /\ 1 \in DOMAIN j.steps /\ j.steps[1] \in Segment
    BY <1>0
  <2>2. j.steps[1].late \in BOOLEAN
    BY <2>1, Zenon DEF Segment
  <2> QED
    BY <1>0, <2>1, <2>2 DEF RoadEdge, Good, Sourced, StepsSourced
<1>2. DOMAIN job' = Request /\ \A q \in Request : Good(q, job'[q])
  <2>1. Good(r, Absorbed(r, j))
    BY <1>0, AbsorbedGood
  <2> QED
    BY <2>1, DoGood DEF Enqueue
<1> HIDE DEF e
<1>3. queue' \in Seq(RoadEdge) /\ Len(queue') <= QueueCap
  BY <1>1, OfferRoad DEF Enqueue, IInv, e
<1>4. archive' \subseteq RoadEdge
  BY <1>1, UpsertRoad DEF Enqueue, IInv, e
<1> QED
  BY <1>2, <1>3, <1>4 DEF Enqueue, IInv

\* The only step that answers 200: behind the last cell the matrix is clean.
LEMMA FillNextInv ==
    ASSUME IInv, NEW r \in Request, FillNext(r)
    PROVE  IInv'
<1> DEFINE j == job[r]
           a == PairAt(r, j)
<1>a. Good(r, j) /\ j.pc = "next" /\ j.stage = "fill" /\ "504" \in Reply /\ "200" \in Reply
  BY DEF IInv, FillNext, Reply
<1>0. /\ Good(r, j) /\ j \in Job(r) /\ N(r) >= 2 /\ j.col <= N(r) /\ j.reply = "none"
      /\ j.pc = "next" /\ j.stage = "fill" /\ Calm(r, j) /\ j.pc \notin {"idle", "replied"}
      /\ "504" \in Reply /\ "200" \in Reply /\ N(r) \in Nat /\ j.row \in Nat
  BY <1>a, NType DEF Good, Shape, Sourced, Timely, Job, Calm
<1>1. CASE Over(r, j)
  <2>1. Good(r, Answer(j, "200"))
    BY <1>0, <1>1, AnswerGood DEF Over, Good, Timely
  <2> QED
    BY <1>1, <2>1, LocalInv DEF FillNext
<1>2. CASE ~Over(r, j) /\ FillOverdue(j)
  <2>1. Good(r, TimedOut(j))
    BY <1>0, AnswerGood DEF TimedOut
  <2> QED
    BY <1>2, <2>1, LocalInv DEF FillNext
<1>3. CASE ~Over(r, j) /\ ~FillOverdue(j)
  <2>0. j.row <= N(r) /\ ~j.late /\ Punctual(r, j) /\ CleanCells(r, j) /\ StepsSourced(j)
    BY <1>0, <1>3 DEF Over, FillOverdue, Calm, Punctual
  <2>1. CASE j.row = j.col
    <3>1. Good(r, Advance(r, j))
      BY <1>0, <2>0, AdvanceGood
    <3> QED
      BY <1>3, <2>1, <3>1, LocalInv DEF FillNext
  <2>2. CASE j.row # j.col
    <3>0. a \in Arc /\ Swap(a) \in Arc /\ j.seg \in [Arc -> Segment \cup {None}]
      BY <1>0, <2>0, PairAtType DEF Swap, Arc, Job
    <3>1. \A x \in Arc : j.seg[x] # None => Good(r, SetCell(r, j, j.seg[x]))
      BY <1>0, <2>0, <2>2, <3>0, SetCellGood DEF Punctual, Clean
    <3>2. Good(r, [j EXCEPT !.pc = "redis"])
      BY <1>0, <2>0, <2>2, MoveOnlyGood
    <3> HIDE DEF a
    <3>3. \E k : Good(r, k) /\ Do(r, k)
      BY <1>3, <2>2, <3>0, <3>1, <3>2 DEF FillNext, a
    <3> QED
      BY <3>3, LocalInv DEF FillNext
  <2> QED
    BY <2>1, <2>2
<1> QED
  BY <1>1, <1>2, <1>3

LEMMA StepInv ==
    ASSUME IInv, NEW r \in Request, Step(r)
    PROVE  IInv'
BY ProbeNextInv, RedisGetInv, ArchiveGetInv, PromoteInv, MakePlanInv, WalkNextInv,
   CallReturnsInv, AbsorbInv, PutEdgeInv, EnqueueInv, FillNextInv DEF Step

LEMMA ExpireInv ==
    ASSUME IInv, NEW r \in Request, Expire(r)
    PROVE  IInv'
<1>1. Good(r, [job[r] EXCEPT !.late = TRUE])
  BY LateGood DEF IInv
<1> QED
  BY <1>1, LocalInv DEF Expire

LEMMA ArchiveWorkerInv ==
    ASSUME IInv, ArchiveWorker
    PROVE  IInv'
<1>1. /\ Head(queue) \in RoadEdge /\ Tail(queue) \in Seq(RoadEdge)
      /\ Len(Tail(queue)) <= QueueCap
  BY BoundAssumption DEF IInv, ArchiveWorker
<1>2. archive' \subseteq RoadEdge
  BY <1>1, UpsertRoad DEF IInv, ArchiveWorker
<1> QED
  BY <1>1, <1>2 DEF IInv, ArchiveWorker

LEMMA CrashInv ==
    ASSUME IInv, Crash
    PROVE  IInv'
<1>1. \A r \in Request : Good(r, Answer(job[r], "dropped"))
  BY AnswerGood DEF IInv, Reply
<1>2. DOMAIN job' = Request /\ \A r \in Request : Good(r, job'[r])
  BY <1>1 DEF IInv, Crash
<1>3. <<>> \in Seq(RoadEdge) /\ Len(<<>>) <= QueueCap
  BY BoundAssumption
<1> QED
  BY <1>2, <1>3 DEF IInv, Crash

LEMMA NextInv == IInv /\ [Next]_vars => IInv'
<1> SUFFICES ASSUME IInv, [Next]_vars PROVE IInv'
  OBVIOUS
<1>1. CASE \E r \in Request : Submit(r) \/ Step(r) \/ Expire(r)
  BY <1>1, SubmitInv, StepInv, ExpireInv
<1>2. CASE ArchiveWorker
  BY <1>2, ArchiveWorkerInv
<1>3. CASE \E a \in Arc : Evict(Hashes(a))
  BY <1>3 DEF Evict, IInv
<1>4. CASE Tick
  BY <1>4, BoundAssumption DEF Tick, IInv, stores, Hour
<1>5. CASE Crash
  BY <1>5, CrashInv
<1>6. CASE UNCHANGED vars
  BY <1>6 DEF vars, IInv
<1> QED
  BY <1>1, <1>2, <1>3, <1>4, <1>5, <1>6 DEF Next

LEMMA Invariance == Spec => []IInv
BY InitInv, NextInv, PTL DEF Spec

-----------------------------------------------------------------------------
(* The theorems *)

\* Every variable stays in its type: in particular no loop leaves the matrix
\* and the queue of the asynchronous writer keeps to its capacity.
THEOREM TypeCorrect == Spec => []TypeOK
<1>1. IInv => TypeOK
  BY DEF IInv, TypeOK, Good, RoadEdge
<1> QED
  BY <1>1, Invariance, PTL

\* No estimate reaches Redis, the archive or the queue, whatever fails,
\* whenever the deadline passes and however often the process is killed.
THEOREM RoadDataOnly == Spec => []StoresHoldRoadData
<1>1. IInv => StoresHoldRoadData
  BY DEF IInv, StoresHoldRoadData, RoadEdge
<1> QED
  BY <1>1, Invariance, PTL

\* A client never gets a 200 with a segment that was only estimated because
\* its own deadline cancelled the provider call.
THEOREM NeverCutShort == Spec => []NoCutAnswer
<1>1. IInv => NoCutAnswer
  BY DEF IInv, NoCutAnswer, Good, Timely, CleanCells, Clean
<1> QED
  BY <1>1, Invariance, PTL
-----------------------------------------------------------------------------
(* What a 200 contains: Fit(r, j, h) says of the local state j of one call, at *)
(* hour h, that whatever it has filed is an answer to the pair it is filed     *)
(* under, and that the fill loop leaves no empty cell behind it.               *)


\* The hours the request may be answered with: from its start to its own slot,
\* or to the present.
Slack(r) == IF r \in Strict THEN 0 ELSE 1
Latest(r, h) == IF r \in Pinned THEN SlotOf[r] ELSE h
InTime(r, start, h, s) ==
    start - Slack(r) <= s.slot /\ s.slot <= Latest(r, h) + Slack(r)

\* s is an answer for the pair a, if it is a segment at all.
FitsPair(r, start, h, a, s) == s # None => PairFits(r, a, s) /\ InTime(r, start, h, s)

CellPair(r, c) == <<Waypoints[r][c[1]], Waypoints[r][c[2]]>>

\* A call fixes its slot when it starts.
Begun(r, j, h) == j.pc # "idle" =>
    /\ j.start <= Latest(r, h)
    /\ r \in Pinned => j.start = SlotOf[r]

\* Everything the call has filed.
Filed(r, j, h) ==
    /\ \A a \in Arc : FitsPair(r, j.start, h, a, j.seg[a])
    /\ \A c \in Cell(r) : FitsPair(r, j.start, h, CellPair(r, c), j.cells[c])
    /\ \A k \in DOMAIN j.steps : InTime(r, j.start, h, j.steps[k])

Before(c, j) == c[1] < j.row \/ (c[1] = j.row /\ c[2] < j.col)

\* The cells the fill loop has left behind are filled.
Filled(r, j) == \A c \in OffDiagonal(r) : Before(c, j) => j.cells[c] # None

\* What is pending, and where.
Pending(r, j, h) ==
    /\ j.pc \notin {"absorb", "put", "enqueue"} => j.steps = <<>>
    /\ j.rev => r \notin Strict /\ j.pc \in Lookup /\ j.stage = "probe"
    /\ j.pc = "promote" => FitsPair(r, j.start, h, Key(r, j), j.held)
    /\ j.stage = "fill" => \A k \in DOMAIN j.steps : PairOf(j.steps[k]) = PairAt(r, j)
    /\ j.stage = "fill" => Filled(r, j)
    /\ j.reply = "200" => \A c \in OffDiagonal(r) : j.cells[c] # None

Fit(r, j, h) == Begun(r, j, h) /\ Filed(r, j, h) /\ Pending(r, j, h)

FitInv == \A r \in Request : Fit(r, job[r], hour)

-----------------------------------------------------------------------------
(* Facts about the data *)

LEMMA SlotType == \A r \in Request, h \in Hour :
                      SlotOf[r] \in Hour /\ Latest(r, h) \in Hour /\ Slack(r) \in {0, 1}
BY RequestAssumption DEF Latest, Slack

LEMMA HourType == \A h \in Hour : h \in Int
BY BoundAssumption DEF Hour

LEMMA NearItself == \A a \in Arc : CloseTo(Hashes(a)[1], Hashes(a)[1])
                                   /\ CloseTo(Hashes(a)[2], Hashes(a)[2])
BY PlaceAssumption DEF CloseTo, Hashes, Arc

\* An edge filed under the very hashes of a pair answers it; a non-strict
\* request takes the opposite direction as well.
LEMMA ExactFits ==
    ASSUME NEW r, NEW a \in Arc, NEW s, Hashes(PairOf(s)) = Hashes(a)
    PROVE  PairFits(r, a, s)
BY NearItself DEF PairFits

LEMMA ReverseFits ==
    ASSUME NEW r, NEW a, NEW s, r \notin Strict, PairFits(r, Swap(a), s)
    PROVE  PairFits(r, a, s)
BY DEF PairFits, Hashes, Swap

\* What a lookup finds is filed under the hashes looked for, in a slot tried.
LEMMA FoundFits ==
    ASSUME NEW r \in Request, NEW store, NEW hs, NEW s \in Hour, NEW e \in Found(store, r, hs, s)
    PROVE  /\ Hashes(PairOf(e)) = hs
           /\ s - Slack(r) <= e.slot /\ e.slot <= s + Slack(r)
<1>1. PICK k \in DOMAIN SlotsTried(r, s) :
          Hashes(PairOf(e)) = hs /\ e.slot = SlotsTried(r, s)[k]
  BY DEF Found
<1>2. s \in Int
  BY HourType
<1>3. CASE r \in Strict
  BY <1>1, <1>2, <1>3 DEF SlotsTried, Slack
<1>4. CASE r \notin Strict
  BY <1>1, <1>2, <1>4 DEF SlotsTried, Slack
<1> QED
  BY <1>3, <1>4

\* The spatial search stays within the neighbourhood of both ends.
LEMMA FuzzyFits ==
    ASSUME NEW r \in Request, NEW a \in Arc, NEW s \in Hour, NEW e \in Fuzzy(r, Hashes(a), s)
    PROVE  /\ PairFits(r, a, e)
           /\ s - Slack(r) <= e.slot /\ e.slot <= s + Slack(r)
<1>1. r \notin Strict
  BY DEF Fuzzy
<1>2. PICK b \in NearPairs(Hashes(a)) : e \in Found(redis, r, b, s)
  BY <1>1 DEF Fuzzy
<1>3. /\ Hashes(PairOf(e)) = b
      /\ s - Slack(r) <= e.slot /\ e.slot <= s + Slack(r)
  BY <1>2, FoundFits
<1> QED
  BY <1>1, <1>2, <1>3 DEF NearPairs, PairFits

\* A lookup is made for a slot between the call's start and the latest one.
LEMMA LookupInTime ==
    ASSUME NEW r \in Request, hour \in Hour, NEW j \in Job(r), Begun(r, j, hour), j.pc # "idle",
           NEW e, e.slot \in Int, LookupSlot(r) - Slack(r) <= e.slot, e.slot <= LookupSlot(r) + Slack(r)
    PROVE  InTime(r, j.start, hour, e)
<1>1. j.start \in Int /\ LookupSlot(r) \in Int /\ LookupSlot(r) = Latest(r, hour) /\ Slack(r) \in Int
  BY SlotType, HourType DEF Job, LookupSlot, Latest
<1>2. j.start <= Latest(r, hour)
  BY DEF Begun
<1> QED
  BY <1>1, <1>2 DEF InTime

\* So is what is priced at the start itself.
LEMMA StartInTime ==
    ASSUME NEW r \in Request, NEW h \in Hour, NEW j \in Job(r), Begun(r, j, h), j.pc # "idle",
           NEW e, e.slot = j.start
    PROVE  InTime(r, j.start, h, e)
<1>1. j.start \in Int /\ Latest(r, h) \in Int /\ Slack(r) \in {0, 1}
  BY SlotType, HourType DEF Job
<1> QED
  BY <1>1 DEF Begun, InTime

-----------------------------------------------------------------------------
(* The local steps *)

\* Compute returns with code; a 200 takes a full matrix.
LEMMA AnswerFit ==
    ASSUME NEW r \in Request, NEW h \in Hour, NEW j, Good(r, j), Fit(r, j, h), NEW code \in Reply,
           j.pc # "idle",
           code = "200" => \A c \in OffDiagonal(r) : j.cells[c] # None
    PROVE  Fit(r, Answer(j, code), h)
<1> DEFINE a == Answer(j, code)
<1>0. j \in Job(r)
  BY DEF Good
<1>1. /\ a.pc = "replied" /\ a.reply = code /\ a.steps = <<>> /\ a.rev = FALSE
      /\ a.row = 1 /\ a.col = 1 /\ a.start = j.start
      /\ a.stage = j.stage /\ a.cells = j.cells /\ a.seg = j.seg
  BY <1>0, Zenon DEF Answer, Job
<1> HIDE DEF a
<1>2. Begun(r, a, h) /\ Filed(r, a, h)
  BY <1>1 DEF Fit, Begun, Filed
<1>3. Filled(r, a)
  BY <1>1, NType DEF Filled, Before, OffDiagonal, Cell
<1>4. Pending(r, a, h)
  BY <1>1, <1>3 DEF Pending
<1> QED
  BY <1>2, <1>4 DEF Fit, a

\* The next cell; the fill leaves a cell off the diagonal filled.
LEMMA AdvanceFit ==
    ASSUME NEW r \in Request, NEW h \in Hour, NEW j \in Job(r), j.pc # "idle",
           Begun(r, j, h), Filed(r, j, h), j.steps = <<>>, j.reply = "none",
           N(r) >= 2, j.row <= N(r), j.col <= N(r),
           j.stage = "fill" => Filled(r, j),
           j.stage = "fill" /\ j.row # j.col => j.cells[Here(j)] # None
    PROVE  Fit(r, Advance(r, j), h)
<1> DEFINE a == Advance(r, j)
           x == IF j.col = N(r) THEN j.row + 1 ELSE j.row
           y == IF j.col = N(r) THEN 1 ELSE j.col + 1
<1>0. /\ j.row \in 1 .. N(r) /\ j.col \in 1 .. N(r) /\ N(r) \in Nat
  BY NType DEF Job
<1>a. \A c \in Cell(r) : c[1] \in 1 .. N(r) /\ c[2] \in 1 .. N(r) /\ c = <<c[1], c[2]>>
  BY DEF Cell
<1>b. \A c \in Cell(r) : (c[1] < x \/ (c[1] = x /\ c[2] < y)) => Before(c, j) \/ c = Here(j)
  BY <1>0, <1>a DEF Before, Here
<1>1. a = [j EXCEPT !.pc = "next", !.rev = FALSE, !.held = None, !.row = x, !.col = y]
  BY DEF Advance
<1> HIDE DEF x, y, a
<1>2. /\ a.pc = "next" /\ a.row = x /\ a.col = y /\ a.reply = j.reply /\ a.rev = FALSE
      /\ a.steps = j.steps /\ a.seg = j.seg /\ a.cells = j.cells /\ a.start = j.start
      /\ a.stage = j.stage
  BY <1>1, Zenon DEF Job
<1>3. Begun(r, a, h) /\ Filed(r, a, h)
  BY <1>2 DEF Begun, Filed
<1>4. j.stage = "fill" => Filled(r, a)
  <2> SUFFICES ASSUME j.stage = "fill", NEW c \in OffDiagonal(r), Before(c, a)
               PROVE  a.cells[c] # None
    BY DEF Filled
  <2>1. c \in Cell(r) /\ c[1] # c[2]
    BY DEF OffDiagonal
  <2>2. Before(c, j) \/ c = Here(j)
    BY <1>2, <1>b, <2>1 DEF Before
  <2> QED
    BY <1>2, <2>1, <2>2 DEF Filled, Here
<1>5. Pending(r, a, h)
  BY <1>2, <1>4 DEF Pending
<1> QED
  BY <1>3, <1>5 DEF Fit, a

\* The state of a call between two cells: nothing is pending.
Idling(r, j, h) ==
    /\ j \in Job(r) /\ j.pc # "idle"
    /\ Begun(r, j, h) /\ Filed(r, j, h)
    /\ j.steps = <<>> /\ j.reply = "none" /\ N(r) >= 2
    /\ j.stage = "fill" => Filled(r, j)

\* A cell off the diagonal is filled with an answer to its pair.
LEMMA SetCellFit ==
    ASSUME NEW r \in Request, NEW h \in Hour, NEW j, Idling(r, j, h),
           j.row <= N(r), j.col <= N(r), j.row # j.col, j.stage = "fill",
           NEW s \in Segment, FitsPair(r, j.start, h, PairAt(r, j), s)
    PROVE  Fit(r, SetCell(r, j, s), h)
<1> DEFINE f == [j.cells EXCEPT ![Here(j)] = s]
           a == [j EXCEPT !.cells = f]
<1>0. /\ Here(j) \in Cell(r) /\ j \in Job(r) /\ f \in [Cell(r) -> Segment \cup {None}]
      /\ \A c \in Cell(r) : f[c] = (IF c = Here(j) THEN s ELSE j.cells[c])
  BY PairAtType DEF Idling, Job
<1>1. SetCell(r, j, s) = Advance(r, a)
  BY DEF SetCell
<1> HIDE DEF f
<1>2. a \in Job(r)
  BY <1>0, Zenon DEF Job
<1>3. /\ a.row = j.row /\ a.col = j.col /\ a.reply = j.reply /\ a.steps = j.steps
      /\ a.seg = j.seg /\ a.cells = f /\ a.start = j.start /\ a.stage = j.stage /\ a.pc = j.pc
  BY <1>0, Zenon DEF Job
<1> HIDE DEF a
<1>4. Begun(r, a, h)
  BY <1>3 DEF Idling, Begun
<1>5. Filed(r, a, h)
  <2>1. CellPair(r, Here(j)) = PairAt(r, j)
    BY DEF CellPair, Here, PairAt
  <2> QED
    BY <1>0, <1>3, <2>1 DEF Idling, Filed
<1>6. Filled(r, a) /\ a.cells[Here(a)] # None
  <2>1. Here(a) = Here(j)
    BY <1>3 DEF Here
  <2>2. \A c \in OffDiagonal(r) : c \in Cell(r) /\ (Before(c, a) <=> Before(c, j))
    BY <1>3 DEF Before, OffDiagonal
  <2> QED
    BY <1>0, <1>3, <2>1, <2>2, NoneIsNoSegment DEF Idling, Filled
<1> QED
  BY <1>1, <1>2, <1>3, <1>4, <1>5, <1>6, AdvanceFit DEF Idling

\* lookupEdge succeeds with an answer to the pair looked up.
LEMMA HitFit ==
    ASSUME NEW r \in Request, NEW h \in Hour, NEW j, Good(r, j), Fit(r, j, h), j.pc \in Lookup,
           NEW s \in Segment, FitsPair(r, j.start, h, Key(r, j), s)
    PROVE  Fit(r, Hit(r, j, s), h)
<1>0. /\ j \in Job(r) /\ j.row <= N(r) /\ j.col <= N(r) /\ j.row # j.col
      /\ Idling(r, j, h) /\ j.stage \in {"probe", "fill"}
  BY DEF Good, Shape, Fit, Pending, Idling, Job, Lookup
<1>1. CASE j.stage = "fill"
  <2>1. Key(r, j) = PairAt(r, j)
    BY <1>1 DEF Key, Fit, Pending
  <2> QED
    BY <1>0, <1>1, <2>1, SetCellFit DEF Hit
<1>2. CASE j.stage = "probe"
  <2> DEFINE f == [j.seg EXCEPT ![Key(r, j)] = s]
             a == [j EXCEPT !.seg = f]
  <2>0. Key(r, j) \in Arc /\ f \in [Arc -> Segment \cup {None}]
        /\ \A c \in Arc : f[c] = (IF c = Key(r, j) THEN s ELSE j.seg[c])
    BY <1>0, PairAtType DEF Job
  <2>1. Hit(r, j, s) = Advance(r, a)
    BY <1>2 DEF Hit
  <2> HIDE DEF f
  <2>2. a \in Job(r)
    BY <1>0, <2>0, Zenon DEF Job
  <2>3. /\ a.row = j.row /\ a.col = j.col /\ a.reply = j.reply /\ a.steps = j.steps
        /\ a.seg = f /\ a.cells = j.cells /\ a.start = j.start /\ a.stage = j.stage
        /\ a.pc = j.pc
    BY <1>0, Zenon DEF Job
  <2> HIDE DEF a
  <2>4. Begun(r, a, h) /\ Filed(r, a, h)
    BY <1>0, <2>0, <2>3 DEF Idling, Begun, Filed
  <2> QED
    BY <1>0, <1>2, <2>1, <2>2, <2>3, <2>4, AdvanceFit DEF Idling
<1> QED
  BY <1>0, <1>1, <1>2

\* A step that keeps what is filed, filled and pending.
Steady(a, j) ==
    /\ a.row = j.row /\ a.col = j.col /\ a.reply = j.reply /\ a.steps = j.steps
    /\ a.seg = j.seg /\ a.cells = j.cells /\ a.start = j.start
    /\ a.held = j.held

LEMMA SteadyFit ==
    ASSUME NEW r \in Request, NEW h, NEW j, Fit(r, j, h), NEW a, Steady(a, j),
           j.pc # "idle",
           a.pc \notin {"absorb", "put", "enqueue"} => j.steps = <<>>,
           a.rev => r \notin Strict /\ a.pc \in Lookup /\ a.stage = "probe",
           a.pc # "promote",
           a.stage = "fill" => j.stage = "fill"
    PROVE  Fit(r, a, h)
<1>1. Begun(r, a, h) /\ Filed(r, a, h)
  BY DEF Steady, Fit, Begun, Filed
<1>2. j.stage = "fill" => Filled(r, a)
  BY DEF Steady, Fit, Pending, Filled, Before
<1>3. j.stage = "fill" => \A k \in DOMAIN a.steps : PairOf(a.steps[k]) = PairAt(r, a)
  BY DEF Steady, Fit, Pending, PairAt
<1>4. Pending(r, a, h)
  BY <1>2, <1>3 DEF Steady, Fit, Pending
<1> QED
  BY <1>1, <1>4 DEF Fit

\* The control moves on to a lookup, to the planner, to a call.
LEMMA MoveFit ==
    ASSUME NEW r \in Request, NEW h, NEW j, Good(r, j), Fit(r, j, h),
           NEW p \in {"redis", "archive", "plan", "call"},
           j.pc \notin {"idle", "absorb", "put", "enqueue"}, NEW v \in BOOLEAN,
           v => r \notin Strict /\ p \in Lookup /\ j.stage = "probe"
    PROVE  Fit(r, [j EXCEPT !.pc = p, !.rev = v], h)
<1> DEFINE a == [j EXCEPT !.pc = p, !.rev = v]
<1>0. j \in Job(r)
  BY DEF Good
<1>1. Steady(a, j) /\ a.pc = p /\ a.rev = v /\ a.stage = j.stage
  BY <1>0, Zenon DEF Job, Steady
<1> HIDE DEF a
<1>2. j.steps = <<>>
  BY DEF Fit, Pending
<1> QED
  BY <1>1, <1>2, SteadyFit DEF a

LEMMA MoveOnlyFit ==
    ASSUME NEW r \in Request, NEW h, NEW j, Good(r, j), Fit(r, j, h),
           NEW p \in {"redis", "archive", "plan", "call"},
           j.pc \notin {"idle", "absorb", "put", "enqueue"},
           p \in Lookup \/ ~j.rev
    PROVE  Fit(r, [j EXCEPT !.pc = p], h)
<1>1. j.rev \in BOOLEAN
  BY DEF Good, Job
<1>2. [j EXCEPT !.pc = p] = [j EXCEPT !.pc = p, !.rev = j.rev]
  BY Zenon DEF Good, Job
<1>3. j.rev => r \notin Strict /\ p \in Lookup /\ j.stage = "probe"
  BY DEF Fit, Pending
<1> QED
  BY <1>1, <1>2, <1>3, MoveFit

\* lookupEdge finds nothing.
LEMMA MissedFit ==
    ASSUME NEW r \in Request, NEW h \in Hour, NEW j, Good(r, j), Fit(r, j, h), j.pc \in Lookup
    PROVE  Fit(r, Missed(r, j), h)
<1>0. /\ j \in Job(r) /\ j.row <= N(r) /\ j.col <= N(r) /\ j.row # j.col
      /\ Idling(r, j, h) /\ j.stage \in {"probe", "fill"}
      /\ j.pc \notin {"idle", "absorb", "put", "enqueue"}
  BY DEF Good, Shape, Fit, Pending, Idling, Job, Lookup
<1>1. CASE j.stage = "fill"
  <2>1. ~j.rev
    BY <1>1 DEF Fit, Pending
  <2> QED
    BY <1>0, <1>1, <2>1, MoveOnlyFit DEF Missed
<1>2. CASE j.stage # "fill" /\ ~j.rev /\ MayReverse(r)
  <2>1. Fit(r, [j EXCEPT !.pc = "redis", !.rev = TRUE], h)
    BY <1>0, <1>2, MoveFit DEF MayReverse, Lookup
  <2> QED
    BY <1>2, <2>1 DEF Missed
<1>3. CASE j.stage # "fill" /\ ~(~j.rev /\ MayReverse(r))
  <2> DEFINE a == [j EXCEPT !.miss = j.miss \cup {Here(j)}]
  <2>0. Here(j) \in OffDiagonal(r)
    BY <1>0, PairAtType DEF OffDiagonal, Here
  <2>b. j.miss \in SUBSET OffDiagonal(r)
    BY <1>0 DEF Job
  <2>c. j.miss \cup {Here(j)} \in SUBSET OffDiagonal(r)
    BY <2>0, <2>b
  <2>1. Missed(r, j) = Advance(r, a)
    BY <1>3 DEF Missed
  <2>2. a \in Job(r)
    BY <1>0, <2>c, Zenon DEF Job
  <2>3. /\ a.row = j.row /\ a.col = j.col /\ a.reply = j.reply /\ a.steps = j.steps
        /\ a.seg = j.seg /\ a.cells = j.cells /\ a.start = j.start /\ a.stage = j.stage
        /\ a.pc = j.pc
    BY <1>0, Zenon DEF Job
  <2> HIDE DEF a
  <2>4. Begun(r, a, h) /\ Filed(r, a, h)
    BY <1>0, <2>3 DEF Idling, Begun, Filed
  <2> QED
    BY <1>0, <1>3, <2>1, <2>2, <2>3, <2>4, AdvanceFit DEF Idling
<1> QED
  BY <1>1, <1>2, <1>3

\* The fill starts over at the first cell, with nothing behind it.
LEMMA StartFillFit ==
    ASSUME NEW r \in Request, NEW h, NEW j, Good(r, j), Fit(r, j, h), j.pc = "next"
    PROVE  Fit(r, StartFill(j), h)
<1> DEFINE a == StartFill(j)
<1>0. j \in Job(r) /\ j.reply = "none" /\ j.steps = <<>> /\ ~j.rev
  BY DEF Good, Shape, Fit, Pending, Lookup
<1>1. /\ a.pc = "next" /\ a.row = 1 /\ a.col = 1 /\ a.reply = j.reply /\ a.steps = j.steps
      /\ a.seg = j.seg /\ a.cells = j.cells /\ a.start = j.start /\ a.rev = j.rev
  BY <1>0, Zenon DEF StartFill, Job
<1> HIDE DEF a
<1>2. Begun(r, a, h) /\ Filed(r, a, h)
  BY <1>1 DEF Fit, Begun, Filed
<1>3. Filled(r, a)
  BY <1>1, NType DEF Filled, Before, OffDiagonal, Cell
<1> QED
  BY <1>0, <1>1, <1>2, <1>3 DEF Fit, Pending, a

\* A new attempt has filed nothing.
LEMMA FreshFit ==
    ASSUME NEW r \in Request, NEW h, NEW s \in Hour
    PROVE  /\ s <= Latest(r, h) /\ (r \in Pinned => s = SlotOf[r])
                 => Fit(r, Fresh(r, s), h) /\ Fit(r, Answer(Fresh(r, s), "400"), h)
           /\ Fit(r, [Fresh(r, s) EXCEPT !.pc = "idle"], h)
<1> DEFINE a == Fresh(r, s)
           b == Answer(a, "400")
           c == [a EXCEPT !.pc = "idle"]
<1>1. /\ a.pc = "next" /\ a.stage = "probe" /\ a.reply = "none" /\ a.start = s
      /\ a.steps = <<>> /\ ~a.rev
      /\ \A x \in Arc : a.seg[x] = None
      /\ \A x \in Cell(r) : a.cells[x] = None
  BY Zenon DEF Fresh
<1>2. /\ c.pc = "idle" /\ c.stage = "probe" /\ c.reply = "none"
      /\ c.steps = <<>> /\ ~c.rev
      /\ \A x \in Arc : c.seg[x] = None
      /\ \A x \in Cell(r) : c.cells[x] = None
  BY Zenon DEF Fresh
<1>3. /\ b.pc = "replied" /\ b.stage = "probe" /\ b.reply = "400" /\ b.start = s
      /\ b.steps = <<>> /\ ~b.rev
      /\ \A x \in Arc : b.seg[x] = None
      /\ \A x \in Cell(r) : b.cells[x] = None
  BY Zenon DEF Fresh, Answer
<1> HIDE DEF a, b, c
<1>4. s <= Latest(r, h) /\ (r \in Pinned => s = SlotOf[r]) => Fit(r, a, h)
  BY <1>1 DEF Fit, Begun, Filed, Pending, FitsPair
<1>5. s <= Latest(r, h) /\ (r \in Pinned => s = SlotOf[r]) => Fit(r, b, h)
  BY <1>3 DEF Fit, Begun, Filed, Pending, FitsPair
<1>6. Fit(r, c, h)
  BY <1>2 DEF Fit, Begun, Filed, Pending, FitsPair
<1> QED
  BY <1>4, <1>5, <1>6 DEF a, b, c

\* An archive edge that answers the pair looked up is held for promotion.
LEMMA HoldFit ==
    ASSUME NEW r \in Request, NEW h, NEW j, Good(r, j), Fit(r, j, h), j.pc = "archive",
           NEW e, FitsPair(r, j.start, h, Key(r, j), e)
    PROVE  Fit(r, [j EXCEPT !.pc = "promote", !.held = e], h)
<1> DEFINE a == [j EXCEPT !.pc = "promote", !.held = e]
<1>0. j \in Job(r)
  BY DEF Good
<1>1. /\ a.pc = "promote" /\ a.row = j.row /\ a.col = j.col /\ a.reply = j.reply
      /\ a.steps = j.steps /\ a.seg = j.seg /\ a.cells = j.cells /\ a.start = j.start
      /\ a.stage = j.stage /\ a.held = e /\ a.rev = j.rev
  BY <1>0, Zenon DEF Job
<1> HIDE DEF a
<1>2. Begun(r, a, h) /\ Filed(r, a, h)
  BY <1>1 DEF Fit, Begun, Filed
<1>3. Key(r, a) = Key(r, j)
  BY <1>1 DEF Key, PairAt
<1>4. j.stage = "fill" => Filled(r, a)
  BY <1>1 DEF Fit, Pending, Filled, Before
<1> QED
  BY <1>1, <1>2, <1>3, <1>4 DEF Fit, Pending, Lookup, a

\* The planner's walks replace the misses.
LEMMA PlannedFit ==
    ASSUME NEW r \in Request, NEW h, NEW j, Good(r, j), Fit(r, j, h), j.pc = "plan", NEW w
    PROVE  Fit(r, [j EXCEPT !.pc = "next", !.stage = "walk", !.walks = w], h)
<1> DEFINE a == [j EXCEPT !.pc = "next", !.stage = "walk", !.walks = w]
<1>0. j \in Job(r) /\ ~j.rev /\ j.steps = <<>>
  BY DEF Good, Fit, Pending, Lookup
<1>1. Steady(a, j) /\ a.pc = "next" /\ a.stage = "walk" /\ ~a.rev
  BY <1>0, Zenon DEF Job, Steady
<1> HIDE DEF a
<1> QED
  BY <1>0, <1>1, SteadyFit DEF a

\* A call's steps are priced for the request's slot, a fill step for its cell.
LEMMA StepsFit ==
    ASSUME NEW r \in Request, NEW j, NEW n \in Nat, NEW src
    PROVE  /\ DOMAIN Steps(r, j, n, src) = 1 .. n
           /\ \A k \in 1 .. n : Steps(r, j, n, src)[k].slot = j.start
           /\ j.stage = "fill" /\ n <= 1 =>
                \A k \in 1 .. n : PairOf(Steps(r, j, n, src)[k]) = PairAt(r, j)
<1> DEFINE q == Steps(r, j, n, src)
<1>1. DOMAIN q = 1 .. n
  BY DEF Steps
<1>2. \A k \in 1 .. n : /\ q[k].slot = j.start
                        /\ q[k].o = Legs(r, j)[k][1] /\ q[k].d = Legs(r, j)[k][2]
  BY Zenon DEF Steps
<1>3. j.stage = "fill" => Legs(r, j) = << PairAt(r, j) >>
  BY DEF Legs
<1>4. PairAt(r, j) = << PairAt(r, j)[1], PairAt(r, j)[2] >>
  BY DEF PairAt
<1> HIDE DEF q
<1>5. ASSUME j.stage = "fill", n <= 1, NEW k \in 1 .. n
      PROVE  PairOf(q[k]) = PairAt(r, j)
  <2>1. k = 1 /\ Legs(r, j)[k] = PairAt(r, j)
    BY <1>3, <1>5
  <2> QED
    BY <1>2, <1>4, <2>1 DEF PairOf
<1> QED
  BY <1>1, <1>2, <1>5 DEF q

\* The provider call is over.
LEMMA ReturnedFit ==
    ASSUME NEW r \in Request, NEW h \in Hour, NEW j, Good(r, j), Fit(r, j, h), j.pc = "call",
           NEW n \in 0 .. Len(Legs(r, j)), NEW src
    PROVE  Fit(r, Returned(r, j, Steps(r, j, n, src)), h)
<1> DEFINE q == Steps(r, j, n, src)
           a == Returned(r, j, q)
<1>0. j \in Job(r) /\ ~j.rev /\ j.reply = "none" /\ n \in Nat
  BY LegsType DEF Good, Shape, Fit, Pending, Lookup
<1>1. j.stage = "fill" => n <= 1
  BY DEF Legs
<1>2. /\ DOMAIN q = 1 .. n /\ \A k \in 1 .. n : q[k].slot = j.start
      /\ j.stage = "fill" => \A k \in 1 .. n : PairOf(q[k]) = PairAt(r, j)
  <2>1. /\ DOMAIN q = 1 .. n
        /\ \A k \in 1 .. n : q[k].slot = j.start
        /\ j.stage = "fill" /\ n <= 1 => \A k \in 1 .. n : PairOf(q[k]) = PairAt(r, j)
    BY <1>0, StepsFit, Zenon
  <2> HIDE DEF q
  <2> QED
    BY <1>1, <2>1, Zenon
<1> HIDE DEF q
<1>3. /\ a.pc = "absorb" /\ a.row = j.row /\ a.col = j.col /\ a.reply = j.reply
      /\ a.steps = q /\ a.seg = j.seg /\ a.cells = j.cells /\ a.start = j.start
      /\ a.stage = j.stage /\ a.rev = j.rev
  BY <1>0, Zenon DEF Returned, Job
<1> HIDE DEF a
<1>4. Begun(r, a, h)
  BY <1>3 DEF Fit, Begun
<1>5. Filed(r, a, h)
  <2>1. \A k \in DOMAIN q : InTime(r, j.start, h, q[k])
    BY <1>0, <1>2, StartInTime DEF Fit
  <2> QED
    BY <1>3, <2>1 DEF Fit, Filed
<1>6. j.stage = "fill" => Filled(r, a) /\ PairAt(r, a) = PairAt(r, j)
  BY <1>3 DEF Fit, Pending, Filled, Before, PairAt
<1> QED
  BY <1>0, <1>2, <1>3, <1>4, <1>5, <1>6 DEF Fit, Pending, a, q

\* On to the write-through of a step.
LEMMA PutNextFit ==
    ASSUME NEW r \in Request, NEW h, NEW j, Good(r, j), Fit(r, j, h), j.pc \in {"absorb", "put"},
           NEW p \in {"put", "enqueue"}, NEW b
    PROVE  Fit(r, [j EXCEPT !.pc = p, !.banked = b], h)
<1> DEFINE a == [j EXCEPT !.pc = p, !.banked = b]
<1>0. j \in Job(r) /\ ~j.rev
  BY DEF Good, Fit, Pending, Lookup
<1>1. Steady(a, j) /\ a.pc = p /\ a.stage = j.stage /\ ~a.rev
  BY <1>0, Zenon DEF Job, Steady
<1> HIDE DEF a
<1> QED
  BY <1>1, SteadyFit DEF a

\* The first pending step enters segmentByPair under its own pair.
LEMMA AbsorbSegFit ==
    ASSUME NEW r \in Request, NEW h, NEW j, Good(r, j), Fit(r, j, h),
           j.pc = "absorb", j.stage = "walk", j.steps # <<>>
    PROVE  Fit(r, [j EXCEPT !.seg[PairOf(Head(j.steps))] = Head(j.steps)], h)
<1> DEFINE s == Head(j.steps)
           f == [j.seg EXCEPT ![PairOf(s)] = s]
           a == [j EXCEPT !.seg = f]
<1>0. /\ j \in Job(r) /\ s \in Segment /\ s = j.steps[1] /\ 1 \in DOMAIN j.steps /\ ~j.rev
  BY DEF Good, Job, Fit, Pending, Lookup
<1>1. s.o \in Place /\ s.d \in Place
  BY <1>0, Zenon DEF Segment
<1>2. /\ PairOf(s) \in Arc
      /\ \A x \in Arc : f[x] = (IF x = PairOf(s) THEN s ELSE j.seg[x])
  BY <1>0, <1>1 DEF Job, PairOf, Arc
<1>3. FitsPair(r, j.start, h, PairOf(s), s)
  BY <1>0, <1>2, ExactFits DEF FitsPair, Fit, Filed
<1> HIDE DEF f
<1>4. /\ a.pc = j.pc /\ a.row = j.row /\ a.col = j.col /\ a.reply = j.reply
      /\ a.steps = j.steps /\ a.seg = f /\ a.cells = j.cells /\ a.start = j.start
      /\ a.stage = j.stage /\ a.rev = j.rev
  BY <1>0, Zenon DEF Job
<1> HIDE DEF a
<1>5. Begun(r, a, h) /\ Filed(r, a, h)
  BY <1>2, <1>3, <1>4 DEF Fit, Begun, Filed
<1> QED
  BY <1>0, <1>4, <1>5 DEF Fit, Pending, a, f

\* The first pending step has been dealt with.
LEMMA AbsorbedFit ==
    ASSUME NEW r \in Request, NEW h \in Hour, NEW j, Good(r, j), Fit(r, j, h),
           j.pc \in {"absorb", "enqueue"}, j.steps # <<>>
    PROVE  Fit(r, Absorbed(r, j), h)
<1>0. /\ j \in Job(r) /\ N(r) >= 2 /\ j.reply = "none" /\ j.stage \in {"walk", "fill"} /\ ~j.rev
      /\ Head(j.steps) = j.steps[1] /\ 1 \in DOMAIN j.steps /\ Head(j.steps) \in Segment
      /\ <<>> \in Seq(Segment)
      /\ \A k \in DOMAIN Tail(j.steps) : k + 1 \in DOMAIN j.steps /\ Tail(j.steps)[k] = j.steps[k + 1]
  BY DEF Good, Shape, Lookup, Buying, Job, Fit, Pending
<1>1. CASE j.stage = "fill"
  <2> DEFINE a == [j EXCEPT !.steps = <<>>]
             s == Head(j.steps)
  <2>1. a \in Job(r)
    BY <1>0, Zenon DEF Job
  <2>2. /\ a.row = j.row /\ a.col = j.col /\ a.reply = j.reply /\ a.steps = <<>>
        /\ a.seg = j.seg /\ a.cells = j.cells /\ a.start = j.start /\ a.stage = j.stage
        /\ a.pc = j.pc
    BY <1>0, Zenon DEF Job
  <2>3. Absorbed(r, j) = SetCell(r, a, s)
    BY <1>1 DEF Absorbed
  <2> HIDE DEF a
  <2>4. Filled(r, a) /\ PairAt(r, a) = PairAt(r, j)
    BY <1>1, <2>2 DEF Fit, Pending, Filled, Before, PairAt
  <2>5. Idling(r, a, h)
    BY <1>0, <2>1, <2>2, <2>4 DEF Idling, Fit, Begun, Filed
  <2>6. a.row <= N(r) /\ a.col <= N(r) /\ a.row # a.col
    BY <1>0, <1>1, <2>2 DEF Good, Shape, Buying
  <2>7. PairAt(r, j) \in Arc
    BY <1>0, <2>2, <2>6, PairAtType
  <2>8. FitsPair(r, a.start, h, PairAt(r, a), s)
    <3>1. PairOf(s) = PairAt(r, j) /\ InTime(r, j.start, h, s)
      BY <1>0, <1>1 DEF Fit, Filed, Pending
    <3> HIDE DEF s
    <3> QED
      BY <2>2, <2>4, <2>7, <3>1, ExactFits DEF FitsPair
  <2> QED
    BY <1>0, <1>1, <2>2, <2>3, <2>5, <2>6, <2>8, SetCellFit
<1>2. CASE j.stage = "walk"
  <2> DEFINE q == Tail(j.steps)
             a == [j EXCEPT !.pc = "absorb", !.steps = q]
  <2>1. Absorbed(r, j) = a
    BY <1>2 DEF Absorbed
  <2>2. \A k \in DOMAIN q : k + 1 \in DOMAIN j.steps /\ q[k] = j.steps[k + 1]
    BY <1>0
  <2> HIDE DEF q
  <2>3. /\ a.pc = "absorb" /\ a.row = j.row /\ a.col = j.col /\ a.reply = j.reply
        /\ a.steps = q /\ a.seg = j.seg /\ a.cells = j.cells /\ a.start = j.start
        /\ a.stage = j.stage /\ a.rev = j.rev
    BY <1>0, Zenon DEF Job
  <2> HIDE DEF a
  <2>4. Begun(r, a, h) /\ Filed(r, a, h)
    BY <1>2, <2>2, <2>3 DEF Fit, Begun, Filed
  <2> QED
    BY <1>0, <1>2, <2>1, <2>3, <2>4 DEF Fit, Pending
<1> QED
  BY <1>0, <1>1, <1>2

\* The last step of a walk's call is done; or the deadline passes.
LEMMA LoopOnFit ==
    ASSUME NEW r \in Request, NEW h, NEW j, Good(r, j), Fit(r, j, h),
           j.pc = "absorb", j.steps = <<>>
    PROVE  Fit(r, [j EXCEPT !.pc = "next"], h)
<1> DEFINE a == [j EXCEPT !.pc = "next"]
<1>0. j \in Job(r) /\ ~j.rev
  BY DEF Good, Fit, Pending, Lookup
<1>1. Steady(a, j) /\ a.pc = "next" /\ a.stage = j.stage /\ ~a.rev
  BY <1>0, Zenon DEF Job, Steady
<1> HIDE DEF a
<1> QED
  BY <1>1, SteadyFit DEF a

LEMMA LateFit ==
    ASSUME NEW r \in Request, NEW h, NEW j, Good(r, j), Fit(r, j, h)
    PROVE  Fit(r, [j EXCEPT !.late = TRUE], h)
<1> DEFINE a == [j EXCEPT !.late = TRUE]
<1>0. j \in Job(r)
  BY DEF Good
<1>1. Steady(a, j) /\ a.pc = j.pc /\ a.stage = j.stage /\ a.rev = j.rev
  BY <1>0, Zenon DEF Job, Steady
<1> HIDE DEF a
<1>2. Begun(r, a, h) /\ Filed(r, a, h)
  BY <1>1 DEF Steady, Fit, Begun, Filed
<1>3. j.stage = "fill" => Filled(r, a)
  BY <1>1 DEF Steady, Fit, Pending, Filled, Before
<1>4. Key(r, a) = Key(r, j) /\ PairAt(r, a) = PairAt(r, j)
  BY <1>1 DEF Steady, Key, PairAt
<1> QED
  BY <1>1, <1>2, <1>3, <1>4 DEF Steady, Fit, Pending, a

\* What was in time stays in time when the clock moves on.
LEMMA LaterFit ==
    ASSUME NEW r \in Request, NEW h \in Hour, h + 1 \in Hour, NEW j, Good(r, j), Fit(r, j, h)
    PROVE  Fit(r, j, h + 1)
<1>1. j \in Job(r)
  BY DEF Good
<1>2. Latest(r, h) <= Latest(r, h + 1) /\ Latest(r, h) \in Int /\ Latest(r, h + 1) \in Int
  BY SlotType, HourType DEF Latest
<1>3. j.start \in Int /\ Slack(r) \in {0, 1}
  BY <1>1, SlotType, HourType DEF Job
<1>4. \A s \in Segment : InTime(r, j.start, h, s) => InTime(r, j.start, h + 1, s)
  <2> SUFFICES ASSUME NEW s \in Segment, InTime(r, j.start, h, s)
               PROVE  InTime(r, j.start, h + 1, s)
    OBVIOUS
  <2>1. s.slot \in Hour
    BY Zenon DEF Segment
  <2>2. s.slot \in Int
    BY <2>1, HourType
  <2> QED
    BY <1>2, <1>3, <2>2 DEF InTime
<1>5. \A a, s : s \in Segment \cup {None} /\ FitsPair(r, j.start, h, a, s)
                   => FitsPair(r, j.start, h + 1, a, s)
  BY <1>4 DEF FitsPair
<1>6. /\ \A a \in Arc : j.seg[a] \in Segment \cup {None}
      /\ \A c \in Cell(r) : j.cells[c] \in Segment \cup {None}
      /\ \A k \in DOMAIN j.steps : j.steps[k] \in Segment
      /\ j.held \in Segment \cup {None}
  BY <1>1 DEF Job
<1>7. Begun(r, j, h + 1)
  BY <1>2, <1>3 DEF Fit, Begun
<1>8. Filed(r, j, h + 1)
  BY <1>4, <1>5, <1>6 DEF Fit, Filed
<1>9. Pending(r, j, h + 1)
  BY <1>5, <1>6 DEF Fit, Pending
<1> QED
  BY <1>7, <1>8, <1>9 DEF Fit

-----------------------------------------------------------------------------
(* The invariant *)

LEMMA InitFit == Init => FitInv
<1> SUFFICES ASSUME Init, NEW r \in Request PROVE Fit(r, job[r], hour)
  BY DEF FitInv
<1>1. 0 \in Hour
  BY BoundAssumption DEF Hour
<1>2. job[r] = [Fresh(r, 0) EXCEPT !.pc = "idle"]
  BY DEF Init
<1> QED
  BY <1>1, <1>2, FreshFit

\* One call moves to a fitting state while the clock stands: most steps.
LEMMA LocalFit ==
    ASSUME IInv, FitInv, NEW r \in Request, \E j : Fit(r, j, hour) /\ Do(r, j), hour' = hour
    PROVE  FitInv'
BY DEF IInv, FitInv, Do

LEMMA SubmitFit ==
    ASSUME IInv, FitInv, NEW r \in Request, Submit(r)
    PROVE  FitInv'
<1>1. Wmt(r) \in Hour /\ Wmt(r) = Latest(r, hour) /\ (r \in Pinned => Wmt(r) = SlotOf[r])
  BY RequestAssumption DEF Wmt, Latest, IInv
<1>2. Wmt(r) <= Latest(r, hour)
  BY <1>1, HourType
<1>3. Fit(r, Fresh(r, Wmt(r)), hour) /\ Fit(r, Answer(Fresh(r, Wmt(r)), "400"), hour)
  BY <1>1, <1>2, FreshFit
<1>4. \E k : Fit(r, k, hour) /\ Do(r, k)
  BY <1>3 DEF Submit
<1> QED
  BY <1>4, LocalFit DEF Submit

LEMMA ProbeNextFit ==
    ASSUME IInv, FitInv, NEW r \in Request, ProbeNext(r)
    PROVE  FitInv'
<1> DEFINE j == job[r]
<1>0. /\ Good(r, j) /\ Fit(r, j, hour) /\ hour \in Hour /\ j \in Job(r)
      /\ j.pc = "next" /\ j.stage = "probe" /\ "504" \in Reply
  BY DEF IInv, FitInv, ProbeNext, Reply, Good
<1>1. Fit(r, StartFill(j), hour) /\ Fit(r, TimedOut(j), hour)
  BY <1>0, StartFillFit, AnswerFit DEF TimedOut
<1>2. Fit(r, [j EXCEPT !.pc = "plan"], hour) /\ Fit(r, [j EXCEPT !.pc = "redis"], hour)
  <2>1. ~j.rev
    BY <1>0 DEF Fit, Pending, Lookup
  <2> QED
    BY <1>0, <2>1, MoveOnlyFit
<1>3. ~Over(r, j) => Fit(r, Advance(r, j), hour)
  <2> SUFFICES ASSUME ~Over(r, j) PROVE Fit(r, Advance(r, j), hour)
    OBVIOUS
  <2>1. N(r) >= 2 /\ j.row <= N(r) /\ j.col <= N(r) /\ j.reply = "none" /\ j.steps = <<>>
    BY <1>0, NType DEF Good, Shape, Fit, Pending, Over, Job
  <2> QED
    BY <1>0, <2>1, AdvanceFit DEF Fit
<1>4. \E k : Fit(r, k, hour) /\ Do(r, k)
  BY <1>1, <1>2, <1>3 DEF ProbeNext
<1> QED
  BY <1>4, LocalFit DEF ProbeNext

LEMMA CachedFits ==
    ASSUME NEW r, NEW start, NEW h, NEW a, NEW e \in RoadEdge,
           PairFits(r, a, e), InTime(r, start, h, e)
    PROVE  FitsPair(r, start, h, a, Cached(e))
<1>1. Cached(e).o = e.o /\ Cached(e).d = e.d /\ Cached(e).slot = e.slot
  BY Zenon DEF Cached, RoadEdge, Segment
<1> QED
  BY <1>1 DEF FitsPair, PairFits, InTime, PairOf

\* Whatever branch of the lookup answers, it answers the pair looked up.
LEMMA RedisGetFit ==
    ASSUME IInv, FitInv, NEW r \in Request, RedisGet(r)
    PROVE  FitInv'
<1> DEFINE j == job[r]
           a == Key(r, j)
           exact == Found(redis, r, Hashes(a), LookupSlot(r))
           fuzzy == Fuzzy(r, Hashes(a), LookupSlot(r))
           zero == [o |-> a[1], d |-> a[2], slot |-> LookupSlot(r),
                    src |-> "cache", late |-> FALSE]
<1>0. /\ Good(r, j) /\ Fit(r, j, hour) /\ hour \in Hour /\ j \in Job(r)
      /\ j.pc = "redis" /\ j.pc \in Lookup /\ j.pc # "idle"
      /\ "504" \in Reply /\ "400" \in Reply /\ a \in Arc
      /\ Begun(r, j, hour) /\ LookupSlot(r) \in Hour
  <2>1. /\ Good(r, job[r]) /\ Fit(r, job[r], hour) /\ hour \in Hour /\ job[r].pc = "redis"
    BY DEF IInv, FitInv, RedisGet
  <2>2. job[r] \in Job(r) /\ job[r].row <= N(r) /\ job[r].col <= N(r) /\ Begun(r, job[r], hour)
    BY <2>1 DEF Good, Shape, Lookup, Fit
  <2>3. LookupSlot(r) \in Hour
    BY <2>1, RequestAssumption DEF LookupSlot
  <2> QED
    BY <2>1, <2>2, <2>3, PairAtType DEF Lookup, Reply
<1>1. Fit(r, [j EXCEPT !.pc = "archive"], hour)
  BY <1>0, MoveOnlyFit DEF Lookup
<1>2. Fit(r, LookupFailed(j), hour)
  BY <1>0, AnswerFit DEF LookupFailed
<1> HIDE DEF a
<1>3. \A e \in exact \cup fuzzy : Fit(r, Hit(r, j, Cached(e)), hour)
  <2> SUFFICES ASSUME NEW e \in exact \cup fuzzy
               PROVE  Fit(r, Hit(r, j, Cached(e)), hour)
    OBVIOUS
  <2>1. e \in RoadEdge /\ e.slot \in Int
    <3>1. e \in RoadEdge
      BY FoundInStore, FuzzyInRedis DEF IInv
    <3>2. e.slot \in Hour
      BY <3>1, Zenon DEF RoadEdge, Segment
    <3> QED
      BY <3>1, <3>2, HourType
  <2>2. /\ PairFits(r, a, e)
        /\ LookupSlot(r) - Slack(r) <= e.slot /\ e.slot <= LookupSlot(r) + Slack(r)
    BY <1>0, FoundFits, ExactFits, FuzzyFits
  <2> HIDE DEF exact, fuzzy, j
  <2>3. InTime(r, j.start, hour, e)
    BY <1>0, <2>1, <2>2, LookupInTime
  <2>4. FitsPair(r, j.start, hour, a, Cached(e)) /\ Cached(e) \in Segment
    BY <2>1, <2>2, <2>3, CachedFits, CachedEdge
  <2> QED
    BY <1>0, <2>4, HitFit DEF a
<1>4. Fit(r, Hit(r, j, zero), hour)
  <2>1. a[1] \in Place /\ a[2] \in Place /\ a = <<a[1], a[2]>>
    BY <1>0 DEF Arc
  <2>2. zero \in Segment /\ zero.o = a[1] /\ zero.d = a[2] /\ zero.slot = LookupSlot(r)
    BY <1>0, <2>1, Zenon DEF Segment
  <2> HIDE DEF zero, j
  <2>3. PairFits(r, a, zero)
    BY <1>0, <2>1, <2>2, ExactFits DEF PairOf
  <2>4. InTime(r, j.start, hour, zero)
    <3>1. LookupSlot(r) \in Int /\ Slack(r) \in {0, 1}
      BY <1>0, SlotType, HourType
    <3>2. zero.slot \in Int /\ LookupSlot(r) - Slack(r) <= zero.slot
          /\ zero.slot <= LookupSlot(r) + Slack(r)
      BY <2>2, <3>1
    <3> QED
      BY <1>0, <3>2, LookupInTime
  <2> QED
    BY <1>0, <2>2, <2>3, <2>4, HitFit DEF FitsPair, a
<1> HIDE DEF exact, fuzzy, zero
<1>5. \E k : Fit(r, k, hour) /\ Do(r, k)
  BY <1>1, <1>2, <1>3, <1>4 DEF RedisGet, exact, fuzzy, zero, a
<1> QED
  BY <1>5, LocalFit DEF RedisGet

LEMMA ArchiveGetFit ==
    ASSUME IInv, FitInv, NEW r \in Request, ArchiveGet(r)
    PROVE  FitInv'
<1> DEFINE j == job[r]
           a == Key(r, j)
           found == Found(archive, r, Hashes(a), LookupSlot(r))
<1>0. /\ Good(r, j) /\ Fit(r, j, hour) /\ hour \in Hour /\ j \in Job(r)
      /\ j.pc = "archive" /\ j.pc \in Lookup /\ j.pc # "idle"
      /\ "504" \in Reply /\ "400" \in Reply /\ a \in Arc
      /\ Begun(r, j, hour) /\ LookupSlot(r) \in Hour
  <2>1. /\ Good(r, job[r]) /\ Fit(r, job[r], hour) /\ hour \in Hour /\ job[r].pc = "archive"
    BY DEF IInv, FitInv, ArchiveGet
  <2>2. job[r] \in Job(r) /\ job[r].row <= N(r) /\ job[r].col <= N(r) /\ Begun(r, job[r], hour)
    BY <2>1 DEF Good, Shape, Lookup, Fit
  <2>3. LookupSlot(r) \in Hour
    BY <2>1, RequestAssumption DEF LookupSlot
  <2> QED
    BY <2>1, <2>2, <2>3, PairAtType DEF Lookup, Reply
<1>1. Fit(r, Missed(r, j), hour) /\ Fit(r, LookupFailed(j), hour)
  BY <1>0, MissedFit, AnswerFit DEF LookupFailed
<1> HIDE DEF a
<1>2. \A e \in found : Fit(r, [j EXCEPT !.pc = "promote", !.held = e], hour)
  <2> SUFFICES ASSUME NEW e \in found
               PROVE  Fit(r, [j EXCEPT !.pc = "promote", !.held = e], hour)
    OBVIOUS
  <2>1. e \in RoadEdge
    BY FoundInStore DEF IInv
  <2>2. e.slot \in Hour
    BY <2>1, Zenon DEF RoadEdge, Segment
  <2>3. /\ PairFits(r, a, e)
        /\ LookupSlot(r) - Slack(r) <= e.slot /\ e.slot <= LookupSlot(r) + Slack(r)
    BY <1>0, FoundFits, ExactFits
  <2> HIDE DEF found, j
  <2>4. InTime(r, j.start, hour, e)
    BY <1>0, <2>2, <2>3, HourType, LookupInTime
  <2> QED
    BY <1>0, <2>3, <2>4, HoldFit DEF FitsPair, a
<1> HIDE DEF found
<1>3. \E k : Fit(r, k, hour) /\ Do(r, k)
  BY <1>1, <1>2 DEF ArchiveGet, found, a
<1> QED
  BY <1>3, LocalFit DEF ArchiveGet

LEMMA PromoteFit ==
    ASSUME IInv, FitInv, NEW r \in Request, Promote(r)
    PROVE  FitInv'
<1> DEFINE j == job[r]
<1>0. /\ Good(r, j) /\ Fit(r, j, hour) /\ hour \in Hour /\ j.pc = "promote"
      /\ j.pc \in Lookup /\ j.held \in RoadEdge
  BY DEF IInv, FitInv, Promote, Lookup, Good, Shape, Sourced
<1>1. PairFits(r, Key(r, j), j.held) /\ InTime(r, j.start, hour, j.held)
  <2>1. j.held # None
    BY <1>0 DEF Good, Shape
  <2> QED
    BY <1>0, <2>1 DEF Fit, Pending, FitsPair
<1> HIDE DEF j
<1>2. FitsPair(r, j.start, hour, Key(r, j), Cached(j.held)) /\ Cached(j.held) \in Segment
  BY <1>0, <1>1, CachedFits, CachedEdge
<1>3. Fit(r, Hit(r, j, Cached(j.held)), hour)
  BY <1>0, <1>2, HitFit
<1> QED
  BY <1>3, LocalFit DEF Promote, j

LEMMA MakePlanFit ==
    ASSUME IInv, FitInv, NEW r \in Request, MakePlan(r)
    PROVE  FitInv'
<1> DEFINE j == job[r]
<1>0. Good(r, j) /\ Fit(r, j, hour) /\ hour \in Hour /\ j.pc = "plan" /\ "504" \in Reply
  BY DEF IInv, FitInv, MakePlan, Reply
<1>1. Fit(r, TimedOut(j), hour)
  BY <1>0, AnswerFit DEF TimedOut
<1>2. Fit(r, [j EXCEPT !.pc = "next", !.stage = "walk", !.walks = Plan(N(r), j.miss)], hour)
  BY <1>0, PlannedFit
<1>3. \E k : Fit(r, k, hour) /\ Do(r, k)
  BY <1>1, <1>2 DEF MakePlan
<1> QED
  BY <1>3, LocalFit DEF MakePlan

LEMMA WalkNextFit ==
    ASSUME IInv, FitInv, NEW r \in Request, WalkNext(r)
    PROVE  FitInv'
<1> DEFINE j == job[r]
<1>0. /\ Good(r, j) /\ Fit(r, j, hour) /\ hour \in Hour /\ j.pc = "next" /\ j.stage = "walk"
      /\ "504" \in Reply
  BY DEF IInv, FitInv, WalkNext, Reply
<1>1. Fit(r, TimedOut(j), hour) /\ Fit(r, StartFill(j), hour)
  BY <1>0, AnswerFit, StartFillFit DEF TimedOut
<1>2. Fit(r, [j EXCEPT !.pc = "call"], hour)
  <2>1. ~j.rev
    BY <1>0 DEF Fit, Pending, Lookup
  <2> QED
    BY <1>0, <2>1, MoveOnlyFit
<1>3. \E k : Fit(r, k, hour) /\ Do(r, k)
  BY <1>1, <1>2 DEF WalkNext
<1> QED
  BY <1>3, LocalFit DEF WalkNext

LEMMA CallReturnsFit ==
    ASSUME IInv, FitInv, NEW r \in Request, CallReturns(r)
    PROVE  FitInv'
<1> DEFINE j == job[r]
           n == Len(Legs(r, j))
<1>0. Good(r, j) /\ Fit(r, j, hour) /\ hour \in Hour /\ j.pc = "call" /\ "504" \in Reply
  BY DEF IInv, FitInv, CallReturns, Reply
<1>1. n \in Nat
  BY <1>0, LegsType
<1>2. Fit(r, TimedOut(j), hour)
  BY <1>0, AnswerFit DEF TimedOut
<1>3. \A k \in 0 .. n : \A src : Fit(r, Returned(r, j, Steps(r, j, k, src)), hour)
  BY <1>0, ReturnedFit
<1>4. n \in 0 .. n /\ \A k \in IF "short" \in Faults /\ j.stage = "walk" THEN 0 .. n ELSE {n} :
                         k \in 0 .. n
  BY <1>1
<1> HIDE DEF n
<1>5. \E k : Fit(r, k, hour) /\ Do(r, k)
  BY <1>2, <1>3, <1>4 DEF CallReturns, n
<1> QED
  BY <1>5, LocalFit DEF CallReturns

LEMMA AbsorbFit ==
    ASSUME IInv, FitInv, NEW r \in Request, Absorb(r)
    PROVE  FitInv'
<1> DEFINE j == job[r]
           s == Head(j.steps)
           k == IF j.stage = "walk" THEN [j EXCEPT !.seg[PairOf(s)] = s] ELSE j
<1>0. Good(r, j) /\ Fit(r, j, hour) /\ hour \in Hour /\ j.pc = "absorb"
  BY DEF IInv, FitInv, Absorb
<1>1. CASE j.steps = <<>>
  BY <1>0, <1>1, LoopOnFit, LocalFit DEF Absorb
<1>2. CASE j.steps # <<>>
  <2>1. Good(r, k) /\ Fit(r, k, hour) /\ k.pc = "absorb" /\ k.steps = j.steps
    <3>1. CASE j.stage = "walk"
      <4>1. k = [j EXCEPT !.seg[PairOf(s)] = s]
        BY <3>1
      <4>2. Good(r, k) /\ Fit(r, k, hour)
        BY <1>0, <1>2, <3>1, <4>1, AbsorbSegGood, AbsorbSegFit
      <4>3. k.pc = j.pc /\ k.steps = j.steps
        BY <1>0, <4>1, Zenon DEF Good, Job
      <4> QED
        BY <1>0, <4>2, <4>3
    <3>2. CASE j.stage # "walk"
      BY <1>0, <3>2
    <3> QED
      BY <3>1, <3>2
  <2> HIDE DEF k
  <2>2. Fit(r, Absorbed(r, k), hour)
    BY <1>0, <1>2, <2>1, AbsorbedFit
  <2>3. Fit(r, [k EXCEPT !.pc = "put"], hour)
    <3>1. [k EXCEPT !.pc = "put"] = [k EXCEPT !.pc = "put", !.banked = k.banked]
      BY <2>1, Zenon DEF Good, Job
    <3>2. Fit(r, [k EXCEPT !.pc = "put", !.banked = k.banked], hour)
      BY <2>1, PutNextFit
    <3> QED
      BY <3>1, <3>2
  <2>4. \E q : Fit(r, q, hour) /\ Do(r, q)
    BY <1>2, <2>2, <2>3 DEF Absorb, k
  <2> QED
    BY <2>4, LocalFit DEF Absorb
<1> QED
  BY <1>1, <1>2

LEMMA PutEdgeFit ==
    ASSUME IInv, FitInv, NEW r \in Request, PutEdge(r)
    PROVE  FitInv'
<1> DEFINE j == job[r]
           b == j.banked \/ redis' # redis
<1>0. Good(r, j) /\ Fit(r, j, hour) /\ j.pc = "put"
  BY DEF IInv, FitInv, PutEdge
<1>1. Fit(r, [j EXCEPT !.pc = "enqueue", !.banked = b], hour)
  BY <1>0, PutNextFit
<1> HIDE DEF b
<1>2. [j EXCEPT !.pc = "enqueue", !.banked = @ \/ redis' # redis]
         = [j EXCEPT !.pc = "enqueue", !.banked = b]
  BY DEF b
<1>3. \E k : Fit(r, k, hour) /\ Do(r, k)
  BY <1>1, <1>2 DEF PutEdge
<1> QED
  BY <1>3, LocalFit DEF PutEdge

LEMMA EnqueueFit ==
    ASSUME IInv, FitInv, NEW r \in Request, Enqueue(r)
    PROVE  FitInv'
<1> DEFINE j == job[r]
<1>0. Good(r, j) /\ Fit(r, j, hour) /\ hour \in Hour /\ j.pc = "enqueue" /\ j.steps # <<>>
  BY DEF IInv, FitInv, Enqueue, Good, Shape
<1>1. Fit(r, Absorbed(r, j), hour)
  BY <1>0, AbsorbedFit
<1> QED
  BY <1>1, LocalFit DEF Enqueue

\* The only step that answers 200: behind the last cell the matrix is full.
LEMMA FillNextFit ==
    ASSUME IInv, FitInv, NEW r \in Request, FillNext(r)
    PROVE  FitInv'
<1> DEFINE j == job[r]
           a == PairAt(r, j)
<1>0. /\ Good(r, j) /\ Fit(r, j, hour) /\ hour \in Hour /\ j \in Job(r)
      /\ j.pc = "next" /\ j.stage = "fill" /\ "504" \in Reply /\ "200" \in Reply
      /\ N(r) >= 2 /\ j.col <= N(r) /\ N(r) \in Nat /\ j.row \in Nat
      /\ Idling(r, j, hour)
  <2>1. /\ Good(r, job[r]) /\ Fit(r, job[r], hour) /\ hour \in Hour
        /\ job[r].pc = "next" /\ job[r].stage = "fill"
    BY DEF IInv, FitInv, FillNext
  <2>2. /\ job[r] \in Job(r) /\ N(r) >= 2 /\ job[r].col <= N(r) /\ job[r].reply = "none"
        /\ job[r].steps = <<>> /\ N(r) \in Nat /\ job[r].row \in Nat
    BY <2>1, NType DEF Good, Shape, Fit, Pending, Job
  <2> QED
    BY <2>1, <2>2 DEF Idling, Fit, Pending, Reply
<1>1. CASE Over(r, j)
  <2>1. \A c \in OffDiagonal(r) : j.cells[c] # None
    <3> SUFFICES ASSUME NEW c \in OffDiagonal(r) PROVE j.cells[c] # None
      OBVIOUS
    <3>1. c[1] \in 1 .. N(r)
      BY DEF OffDiagonal, Cell
    <3>2. Before(c, j)
      BY <1>0, <1>1, <3>1 DEF Before, Over
    <3> QED
      BY <1>0, <3>2 DEF Idling, Filled
  <2>2. Fit(r, Answer(j, "200"), hour)
    BY <1>0, <2>1, AnswerFit
  <2> QED
    BY <1>1, <2>2, LocalFit DEF FillNext
<1>2. CASE ~Over(r, j) /\ FillOverdue(j)
  <2>1. Fit(r, TimedOut(j), hour)
    BY <1>0, AnswerFit DEF TimedOut
  <2> QED
    BY <1>2, <2>1, LocalFit DEF FillNext
<1>3. CASE ~Over(r, j) /\ ~FillOverdue(j)
  <2>0. j.row <= N(r)
    BY <1>0, <1>3 DEF Over
  <2>1. CASE j.row = j.col
    <3>1. Fit(r, Advance(r, j), hour)
      BY <1>0, <2>0, <2>1, AdvanceFit DEF Idling
    <3> QED
      BY <1>3, <2>1, <3>1, LocalFit DEF FillNext
  <2>2. CASE j.row # j.col
    <3>0. a \in Arc /\ Swap(a) \in Arc /\ j.seg \in [Arc -> Segment \cup {None}]
      BY <1>0, <2>0, PairAtType DEF Swap, Arc, Job
    <3>1. j.seg[a] # None => Fit(r, SetCell(r, j, j.seg[a]), hour)
      <4>1. FitsPair(r, j.start, hour, a, j.seg[a])
        BY <1>0, <3>0 DEF Idling, Filed
      <4> QED
        BY <1>0, <2>0, <2>2, <3>0, <4>1, SetCellFit
    <3>2. MayReverse(r) /\ j.seg[Swap(a)] # None => Fit(r, SetCell(r, j, j.seg[Swap(a)]), hour)
      <4> SUFFICES ASSUME MayReverse(r), j.seg[Swap(a)] # None
                   PROVE  Fit(r, SetCell(r, j, j.seg[Swap(a)]), hour)
        OBVIOUS
      <4> DEFINE s == j.seg[Swap(a)]
      <4>1. FitsPair(r, j.start, hour, Swap(a), s) /\ s \in Segment
        BY <1>0, <3>0 DEF Idling, Filed
      <4> HIDE DEF s
      <4>2. FitsPair(r, j.start, hour, a, s)
        BY <4>1, ReverseFits DEF FitsPair, MayReverse
      <4>3. Fit(r, SetCell(r, j, s), hour)
        BY <1>0, <2>0, <2>2, <4>1, <4>2, SetCellFit
      <4> QED
        BY <4>3 DEF s
    <3>3. Fit(r, [j EXCEPT !.pc = "redis"], hour)
      BY <1>0, MoveOnlyFit DEF Lookup
    <3> HIDE DEF a
    <3>4. \E k : Fit(r, k, hour) /\ Do(r, k)
      BY <1>3, <2>2, <3>1, <3>2, <3>3 DEF FillNext, a
    <3> QED
      BY <3>4, LocalFit DEF FillNext
  <2> QED
    BY <2>1, <2>2
<1> QED
  BY <1>1, <1>2, <1>3

LEMMA ExpireFit ==
    ASSUME IInv, FitInv, NEW r \in Request, Expire(r)
    PROVE  FitInv'
<1>1. Fit(r, [job[r] EXCEPT !.late = TRUE], hour)
  BY LateFit DEF IInv, FitInv
<1> QED
  BY <1>1, LocalFit DEF Expire

LEMMA TickFit ==
    ASSUME IInv, FitInv, Tick
    PROVE  FitInv'
<1>1. hour \in Hour /\ hour + 1 \in Hour /\ hour' = hour + 1 /\ job' = job
  BY BoundAssumption DEF Tick, IInv, Hour
<1>2. \A r \in Request : Fit(r, job[r], hour + 1)
  BY <1>1, LaterFit DEF IInv, FitInv
<1> QED
  BY <1>1, <1>2 DEF FitInv

LEMMA CrashFit ==
    ASSUME IInv, FitInv, Crash
    PROVE  FitInv'
<1>1. \A r \in Request : Running(r) => Fit(r, Answer(job[r], "dropped"), hour)
  BY AnswerFit DEF IInv, FitInv, Reply, Running
<1>2. /\ hour' = hour
      /\ \A r \in Request : job'[r] = IF Running(r) THEN Answer(job[r], "dropped") ELSE job[r]
  BY DEF Crash
<1> QED
  BY <1>1, <1>2 DEF FitInv

LEMMA StepFit ==
    ASSUME IInv, FitInv, NEW r \in Request, Step(r)
    PROVE  FitInv'
BY ProbeNextFit, RedisGetFit, ArchiveGetFit, PromoteFit, MakePlanFit, WalkNextFit,
   CallReturnsFit, AbsorbFit, PutEdgeFit, EnqueueFit, FillNextFit DEF Step

LEMMA NextFit == IInv /\ FitInv /\ [Next]_vars => FitInv'
<1> SUFFICES ASSUME IInv, FitInv, [Next]_vars PROVE FitInv'
  OBVIOUS
<1>1. CASE \E r \in Request : Submit(r) \/ Step(r) \/ Expire(r)
  BY <1>1, SubmitFit, StepFit, ExpireFit
<1>2. CASE ArchiveWorker \/ (\E a \in Arc : Evict(Hashes(a))) \/ UNCHANGED vars
  BY <1>2 DEF ArchiveWorker, Evict, vars, FitInv
<1>3. CASE Tick
  BY <1>3, TickFit
<1>4. CASE Crash
  BY <1>4, CrashFit
<1> QED
  BY <1>1, <1>2, <1>3, <1>4 DEF Next

LEMMA FitInvariance == Spec => []FitInv
BY InitFit, NextFit, Invariance, PTL DEF Spec

-----------------------------------------------------------------------------
(* The theorem *)

LEMMA FitSuffices == FitInv => AnswerFits
<1> SUFFICES ASSUME FitInv, NEW r \in Request, job[r].reply = "200",
                    NEW c \in Cell(r), c[1] # c[2]
             PROVE  /\ job[r].cells[c] # None
                    /\ PairFits(r, CellPair(r, c), job[r].cells[c])
                    /\ SlotFits(r, job[r].cells[c])
  BY DEF AnswerFits, CellPair
<1>1. job[r].cells[c] # None
  BY DEF FitInv, Fit, Pending, OffDiagonal
<1>2. FitsPair(r, job[r].start, hour, CellPair(r, c), job[r].cells[c])
  BY DEF FitInv, Fit, Filed
<1> QED
  BY <1>1, <1>2 DEF FitsPair, InTime, SlotFits, Slack, Latest

\* A 200 has every cell off the diagonal filled, each with a segment for that
\* very cell and an hour the request ran through: a strict client never gets the
\* reverse, a neighbour or another hour's edge, whatever other requests, the
\* queue, the clock, expiry and crashes do in between.
THEOREM AnswersFitTheirCells == Spec => []AnswerFits
BY FitSuffices, FitInvariance, PTL
=============================================================================
