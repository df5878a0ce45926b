---------------------------- MODULE DensePlanner ----------------------------
(***************************************************************************)
(* DensePlanner.Plan (src/internal/arccover): grow trails of required arcs *)
(* greedily (DenseRouteFirst), pack them into routes of at most maxLegs    *)
(* legs with bridges between them (PackFragments), and check the result    *)
(* (ValidateAndComplete). One action per turn of a loop; the context of    *)
(* the request may be cancelled at any time.                               *)
(*                                                                         *)
(* Points are 1 .. N, where the code counts from 0. The required arcs form *)
(* a set, ordered by (From, To): that order is their EdgeID.               *)
(***************************************************************************)
EXTENDS Walks, Integers, FiniteSets, FiniteSetsExt, SequencesExt

CONSTANTS
    N,          \* number of points
    Inputs,     \* the sets of required arcs to plan for
    LegLimits,  \* the values of maxLegs to plan for
    Window      \* DenseCandidateWindow

ASSUME PlannerAssumption ==
    /\ N \in Nat
    /\ Inputs \subseteq SUBSET Arcs(N)
    /\ LegLimits \subseteq Nat \ {0}
    /\ Window \in Nat \ {0}

Point == 1 .. N

\* Arcs are compared by their EdgeID.
Before(a, b) == a[1] < b[1] \/ (a[1] = b[1] /\ a[2] < b[2])
First(S, a)  == a \in S /\ \A b \in S \ {a} : Before(a, b)

VARIABLES
    required,   \* the arcs to cover
    maxLegs,
    pc,         \* the loop that runs
    cut,        \* the context is cancelled
    pending,    \* required arcs not yet in the graph
    out,        \* out[u]: the ends of the arcs left at u (MutableGraph.Out)
    order,      \* IndexedVertexHeap.order
    at,         \* the end of the trail that grows
    trail,      \* the trail that grows
    frags,      \* the finished trails; a fragment's ID is its place here
    packed,     \* the fragments that are in a route
    route,      \* the route being packed
    routes,     \* the finished routes
    checked,    \* how many of them ValidateAndComplete has looked at
    valid       \* those it keeps (compact)

growth == <<required, maxLegs, cut, pending, out, order, at, trail, frags>>
result == <<packed, route, routes, checked, valid>>

vars == <<required, maxLegs, pc, cut, pending, out, order, at, trail, frags,
          packed, route, routes, checked, valid>>

Leg == [arc : Cells(N), kind : {"required", "bridge"}]

-----------------------------------------------------------------------------
(* MutableGraph *)

OutDegree(g, u) == Len(g[u])
InDegree(g, v)  == Cardinality({u \in Point : v \in Range(g[u])})
Balance(g, v)   == OutDegree(g, v) - InDegree(g, v)

ArcsLeft(g) == UNION {{<<u, v>> : v \in Range(g[u])} : u \in Point}

\* Larger (out - in), then larger out, then smaller number.
Better(g, a, b) ==
    \/ Balance(g, a) > Balance(g, b)
    \/ /\ Balance(g, a) = Balance(g, b)
       /\ \/ OutDegree(g, a) > OutDegree(g, b)
          \/ OutDegree(g, a) = OutDegree(g, b) /\ a < b

\* Mutated form: the last entry is cut off before it is moved.
SwapRemoveEarly(s, k) == SubSeq([s EXCEPT ![k] = s[IF Len(s) > 1 THEN Len(s) - 1 ELSE 1]],
                                1, Len(s) - 1)

\* The last entry takes the place of the removed one.
SwapRemove(s, k) == SubSeq([s EXCEPT ![k] = s[Len(s)]], 1, Len(s) - 1)

\* SelectDenseNext: the best end among the first Window arcs left at u.
Selects(g, u, k) ==
    LET shown == 1 .. (IF Len(g[u]) < Window THEN Len(g[u]) ELSE Window)
    IN  k \in shown /\ \A m \in shown \ {k} : Better(g, g[u][k], g[u][m])

-----------------------------------------------------------------------------
(* IndexedVertexHeap: 1-based, the children of i are 2i and 2i + 1 *)

Swap(h, i, j) == [h EXCEPT ![i] = h[j], ![j] = h[i]]

SiftUp(g, heap, from) ==
    LET up[p \in Seq(Point) \X Nat] ==
            LET h == p[1]
                i == p[2]
            IN  IF i \in 2 .. Len(h) /\ Better(g, h[i], h[i \div 2])
                THEN up[<<Swap(h, i, i \div 2), i \div 2>>]
                ELSE h
    IN  up[<<heap, from>>]

\* The better child of i.
Child(g, h, i) ==
    IF 2 * i < Len(h) /\ Better(g, h[2 * i + 1], h[2 * i]) THEN 2 * i + 1 ELSE 2 * i

SiftDown(g, heap, from) ==
    LET down[p \in Seq(Point) \X (Nat \ {0})] ==
            LET h    == p[1]
                i    == p[2]
                best == Child(g, h, i)
            IN  IF 2 * i <= Len(h) /\ Better(g, h[best], h[i])
                THEN down[<<Swap(h, i, best), best>>]
                ELSE h
    IN  down[<<heap, from>>]

PosOf(h, v) == CHOOSE i \in DOMAIN h : h[i] = v

Push(g, h, v) == SiftUp(g, Append(h, v), Len(h) + 1)

HeapRemove(g, h, v) ==
    LET i    == PosOf(h, v)
        rest == SwapRemove(h, i)
    IN  IF v \notin Range(h) THEN h
        ELSE IF i <= Len(rest) THEN SiftDown(g, SiftUp(g, rest, i), i)
        ELSE rest

Update(g, h, v) ==
    IF g[v] = <<>> THEN HeapRemove(g, h, v)
    ELSE IF v \notin Range(h) THEN Push(g, h, v)
    ELSE LET up == SiftUp(g, h, PosOf(h, v))
         IN  SiftDown(g, up, PosOf(up, v))

\* Mutated form: only the end of a removed arc is moved in the heap.
UpdateEnd(g, h, a) == Update(g, h, a[2])

\* Both ends of a removed arc find their new places, one after the other.
UpdateEnds(g, h, a) == Update(g, Update(g, h, a[1]), a[2])

NewHeap(g) ==
    LET push[p \in Seq(Point) \X Nat] ==
            LET h == p[1]
                v == p[2]
            IN  IF v \in Point
                THEN push[<<IF g[v] # <<>> THEN Push(g, h, v) ELSE h, v + 1>>]
                ELSE h
    IN  push[<< <<>>, 1>>]

\* PopBestWithOutgoing: <<vertex, heap>>, vertex 0 if there is none.
PopBest(g, heap) ==
    LET pop[h \in Seq(Point)] ==
            IF h = <<>> THEN <<0, h>>
            ELSE LET rest == HeapRemove(g, h, h[1])
                 IN  IF g[h[1]] # <<>> THEN <<h[1], rest>> ELSE pop[rest]
    IN  pop[heap]

-----------------------------------------------------------------------------
(* Fragments and routes *)

Start(f) == f[1][1]
End(f)   == f[Len(f)][2]

\* Mutated form: the bridge is laid the wrong way round.
BridgeBack(u, v) == [arc |-> <<v, u>>, kind |-> "bridge"]

Legs(f)         == [k \in DOMAIN f |-> [arc |-> f[k], kind |-> "required"]]
Bridge(u, v)    == [arc |-> <<u, v>>, kind |-> "bridge"]
Walk(r)         == [k \in DOMAIN r |-> r[k].arc]
Bought(r)       == {r[k].arc : k \in {l \in DOMAIN r : r[l].kind = "required"}}
RouteEnd(r)     == r[Len(r)].arc[2]
Unpacked        == DOMAIN frags \ packed

\* A fragment of length l takes l + 1 of the maxLegs + 1 places of a route.
Size(k) == Len(frags[k]) + 1
Space   == maxLegs - Len(route)

\* popBestSize: a longest fragment, the oldest of them.
Opens(k) ==
    /\ k \in Unpacked
    /\ \A m \in Unpacked \ {k} : Size(k) > Size(m) \/ (Size(k) = Size(m) /\ k < m)

\* The bridge to fragment k would repeat a required arc.
Repeats(k) == <<RouteEnd(route), Start(frags[k])>> \in required

\* Mutated form: the place of the bridge is not counted.
FitsWithoutBridge(k) == k \in Unpacked /\ Len(frags[k]) <= Space

FitsSpace(k) == k \in Unpacked /\ Size(k) <= Space

\* pickFit: a longest fragment that fits, rather one whose bridge buys nothing
\* twice, the oldest of them.
Appends(k) ==
    /\ FitsSpace(k)
    /\ \A m \in DOMAIN frags \ {k} : FitsSpace(m) =>
          \/ Size(k) > Size(m)
          \/ /\ Size(k) = Size(m)
             /\ \/ ~Repeats(k) /\ Repeats(m)
                \/ (Repeats(k) <=> Repeats(m)) /\ k < m

\* ValidateAndComplete. A route that is too long is dropped and covers nothing;
\* one that is interrupted is dropped, yet what comes before counts as covered.
Counted(r) ==
    IF Len(r) > maxLegs THEN {}
    ELSE {r[k].arc : k \in {l \in DOMAIN r :
              r[l].kind = "required" /\ Contiguous(SubSeq(Walk(r), 1, l))}}

Missing(rs) == required \ UNION {Counted(rs[k]) : k \in DOMAIN rs}

\* A route of its own for every arc that is not covered.
Singles(rs) ==
    [k \in 1 .. Cardinality(Missing(rs)) |->
        Legs(<<SetToSortSeq(Missing(rs), Before)[k]>>)]

-----------------------------------------------------------------------------
(* ComputeLowerBound *)

CeilDiv(a, b) == (a + b - 1) \div b

\* WeakComponents: the smallest sets of points that no arc leaves or enters, of the
\* points that an arc touches.
Components(arcs) ==
    LET Touched == {a[1] : a \in arcs} \cup {a[2] : a \in arcs}
        Closed  == {S \in SUBSET Touched : S # {} /\ \A a \in arcs : a[1] \in S <=> a[2] \in S}
    IN  {S \in Closed : \A T \in Closed : T \subseteq S => T = S}

\* Mutated form: arcs that come in are counted as well as those that go out.
Imbalance(arcs, v) ==
    LET bal == Cardinality({a \in arcs : a[1] = v}) - Cardinality({a \in arcs : a[2] = v})
    IN  IF bal > 0 THEN bal ELSE -bal

\* How many more arcs leave v than enter it.
Surplus(arcs, v) ==
    LET bal == Cardinality({a \in arcs : a[1] = v}) - Cardinality({a \in arcs : a[2] = v})
    IN  IF bal > 0 THEN bal ELSE 0

\* The sum of the values of c, as a number of pairs.
Total(c) == Cardinality(UNION {{x} \X (1 .. c[x]) : x \in DOMAIN c})

\* MinimumTrailCount: the surplus of each component, but at least one trail.
TrailCount(arcs) ==
    Total([S \in Components(arcs) |-> Max({1, Total([v \in S |-> Surplus(arcs, v)])})])

LowerBound(arcs, legs) ==
    LET trails == TrailCount(arcs)
    IN  Max({CeilDiv(Cardinality(arcs), legs),
             CeilDiv(Cardinality(arcs) + trails, legs + 1),
             CeilDiv(trails, (legs + 1) \div 2)})

-----------------------------------------------------------------------------
(* The planner *)

Init ==
    /\ required \in Inputs \ {{}}
    /\ maxLegs \in LegLimits
    /\ pc = "load" /\ cut = FALSE
    /\ pending = required
    /\ out = [u \in Point |-> <<>>]
    /\ order = <<>> /\ at = 0 /\ trail = <<>> /\ frags = <<>>
    /\ packed = {} /\ route = <<>> /\ routes = <<>>
    /\ checked = 0 /\ valid = <<>>

\* NewMutableGraph: arcs are added by ID, so each list is sorted by end.
Load(a) ==
    /\ pc = "load" /\ First(pending, a)
    /\ pending' = pending \ {a}
    /\ out' = [out EXCEPT ![a[1]] = Append(@, a[2])]
    /\ UNCHANGED <<required, maxLegs, pc, cut, order, at, trail, frags, result>>

Loaded ==
    /\ pc = "load" /\ pending = {}
    /\ order' = NewHeap(out)
    /\ pc' = "start"
    /\ UNCHANGED <<required, maxLegs, cut, pending, out, at, trail, frags, result>>

\* The next trail starts at the best vertex.
StartTrail(v) ==
    /\ pc = "start"
    /\ ArcsLeft(out) # {} /\ ~cut
    /\ LET best == PopBest(out, order) IN best[1] = v /\ order' = best[2]
    /\ at' = v
    /\ pc' = "grow"
    /\ UNCHANGED <<required, maxLegs, cut, pending, out, trail, frags, result>>

\* No trail starts when no arc is left, after a cancellation, or if the heap
\* should run empty.
NoTrail ==
    /\ pc = "start"
    /\ ArcsLeft(out) = {} \/ cut \/ PopBest(out, order)[1] = 0
    /\ pc' = "rest"
    /\ UNCHANGED <<growth, result>>

\* The trail takes the best of the arcs left at its end.
Grow(k) ==
    /\ pc = "grow" /\ Len(trail) < maxLegs
    /\ Selects(out, at, k)
    /\ LET arc == <<at, out[at][k]>>
       IN  /\ out' = [out EXCEPT ![at] = SwapRemove(@, k)]
           /\ order' = UpdateEnds(out', order, arc)
           /\ trail' = Append(trail, arc)
           /\ at' = arc[2]
    /\ UNCHANGED <<required, maxLegs, pc, cut, pending, frags, result>>

EndTrail ==
    /\ pc = "grow"
    /\ Len(trail) = maxLegs \/ out[at] = <<>>
    /\ frags' = IF trail = <<>> THEN frags ELSE Append(frags, trail)
    /\ trail' = <<>>
    /\ pc' = "start"
    /\ UNCHANGED <<required, maxLegs, cut, pending, out, order, at, result>>

\* What is left, after a cancellation, becomes fragments of one arc.
Single(a) ==
    /\ pc = "rest" /\ First(ArcsLeft(out), a)
    /\ frags' = Append(frags, <<a>>)
    /\ out' = [out EXCEPT ![a[1]] = SwapRemove(@, PosOf(@, a[2]))]
    /\ UNCHANGED <<required, maxLegs, pc, cut, pending, order, at, trail, result>>

Cut ==
    /\ pc \in {"load", "start", "grow"} /\ ~cut
    /\ cut' = TRUE
    /\ UNCHANGED <<required, maxLegs, pc, pending, out, order, at, trail, frags, result>>

Grown ==
    /\ pc = "rest" /\ ArcsLeft(out) = {}
    /\ pc' = "open"
    /\ UNCHANGED <<growth, result>>

OpenRoute(k) ==
    /\ pc = "open" /\ Opens(k)
    /\ route' = Legs(frags[k])
    /\ packed' = packed \cup {k}
    /\ pc' = "pack"
    /\ UNCHANGED <<growth, routes, checked, valid>>

AppendFragment(k) ==
    /\ pc = "pack" /\ Appends(k)
    /\ route' = Append(route, Bridge(RouteEnd(route), Start(frags[k]))) \o Legs(frags[k])
    /\ packed' = packed \cup {k}
    /\ UNCHANGED <<pc, growth, routes, checked, valid>>

CloseRoute ==
    /\ pc = "pack" /\ \A k \in DOMAIN frags : ~FitsSpace(k)
    /\ routes' = Append(routes, route)
    /\ route' = <<>>
    /\ pc' = "open"
    /\ UNCHANGED <<growth, packed, checked, valid>>

Packed ==
    /\ pc = "open" /\ Unpacked = {}
    /\ pc' = "check"
    /\ UNCHANGED <<growth, result>>

\* A route that does not fit, or is interrupted, is dropped.
Validate ==
    /\ pc = "check" /\ checked < Len(routes)
    /\ LET r == routes[checked + 1]
       IN  valid' = IF Fits(Walk(r), maxLegs) THEN Append(valid, r) ELSE valid
    /\ checked' = checked + 1
    /\ UNCHANGED <<pc, growth, packed, route, routes>>

Finalize ==
    /\ pc = "check" /\ checked = Len(routes)
    /\ routes' = valid \o Singles(routes)
    /\ pc' = "done"
    /\ UNCHANGED <<growth, packed, route, checked, valid>>

Step ==
    \/ \E a \in required : Load(a) \/ Single(a)
    \/ \E v \in Point : StartTrail(v)
    \/ \E k \in Point : Grow(k)
    \/ \E k \in DOMAIN frags : OpenRoute(k) \/ AppendFragment(k)
    \/ Loaded \/ NoTrail \/ EndTrail \/ Grown \/ CloseRoute \/ Packed \/ Validate \/ Finalize

Next == Step \/ Cut

\* Plan computes without waiting for anything.
Spec == Init /\ [][Next]_vars /\ WF_vars(Step)

-----------------------------------------------------------------------------
(* Properties *)

TypeOK ==
    /\ required \subseteq Arcs(N)
    /\ maxLegs \in LegLimits
    /\ pc \in {"load", "start", "grow", "rest", "open", "pack", "check", "done"}
    /\ cut \in BOOLEAN
    /\ pending \subseteq required
    /\ out \in [Point -> Seq(Point)]
    /\ order \in Seq(Point)
    /\ at \in 0 .. N
    /\ trail \in Seq(Arcs(N))
    /\ frags \in Seq(Seq(Arcs(N)))
    /\ packed \subseteq DOMAIN frags
    /\ route \in Seq(Leg) /\ Len(route) <= maxLegs
    /\ routes \in Seq(Seq(Leg))
    /\ checked \in 0 .. Len(routes) /\ valid \in Seq(Seq(Leg))

\* Whenever a trail may start, the heap holds exactly the vertices that still
\* have arcs: none is forgotten, and none is there twice.
HeapComplete ==
    pc = "start" =>
        /\ Range(order) = {u \in Point : out[u] # <<>>}
        /\ Len(order) = Cardinality(Range(order))

\* Trails stop growing only when each arc is in one, or after a cancellation:
\* the heap never runs empty before the graph, which would leave its arcs to
\* fragments of one arc each.
TrailsTakeAll == pc = "rest" /\ ~cut => ArcsLeft(out) = {}

\* graph.go:276: "PopBestWithOutgoing pops the best vertex that still has
\* outgoing edges", by the order of graph.go:159.
PopsBest ==
    pc = "start" => \A v \in Range(order) : v = order[1] \/ Better(out, order[1], v)

\* When packing is done, every route fits, and together they buy every required
\* arc, whenever the context was cancelled: ValidateAndComplete repairs nothing
\* and no arc is bought by a provider call of its own for want of a route.
NothingToRepair ==
    pc = "check" =>
        /\ \A k \in DOMAIN routes : Fits(Walk(routes[k]), maxLegs)
        /\ required = UNION {Bought(routes[k]) : k \in DOMAIN routes}

\* No required arc is bought by two legs.
BoughtOnce ==
    \A k, l \in DOMAIN routes : \A i \in DOMAIN routes[k], j \in DOMAIN routes[l] :
        /\ routes[k][i].kind = "required" /\ routes[l][j].kind = "required"
        /\ routes[k][i].arc = routes[l][j].arc
        => k = l /\ i = j

\* The engine gets what it relies on (PlanAssumption of MatrixEngine).
PlanCovers ==
    pc = "done" =>
        Covers([k \in DOMAIN routes |-> Walk(routes[k])], N, required, maxLegs)

\* The lower bound of the statistics is one: no plan that is made has fewer routes.
BoundHolds == pc = "done" => Len(routes) >= LowerBound(required, maxLegs)

\* The planner as its users see it: walk by walk, until nothing is left to buy.
Cover == INSTANCE ArcCover WITH
    todo <- required \ UNION {Bought(routes[k]) : k \in DOMAIN routes},
    plan <- [k \in DOMAIN routes |-> Walk(routes[k])]

Implements == Cover!Spec
=============================================================================
