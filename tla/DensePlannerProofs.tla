------------------------- MODULE DensePlannerProofs -------------------------
(***************************************************************************)
(* For every number of points, every set of required arcs, every limit on  *)
(* the legs and every moment of a cancellation: the routes that are packed *)
(* fit, together they buy every required arc (first part: IInv says where  *)
(* the required arcs are), and they buy no arc twice and plan no walk for  *)
(* nothing, so that the planner implements the safety part of ArcCover     *)
(* (second part: each arc is in one place only).                           *)
(*                                                                         *)
(* These proofs need nothing of the heap but that it yields a vertex: the  *)
(* trails it leads to are packed whole and exactly, whichever they are.    *)
(* The third part is about the heap: between two trails it holds just the  *)
(* vertices that have arcs, so that nothing but a cancellation leaves arcs *)
(* over. Its operations are loops, written as recursive functions: Loops   *)
(* shows that they exist and what a loop keeps. The fourth part counts: no *)
(* plan has fewer routes than the lower bound of the statistics.           *)
(***************************************************************************)
EXTENDS DensePlanner, FiniteSetTheorems, TLAPS

Trailing(f) == f # <<>> /\ Len(f) <= maxLegs /\ Contiguous(f)

Growing == pc \in {"load", "start", "grow"}

\* The arcs of a list of trails, and those that a list of routes buys.
Joined(fs)    == UNION {Range(fs[k]) : k \in DOMAIN fs}
AllBought(rs) == UNION {Bought(rs[k]) : k \in DOMAIN rs}

Typed ==
    /\ required \subseteq Arcs(N)
    /\ maxLegs \in Nat \ {0}
    /\ pc \in {"load", "start", "grow", "rest", "open", "pack", "check", "done"}
    /\ pending \subseteq required
    /\ out \in [Point -> Seq(Point)]
    /\ trail \in Seq(required)
    /\ frags \in Seq(Seq(required))
    /\ packed \subseteq DOMAIN frags

\* Where the required arcs are while the trails grow. No arc is lost between
\* the graph and the trails, and none is invented.
Kept ==
    required = pending \cup ArcsLeft(out) \cup Range(trail) \cup Joined(frags)

\* What each phase has finished when the next begins.
Phases ==
    /\ pc # "load" => pending = {}
    /\ pc # "grow" => trail = <<>>
    /\ pc = "grow" => at \in Point
    /\ ~Growing /\ pc # "rest" => ArcsLeft(out) = {}
    /\ Growing \/ pc = "rest" => packed = {}
    /\ pc \in {"check", "done"} => packed = DOMAIN frags

\* Trails are walks of required arcs that fit in a route.
Trails ==
    /\ \A k \in DOMAIN frags : Trailing(frags[k])
    /\ trail # <<>> => Trailing(trail) /\ End(trail) = at

\* Routes fit, and hold the packed trails whole.
Routes ==
    /\ routes \in Seq(Seq(Leg)) /\ route \in Seq(Leg)
    /\ \A k \in DOMAIN routes : Fits(Walk(routes[k]), maxLegs)
    /\ \A k \in DOMAIN routes : Bought(routes[k]) \subseteq required
    /\ IF pc = "pack" THEN Fits(Walk(route), maxLegs) /\ Bought(route) \subseteq required
       ELSE route = <<>>
    /\ \A k \in packed : Range(frags[k]) \subseteq Bought(route) \cup AllBought(routes)

\* ValidateAndComplete keeps every route.
Checked ==
    /\ checked \in 0 .. Len(routes) /\ valid \in Seq(Seq(Leg)) /\ Len(valid) = checked
    /\ \A k \in 1 .. checked : valid[k] = routes[k]

IInv == Typed /\ Kept /\ Phases /\ Trails /\ Routes /\ Checked

USE DEF growth, result

-----------------------------------------------------------------------------
(* Sequences and walks *)

LEMMA RangeAppend ==
  ASSUME NEW S, NEW s \in Seq(S), NEW e \in S
  PROVE  Range(Append(s, e)) = Range(s) \cup {e}
  <1>1. ASSUME NEW x \in Range(Append(s, e)) PROVE x \in Range(s) \cup {e}
    BY DEF Range
  <1>2. ASSUME NEW x \in Range(s) PROVE x \in Range(Append(s, e))
    <2>1. PICK k \in DOMAIN s : s[k] = x
      BY DEF Range
    <2>2. k \in DOMAIN Append(s, e) /\ Append(s, e)[k] = x
      BY <2>1
    <2> QED BY <2>2 DEF Range
  <1>3. e \in Range(Append(s, e))
    <2>1. Len(s) + 1 \in DOMAIN Append(s, e) /\ Append(s, e)[Len(s) + 1] = e
      OBVIOUS
    <2> QED BY <2>1 DEF Range
  <1> QED BY <1>1, <1>2, <1>3

\* Removing an entry by a swap loses that entry only.
LEMMA SwapRemoveRange ==
  ASSUME NEW S, NEW s \in Seq(S), NEW k \in DOMAIN s
  PROVE  /\ SwapRemove(s, k) \in Seq(S)
         /\ Range(SwapRemove(s, k)) \subseteq Range(s)
         /\ Range(s) \subseteq Range(SwapRemove(s, k)) \cup {s[k]}
  <1> DEFINE n == Len(s)
             t == [s EXCEPT ![k] = s[Len(s)]]
             r == SwapRemove(s, k)
  <1>1. n \in Nat \ {0} /\ k \in 1 .. n /\ t \in Seq(S) /\ Len(t) = n
    OBVIOUS
  <1>2. r \in Seq(S) /\ Len(r) = n - 1 /\ \A i \in 1 .. n - 1 : r[i] = t[i]
    BY <1>1 DEF SwapRemove
  <1>3. ASSUME NEW x \in Range(r) PROVE x \in Range(s)
    <2>1. PICK i \in 1 .. n - 1 : r[i] = x
      BY <1>2 DEF Range
    <2>2. x = s[i] \/ x = s[n]
      BY <1>1, <1>2, <2>1
    <2> QED BY <1>1, <2>2 DEF Range
  <1>4. ASSUME NEW x \in Range(s), x # s[k] PROVE x \in Range(r)
    <2>1. PICK i \in 1 .. n : s[i] = x
      BY DEF Range
    <2>2. CASE i < n
      <3>1. r[i] = x /\ i \in DOMAIN r
        BY <1>1, <1>2, <1>4, <2>1, <2>2
      <3> QED BY <3>1 DEF Range
    <2>3. CASE i = n
      <3>1. k \in 1 .. n - 1
        BY <1>1, <1>4, <2>1, <2>3
      <3>2. r[k] = x /\ k \in DOMAIN r
        BY <1>1, <1>2, <2>1, <2>3, <3>1
      <3> QED BY <3>2 DEF Range
    <2> QED BY <2>1, <2>2, <2>3
  <1> QED BY <1>2, <1>3, <1>4

\* Two walks that meet make one.
LEMMA Join ==
  ASSUME NEW S, NEW s \in Seq(S), NEW t \in Seq(S), Contiguous(s), Contiguous(t),
         s # <<>> /\ t # <<>> => s[Len(s)][2] = t[1][1]
  PROVE  Contiguous(s \o t)
  <1> SUFFICES ASSUME NEW k \in 1 .. Len(s \o t) - 1
               PROVE  (s \o t)[k][2] = (s \o t)[k + 1][1]
    BY DEF Contiguous
  <1>1. Len(s \o t) = Len(s) + Len(t)
    OBVIOUS
  <1>2. CASE k < Len(s)
    <2>1. (s \o t)[k] = s[k] /\ (s \o t)[k + 1] = s[k + 1]
      BY <1>1, <1>2
    <2> QED BY <1>2, <2>1 DEF Contiguous
  <1>3. CASE k = Len(s)
    <2>1. (s \o t)[k] = s[Len(s)] /\ (s \o t)[k + 1] = t[1] /\ s # <<>> /\ t # <<>>
      BY <1>1, <1>3
    <2> QED BY <2>1
  <1>4. CASE k > Len(s)
    <2> DEFINE m == k - Len(s)
    <2>1. m \in 1 .. Len(t) - 1
      BY <1>1, <1>4
    <2>2. (s \o t)[k] = t[m] /\ (s \o t)[k + 1] = t[m + 1]
      BY <1>1, <1>4, <2>1
    <2> QED BY <2>1, <2>2 DEF Contiguous
  <1> QED BY <1>2, <1>3, <1>4

-----------------------------------------------------------------------------
(* The graph *)

LEMMA ArcsAdded ==
  ASSUME NEW g \in [Point -> Seq(Point)], NEW u \in Point, NEW v \in Point
  PROVE  /\ [g EXCEPT ![u] = Append(@, v)] \in [Point -> Seq(Point)]
         /\ ArcsLeft([g EXCEPT ![u] = Append(@, v)]) = ArcsLeft(g) \cup {<<u, v>>}
  <1> DEFINE h == [g EXCEPT ![u] = Append(@, v)]
  <1>1. h \in [Point -> Seq(Point)]
    OBVIOUS
  <1>2. Range(h[u]) = Range(g[u]) \cup {v}
    BY RangeAppend
  <1>3. \A w \in Point \ {u} : h[w] = g[w]
    OBVIOUS
  <1> HIDE DEF h
  <1>4. ASSUME NEW a PROVE a \in ArcsLeft(h) <=> a \in ArcsLeft(g) \cup {<<u, v>>}
    <2>1. a \in ArcsLeft(h) <=> \E w \in Point : \E x \in Range(h[w]) : a = <<w, x>>
      BY DEF ArcsLeft
    <2>2. a \in ArcsLeft(g) <=> \E w \in Point : \E x \in Range(g[w]) : a = <<w, x>>
      BY DEF ArcsLeft
    <2> QED BY <1>2, <1>3, <2>1, <2>2
  <1> QED BY <1>1, <1>4 DEF h

LEMMA ArcsRemoved ==
  ASSUME NEW g, NEW h, NEW u \in Point, NEW v \in Point, v \in Range(g[u]),
         Range(h[u]) \subseteq Range(g[u]), Range(g[u]) \subseteq Range(h[u]) \cup {v},
         \A w \in Point \ {u} : Range(h[w]) = Range(g[w])
  PROVE  ArcsLeft(g) = ArcsLeft(h) \cup {<<u, v>>}
  <1>1. <<u, v>> \in ArcsLeft(g)
    BY DEF ArcsLeft
  <1>2. \A x \in Point : Range(h[x]) \subseteq Range(g[x])
    OBVIOUS
  <1>3. \A x \in Point : \A y \in Range(g[x]) : y \in Range(h[x]) \/ <<x, y>> = <<u, v>>
    OBVIOUS
  <1>4. ArcsLeft(h) \subseteq ArcsLeft(g) /\ ArcsLeft(g) \subseteq ArcsLeft(h) \cup {<<u, v>>}
    BY <1>2, <1>3 DEF ArcsLeft
  <1> QED BY <1>1, <1>4

-----------------------------------------------------------------------------
(* Fragments and routes *)

LEMMA FragAdded ==
  ASSUME NEW S, NEW fs \in Seq(Seq(S)), NEW f \in Seq(S)
  PROVE  Joined(Append(fs, f)) = Range(f) \cup Joined(fs)
  <1> DEFINE gs == Append(fs, f)
  <1>1. /\ DOMAIN gs = DOMAIN fs \cup {Len(fs) + 1}
        /\ \A k \in DOMAIN fs : gs[k] = fs[k]
        /\ gs[Len(fs) + 1] = f
    OBVIOUS
  <1> HIDE DEF gs
  <1> DEFINE A == UNION {Range(gs[k]) : k \in DOMAIN gs}
             B == UNION {Range(fs[k]) : k \in DOMAIN fs}
  <1>2. ASSUME NEW x PROVE x \in A <=> x \in B \/ x \in Range(f)
    <2>1. x \in A <=> \E k \in DOMAIN gs : x \in Range(gs[k])
      OBVIOUS
    <2>2. x \in B <=> \E k \in DOMAIN fs : x \in Range(fs[k])
      OBVIOUS
    <2>3. (\E k \in DOMAIN gs : x \in Range(gs[k]))
            <=> (\E k \in DOMAIN fs : x \in Range(fs[k])) \/ x \in Range(f)
      <3>1. ASSUME NEW k \in DOMAIN gs, x \in Range(gs[k])
            PROVE  (\E l \in DOMAIN fs : x \in Range(fs[l])) \/ x \in Range(f)
        <4>1. CASE k = Len(fs) + 1
          BY <1>1, <3>1, <4>1
        <4>2. CASE k \in DOMAIN fs
          <5>1. gs[k] = fs[k]
            BY <1>1, <4>2
          <5> QED BY <3>1, <4>2, <5>1
        <4> QED BY <1>1, <4>1, <4>2
      <3>2. ASSUME NEW k \in DOMAIN fs, x \in Range(fs[k])
            PROVE  \E l \in DOMAIN gs : x \in Range(gs[l])
        <4>1. gs[k] = fs[k] /\ k \in DOMAIN gs
          BY <1>1
        <4> QED BY <3>2, <4>1
      <3>3. ASSUME x \in Range(f)
            PROVE  \E l \in DOMAIN gs : x \in Range(gs[l])
        <4>1. gs[Len(fs) + 1] = f /\ Len(fs) + 1 \in DOMAIN gs
          BY <1>1
        <4> QED BY <3>3, <4>1
      <3> QED BY <3>1, <3>2, <3>3
    <2> HIDE DEF A, B
    <2> QED BY <2>1, <2>2, <2>3
  <1> HIDE DEF A, B
  <1>3. A = Range(f) \cup B
    BY <1>2
  <1> QED BY <1>3 DEF A, B, gs, Joined

LEMMA LegsOf ==
  ASSUME NEW f \in Seq(Cells(N))
  PROVE  /\ Legs(f) \in Seq(Leg) /\ Len(Legs(f)) = Len(f)
         /\ Walk(Legs(f)) = f
         /\ Bought(Legs(f)) = Range(f)
  <1>1. \A k \in DOMAIN f : [arc |-> f[k], kind |-> "required"] \in Leg
    BY DEF Leg
  <1>2. Legs(f) \in Seq(Leg) /\ DOMAIN Legs(f) = DOMAIN f /\ Len(Legs(f)) = Len(f)
    BY <1>1 DEF Legs
  <1>3. \A k \in DOMAIN f : Legs(f)[k].arc = f[k] /\ Legs(f)[k].kind = "required"
    BY DEF Legs
  <1>4. Walk(Legs(f)) = f
    BY <1>2, <1>3 DEF Walk
  <1>5. Bought(Legs(f)) = Range(f)
    BY <1>2, <1>3 DEF Bought, Range
  <1> QED BY <1>2, <1>4, <1>5

LEMMA WalkTyped ==
  ASSUME NEW r \in Seq(Leg)
  PROVE  Walk(r) \in Seq(Cells(N)) /\ Len(Walk(r)) = Len(r)
         /\ \A k \in DOMAIN r : Walk(r)[k] = r[k].arc
  <1>1. ASSUME NEW k \in DOMAIN r PROVE r[k].arc \in Cells(N)
    <2>1. r[k] \in Leg
      OBVIOUS
    <2> QED BY <2>1 DEF Leg
  <1> QED BY <1>1 DEF Walk

\* A route goes on over a bridge with the legs of a fragment.
LEMMA RouteExtended ==
  ASSUME NEW r \in Seq(Leg), NEW f \in Seq(Cells(N)), r # <<>>, f # <<>>,
         Contiguous(Walk(r)), Contiguous(f)
  PROVE  LET q == Append(r, Bridge(RouteEnd(r), Start(f))) \o Legs(f)
         IN  /\ q \in Seq(Leg) /\ Len(q) = Len(r) + 1 + Len(f)
             /\ Contiguous(Walk(q))
             /\ Bought(q) = Bought(r) \cup Range(f)
  <1> DEFINE b == Bridge(RouteEnd(r), Start(f))
             p == Append(r, b)
             q == p \o Legs(f)
             n == Len(r)
  <1>1. r[n].arc \in Cells(N) /\ f[1] \in Cells(N)
    <2>1. n \in DOMAIN r /\ 1 \in DOMAIN f /\ r[n] \in Leg
      OBVIOUS
    <2> QED BY <2>1 DEF Leg
  <1>2. b \in Leg /\ b.arc = <<r[n].arc[2], f[1][1]>> /\ b.kind = "bridge"
    BY <1>1 DEF Bridge, RouteEnd, Start, Leg, Cells
  <1>3. /\ Legs(f) \in Seq(Leg) /\ Len(Legs(f)) = Len(f)
        /\ \A k \in DOMAIN f : Legs(f)[k].arc = f[k] /\ Legs(f)[k].kind = "required"
    BY LegsOf DEF Legs
  <1> HIDE DEF b
  <1>4. p \in Seq(Leg) /\ Len(p) = n + 1 /\ p[n + 1] = b /\ \A k \in 1 .. n : p[k] = r[k]
    BY <1>2
  <1> HIDE DEF p
  <1>5. /\ q \in Seq(Leg) /\ Len(q) = n + 1 + Len(f)
        /\ \A k \in 1 .. n + 1 : q[k] = p[k]
        /\ \A k \in 1 .. Len(f) : q[n + 1 + k] = Legs(f)[k]
    <2> DEFINE t == Legs(f)
    <2>1. t \in Seq(Leg) /\ Len(t) = Len(f)
      BY <1>3
    <2> HIDE DEF t
    <2>2. /\ p \o t \in Seq(Leg) /\ Len(p \o t) = n + 1 + Len(f)
          /\ \A k \in 1 .. n + 1 : (p \o t)[k] = p[k]
          /\ \A k \in 1 .. Len(f) : (p \o t)[n + 1 + k] = t[k]
      BY <1>4, <2>1
    <2> QED BY <2>2 DEF t
  <1> HIDE DEF q
  <1>6. /\ Walk(q) \in Seq(Cells(N)) /\ Len(Walk(q)) = n + 1 + Len(f)
        /\ \A k \in 1 .. n : Walk(q)[k] = r[k].arc
        /\ Walk(q)[n + 1] = <<r[n].arc[2], f[1][1]>>
        /\ \A k \in 1 .. Len(f) : Walk(q)[n + 1 + k] = f[k]
    <2>1. /\ Walk(q) \in Seq(Cells(N)) /\ Len(Walk(q)) = n + 1 + Len(f)
          /\ \A k \in 1 .. n + 1 + Len(f) : Walk(q)[k] = q[k].arc
      BY <1>5, WalkTyped
    <2>2. \A k \in 1 .. Len(f) : n + 1 + k \in 1 .. n + 1 + Len(f)
      OBVIOUS
    <2>3. n + 1 \in 1 .. n + 1 + Len(f) /\ n + 1 \in 1 .. n + 1
      OBVIOUS
    <2>4. ASSUME NEW k \in 1 .. n PROVE Walk(q)[k] = r[k].arc
      <3>1. k \in 1 .. n + 1 /\ k \in 1 .. n + 1 + Len(f)
        OBVIOUS
      <3>2. q[k] = p[k] /\ p[k] = r[k]
        BY <1>4, <1>5, <3>1
      <3> QED BY <2>1, <3>1, <3>2
    <2>5. Walk(q)[n + 1] = <<r[n].arc[2], f[1][1]>>
      <3>1. q[n + 1] = b
        BY <1>4, <1>5, <2>3
      <3> QED BY <1>2, <2>1, <2>3, <3>1
    <2>6. ASSUME NEW k \in 1 .. Len(f) PROVE Walk(q)[n + 1 + k] = f[k]
      <3>1. q[n + 1 + k] = Legs(f)[k] /\ Legs(f)[k].arc = f[k]
        BY <1>3, <1>5
      <3> QED BY <2>1, <2>2, <3>1
    <2> QED BY <2>1, <2>4, <2>5, <2>6
  <1>7. Contiguous(Walk(q))
    <2> SUFFICES ASSUME NEW k \in 1 .. n + Len(f)
                 PROVE  Walk(q)[k][2] = Walk(q)[k + 1][1]
      <3>1. Len(Walk(q)) - 1 = n + Len(f)
        BY <1>6
      <3> QED BY <3>1 DEF Contiguous
    <2>1. CASE k < n
      <3>1. Walk(r)[k][2] = Walk(r)[k + 1][1]
        BY <2>1, WalkTyped DEF Contiguous
      <3>2. k \in 1 .. n /\ k + 1 \in 1 .. n
        BY <2>1
      <3>3. Walk(q)[k] = Walk(r)[k] /\ Walk(q)[k + 1] = Walk(r)[k + 1]
        BY <1>6, <3>2, WalkTyped
      <3> QED BY <3>1, <3>3
    <2>2. CASE k = n
      BY <1>6, <2>2
    <2>3. CASE k = n + 1
      <3>1. Walk(q)[k + 1] = f[1]
        BY <1>6, <2>3
      <3> QED BY <1>6, <2>3, <3>1
    <2>4. CASE k > n + 1
      <3> DEFINE m == k - (n + 1)
      <3>1. m \in 1 .. Len(f) - 1
        BY <2>4
      <3>2. f[m][2] = f[m + 1][1]
        BY <3>1 DEF Contiguous
      <3>3. m \in 1 .. Len(f) /\ m + 1 \in 1 .. Len(f) /\ k = n + 1 + m
              /\ k + 1 = n + 1 + (m + 1)
        BY <3>1
      <3>4. Walk(q)[n + 1 + m] = f[m] /\ Walk(q)[n + 1 + (m + 1)] = f[m + 1]
        BY <1>6, <3>3
      <3> QED BY <3>2, <3>3, <3>4
    <2> QED BY <2>1, <2>2, <2>3, <2>4
  <1>8. Bought(q) = Bought(r) \cup Range(f)
    <2>1. ASSUME NEW x \in Bought(q) PROVE x \in Bought(r) \cup Range(f)
      <3>1. PICK k \in DOMAIN q : q[k].kind = "required" /\ q[k].arc = x
        BY DEF Bought
      <3>2. CASE k <= n
        BY <1>4, <1>5, <3>1, <3>2 DEF Bought
      <3>3. CASE k = n + 1
        <4>1. q[k] = b
          <5>1. n + 1 \in 1 .. n + 1
            OBVIOUS
          <5>2. q[n + 1] = p[n + 1]
            BY <1>5, <5>1
          <5> QED BY <1>4, <3>3, <5>2
        <4> QED BY <1>2, <3>1, <4>1
      <3>4. CASE k > n + 1
        <4> DEFINE m == k - (n + 1)
        <4>1. k \in 1 .. n + 1 + Len(f) /\ n \in Nat /\ Len(f) \in Nat
          BY <1>5
        <4>2. m \in 1 .. Len(f) /\ k = n + 1 + m
          BY <3>4, <4>1
        <4> HIDE DEF m
        <4>3. q[n + 1 + m] = Legs(f)[m]
          BY <1>5, <4>2
        <4>4. f[m] = x /\ m \in DOMAIN f
          BY <1>3, <3>1, <4>2, <4>3
        <4> QED BY <4>4 DEF Range
      <3> QED BY <1>5, <3>2, <3>3, <3>4
    <2>2. ASSUME NEW x \in Bought(r) PROVE x \in Bought(q)
      <3>1. PICK k \in 1 .. n : r[k].kind = "required" /\ r[k].arc = x
        BY DEF Bought
      <3>2. k \in DOMAIN q /\ q[k] = r[k]
        BY <1>4, <1>5
      <3> QED BY <3>1, <3>2 DEF Bought
    <2>3. ASSUME NEW x \in Range(f) PROVE x \in Bought(q)
      <3>1. PICK k \in 1 .. Len(f) : f[k] = x
        BY DEF Range
      <3>2. n + 1 + k \in DOMAIN q /\ q[n + 1 + k] = Legs(f)[k]
        BY <1>5
      <3> QED BY <1>3, <3>1, <3>2 DEF Bought
    <2> QED BY <2>1, <2>2, <2>3
  <1> QED BY <1>5, <1>7, <1>8 DEF q, p, b
LEMMA BoughtAdded ==
  ASSUME NEW rs \in Seq(Seq(Leg)), NEW r \in Seq(Leg)
  PROVE  AllBought(Append(rs, r)) = Bought(r) \cup AllBought(rs)
  <1> DEFINE qs == Append(rs, r)
  <1>1. /\ DOMAIN qs = DOMAIN rs \cup {Len(rs) + 1}
        /\ \A k \in DOMAIN rs : qs[k] = rs[k]
        /\ qs[Len(rs) + 1] = r
    OBVIOUS
  <1> HIDE DEF qs
  <1> DEFINE A == UNION {Bought(qs[k]) : k \in DOMAIN qs}
             B == UNION {Bought(rs[k]) : k \in DOMAIN rs}
  <1>2. ASSUME NEW x PROVE x \in A <=> x \in B \/ x \in Bought(r)
    <2>1. x \in A <=> \E k \in DOMAIN qs : x \in Bought(qs[k])
      OBVIOUS
    <2>2. x \in B <=> \E k \in DOMAIN rs : x \in Bought(rs[k])
      OBVIOUS
    <2>3. ASSUME NEW k \in DOMAIN qs, x \in Bought(qs[k])
          PROVE  (\E l \in DOMAIN rs : x \in Bought(rs[l])) \/ x \in Bought(r)
      <3>1. CASE k = Len(rs) + 1
        BY <1>1, <2>3, <3>1
      <3>2. CASE k \in DOMAIN rs
        <4>1. qs[k] = rs[k]
          BY <1>1, <3>2
        <4> QED BY <2>3, <3>2, <4>1
      <3> QED BY <1>1, <3>1, <3>2
    <2>4. ASSUME NEW k \in DOMAIN rs, x \in Bought(rs[k])
          PROVE  \E l \in DOMAIN qs : x \in Bought(qs[l])
      <3>1. qs[k] = rs[k] /\ k \in DOMAIN qs
        BY <1>1
      <3> QED BY <2>4, <3>1
    <2>5. ASSUME x \in Bought(r)
          PROVE  \E l \in DOMAIN qs : x \in Bought(qs[l])
      <3>1. qs[Len(rs) + 1] = r /\ Len(rs) + 1 \in DOMAIN qs
        BY <1>1
      <3> QED BY <2>5, <3>1
    <2> HIDE DEF A, B
    <2> QED BY <2>1, <2>2, <2>3, <2>4, <2>5
  <1> HIDE DEF A, B
  <1>3. A = Bought(r) \cup B
    BY <1>2
  <1> QED BY <1>3 DEF A, B, qs, AllBought

LEMMA EmptyRoute == Bought(<<>>) = {}
  BY DEF Bought

-----------------------------------------------------------------------------
(* The trails grow *)

LEMMA InitIInv == Init => IInv
  <1> SUFFICES ASSUME Init PROVE IInv
    OBVIOUS
  <1>1. required \subseteq Arcs(N) /\ maxLegs \in Nat \ {0}
    BY PlannerAssumption DEF Init
  <1>2. Typed
    BY <1>1 DEF Init, Typed
  <1>3. ArcsLeft(out) = {}
    <2>1. \A u \in Point : Range(out[u]) = {}
      BY DEF Init, Range
    <2> QED BY <2>1 DEF ArcsLeft
  <1>4. Kept
    <2>1. Range(trail) = {} /\ Joined(frags) = {}
      BY DEF Init, Range, Joined
    <2> QED BY <1>3, <2>1 DEF Init, Kept
  <1>5. Phases /\ Trails
    BY DEF Init, Phases, Trails, Growing
  <1>6. Routes
    BY DEF Init, Routes
  <1>7. Checked
    BY DEF Init, Checked
  <1> QED BY <1>2, <1>4, <1>5, <1>6, <1>7 DEF IInv

LEMMA LoadKeeps ==
  ASSUME IInv, NEW a \in required, Load(a)
  PROVE  IInv'
  <1>1. a[1] \in Point /\ a[2] \in Point /\ a = <<a[1], a[2]>>
    BY DEF IInv, Typed, Arcs, Cells, Point
  <1>2. out' \in [Point -> Seq(Point)] /\ ArcsLeft(out') = ArcsLeft(out) \cup {a}
    <2> DEFINE g == [out EXCEPT ![a[1]] = Append(@, a[2])]
    <2>1. out \in [Point -> Seq(Point)] /\ out' = g
      BY DEF IInv, Typed, Load
    <2>2. g \in [Point -> Seq(Point)] /\ ArcsLeft(g) = ArcsLeft(out) \cup {<<a[1], a[2]>>}
      BY <1>1, <2>1, ArcsAdded
    <2> HIDE DEF g
    <2> QED BY <1>1, <2>1, <2>2
  <1>3. Typed'
    BY <1>2 DEF IInv, Typed, Load
  <1>4. Kept'
    BY <1>2 DEF IInv, Kept, Load, First
  <1>5. Phases' /\ Trails'
    BY DEF IInv, Phases, Trails, Trailing, Growing, Load
  <1>6. Routes'
    BY DEF IInv, Routes, Load
  <1>7. Checked'
    BY DEF IInv, Checked, Load
  <1> QED BY <1>3, <1>4, <1>5, <1>6, <1>7 DEF IInv

LEMMA StartTrailKeeps ==
  ASSUME IInv, NEW v \in Point, StartTrail(v)
  PROVE  IInv'
  <1>1. Typed' /\ Kept'
    BY DEF IInv, Typed, Kept, StartTrail
  <1>2. Phases' /\ Trails'
    BY DEF IInv, Phases, Trails, Trailing, Growing, StartTrail
  <1>3. Routes'
    BY DEF IInv, Routes, StartTrail
  <1>4. Checked'
    BY DEF IInv, Checked, StartTrail
  <1> QED BY <1>1, <1>2, <1>3, <1>4 DEF IInv

LEMMA GrowKeeps ==
  ASSUME IInv, NEW k \in Point, Grow(k)
  PROVE  IInv'
  <1> DEFINE arc == <<at, out[at][k]>>
  <1>1. at \in Point /\ out \in [Point -> Seq(Point)] /\ trail \in Seq(required)
    BY DEF IInv, Typed, Phases, Grow
  <1>2. k \in DOMAIN out[at]
    BY <1>1, PlannerAssumption DEF Grow, Selects
  <1>3. /\ out' \in [Point -> Seq(Point)]
        /\ arc \in ArcsLeft(out)
        /\ ArcsLeft(out) = ArcsLeft(out') \cup {arc}
        /\ arc[1] = at /\ arc[2] = at'
    <2>1. /\ out' = [out EXCEPT ![at] = SwapRemove(out[at], k)]
          /\ at' = arc[2]
      BY DEF Grow
    <2>2. SwapRemove(out[at], k) \in Seq(Point)
      BY <1>1, <1>2, SwapRemoveRange
    <2>3. /\ out' \in [Point -> Seq(Point)] /\ out'[at] = SwapRemove(out[at], k)
          /\ \A w \in Point \ {at} : out'[w] = out[w]
      BY <1>1, <2>1, <2>2
    <2> DEFINE v == out[at][k]
    <2>4. /\ v \in Point /\ v \in Range(out[at])
          /\ Range(out'[at]) \subseteq Range(out[at])
          /\ Range(out[at]) \subseteq Range(out'[at]) \cup {v}
      <3>1. v \in Point /\ v \in Range(out[at])
        BY <1>1, <1>2 DEF Range
      <3> QED BY <1>1, <1>2, <2>3, <3>1, SwapRemoveRange
    <2>5. arc = <<at, v>> /\ arc[1] = at /\ at' = v
      BY <2>1
    <2> HIDE DEF arc, v
    <2>6. \A w \in Point \ {at} : Range(out'[w]) = Range(out[w])
      BY <2>3
    <2>7. at \in Point
      BY <1>1
    <2>8. ArcsLeft(out) = ArcsLeft(out') \cup {<<at, v>>}
      BY <2>4, <2>6, <2>7, ArcsRemoved
    <2> QED BY <2>1, <2>3, <2>5, <2>8
  <1>4. trail' = Append(trail, arc)
    BY DEF Grow
  <1> HIDE DEF arc
  <1>5. arc \in required
    BY <1>3 DEF IInv, Kept
  <1>6. trail' \in Seq(required) /\ Range(trail') = Range(trail) \cup {arc}
    BY <1>1, <1>4, <1>5, RangeAppend
  <1>7. Typed'
    BY <1>3, <1>6 DEF IInv, Typed, Grow
  <1>8. Kept'
    <2>1. UNCHANGED <<required, pending, frags>>
      BY DEF Grow
    <2> QED BY <1>3, <1>6, <2>1 DEF IInv, Kept
  <1>9. Phases'
    <2>1. at' \in Point
      BY <1>1, <1>2 DEF Grow
    <2> QED BY <2>1 DEF IInv, Phases, Growing, Grow
  <1>10. Trails'
    <2>1. /\ Len(trail') = Len(trail) + 1 /\ trail'[Len(trail')] = arc
          /\ \A m \in 1 .. Len(trail) : trail'[m] = trail[m]
      BY <1>1, <1>4, <1>5
    <2>2. Contiguous(trail')
      <3> SUFFICES ASSUME NEW m \in 1 .. Len(trail)
                   PROVE  trail'[m][2] = trail'[m + 1][1]
        BY <2>1 DEF Contiguous
      <3>1. trail # <<>>
        BY <1>1
      <3>2. CASE m = Len(trail)
        BY <1>1, <1>3, <2>1, <3>1, <3>2 DEF IInv, Trails, End
      <3>3. CASE m < Len(trail)
        <4>1. m \in 1 .. Len(trail) - 1 /\ m + 1 \in 1 .. Len(trail)
          BY <1>1, <3>3
        <4>2. trail[m][2] = trail[m + 1][1]
          BY <3>1, <4>1 DEF IInv, Trails, Trailing, Contiguous
        <4> QED BY <2>1, <4>1, <4>2
      <3> QED BY <1>1, <3>2, <3>3
    <2>3. Len(trail') <= maxLegs /\ trail' # <<>> /\ End(trail') = at'
      <3>1. Len(trail) < maxLegs /\ maxLegs \in Nat
        BY DEF IInv, Typed, Grow
      <3>2. trail'[Len(trail')][2] = at'
        BY <1>3, <2>1
      <3> QED BY <1>1, <1>6, <2>1, <3>1, <3>2 DEF End
    <2> QED BY <2>2, <2>3 DEF IInv, Trails, Trailing, Grow
  <1>11. Routes'
    BY DEF IInv, Routes, Grow
  <1>12. Checked'
    BY DEF IInv, Checked, Grow
  <1> QED BY <1>7, <1>8, <1>9, <1>10, <1>11, <1>12 DEF IInv

\* Fragments are added while nothing is packed.
LEMMA FragKeeps ==
  ASSUME IInv, packed = {}, NEW f \in Seq(required), Trailing(f),
         frags' = Append(frags, f), UNCHANGED <<required, maxLegs>>
  PROVE  /\ frags' \in Seq(Seq(required))
         /\ Joined(frags') = Range(f) \cup Joined(frags)
         /\ \A k \in DOMAIN frags' : Trailing(frags[k])'
  <1>1. frags \in Seq(Seq(required))
    BY DEF IInv, Typed
  <1>2. frags' \in Seq(Seq(required))
    BY <1>1
  <1>3. Joined(frags') = Range(f) \cup Joined(frags)
    BY <1>1, FragAdded
  <1>4. ASSUME NEW k \in DOMAIN frags' PROVE Trailing(frags[k])'
    <2>1. CASE k = Len(frags) + 1
      <3>1. frags'[k] = f
        BY <1>1, <2>1
      <3> QED BY <3>1 DEF Trailing
    <2>2. CASE k \in DOMAIN frags
      <3>1. frags'[k] = frags[k]
        BY <1>1, <2>2
      <3> QED BY <2>2, <3>1 DEF IInv, Trails, Trailing
    <2> QED BY <1>1, <2>1, <2>2
  <1> QED BY <1>2, <1>3, <1>4
LEMMA EndTrailKeeps ==
  ASSUME IInv, EndTrail
  PROVE  IInv'
  <1>0. Checked'
    BY DEF IInv, Checked, EndTrail
  <1>1. CASE trail = <<>>
    <2>1. Typed' /\ Kept' /\ Phases'
      BY <1>1 DEF IInv, Typed, Kept, Phases, Growing, EndTrail
    <2>2. Trails' /\ Routes'
      BY <1>1 DEF IInv, Trails, Trailing, Routes, EndTrail
    <2> QED BY <1>0, <2>1, <2>2 DEF IInv
  <1>2. CASE trail # <<>>
    <2>1. /\ trail \in Seq(required) /\ Trailing(trail) /\ packed = {}
          /\ required' = required /\ maxLegs' = maxLegs /\ pending' = pending
          /\ out' = out /\ packed' = packed /\ trail' = <<>>
          /\ frags' = Append(frags, trail) /\ pc' = "start"
      BY <1>2 DEF IInv, Typed, Phases, Trails, Growing, EndTrail
    <2>2. /\ frags' \in Seq(Seq(required))
          /\ Joined(frags') = Range(trail) \cup Joined(frags)
          /\ \A k \in DOMAIN frags' : Trailing(frags[k])'
      BY <2>1, FragKeeps
    <2>3. Typed'
      BY <2>1, <2>2 DEF IInv, Typed
    <2>4. Kept'
      <3>1. Range(trail') = {}
        BY <2>1 DEF Range
      <3> QED BY <2>1, <2>2, <3>1 DEF IInv, Kept
    <2>5. Phases' /\ Trails'
      BY <2>1, <2>2 DEF IInv, Phases, Trails, Growing, EndTrail
    <2>6. Routes'
      BY <2>1 DEF IInv, Routes, EndTrail
    <2> QED BY <1>0, <2>3, <2>4, <2>5, <2>6 DEF IInv
  <1> QED BY <1>1, <1>2

LEMMA SingleKeeps ==
  ASSUME IInv, NEW a \in required, Single(a)
  PROVE  IInv'
  <1> DEFINE u == a[1]
             v == a[2]
             i == PosOf(out[u], v)
  <1>1. /\ u \in Point /\ v \in Point /\ a = <<u, v>> /\ a \in ArcsLeft(out)
        /\ out \in [Point -> Seq(Point)] /\ pc = "rest" /\ pc' = "rest" /\ packed = {}
        /\ trail = <<>>
    BY DEF IInv, Typed, Phases, Arcs, Cells, Point, Single, First, Growing
  <1>2. v \in Range(out[u])
    BY <1>1 DEF ArcsLeft
  <1>3. i \in DOMAIN out[u] /\ out[u][i] = v
    BY <1>2 DEF Range, PosOf
  <1> DEFINE s == SwapRemove(out[u], i)
  <1>4. /\ s \in Seq(Point) /\ Range(s) \subseteq Range(out[u])
        /\ Range(out[u]) \subseteq Range(s) \cup {v}
    <2>1. out[u] \in Seq(Point)
      BY <1>1
    <2> HIDE DEF i, u, v
    <2>2. /\ s \in Seq(Point) /\ Range(s) \subseteq Range(out[u])
          /\ Range(out[u]) \subseteq Range(s) \cup {out[u][i]}
      BY <1>3, <2>1, SwapRemoveRange
    <2> QED BY <1>3, <2>2
  <1>5. out' = [out EXCEPT ![u] = s]
    BY DEF Single
  <1> HIDE DEF s
  <1>6. /\ out' \in [Point -> Seq(Point)] /\ out'[u] = s
        /\ \A w \in Point \ {u} : Range(out'[w]) = Range(out[w])
    BY <1>1, <1>4, <1>5
  <1> HIDE DEF u, v
  <1>7. ArcsLeft(out) = ArcsLeft(out') \cup {<<u, v>>}
    <2>1. u \in Point /\ v \in Point
      BY <1>1
    <2>2. /\ Range(out'[u]) \subseteq Range(out[u])
          /\ Range(out[u]) \subseteq Range(out'[u]) \cup {v}
      BY <1>4, <1>6
    <2>3. \A w \in Point \ {u} : Range(out'[w]) = Range(out[w])
      BY <1>6
    <2> QED BY <1>2, <2>1, <2>2, <2>3, ArcsRemoved
  <1>8. ArcsLeft(out) = ArcsLeft(out') \cup {a}
    BY <1>1, <1>7
  <1> DEFINE f == <<a>>
  <1>9. f \in Seq(required) /\ Range(f) = {a} /\ Len(f) = 1
    BY DEF Range
  <1>10. Trailing(f)
    BY DEF Trailing, Contiguous, IInv, Typed
  <1>11. frags' = Append(frags, f) /\ UNCHANGED <<required, maxLegs, pending, trail, packed>>
    BY DEF Single
  <1> HIDE DEF f
  <1>12. /\ frags' \in Seq(Seq(required))
         /\ Joined(frags') = Range(f) \cup Joined(frags)
         /\ \A k \in DOMAIN frags' : Trailing(frags[k])'
    BY <1>1, <1>9, <1>10, <1>11, FragKeeps
  <1>13. Typed'
    BY <1>1, <1>6, <1>11, <1>12 DEF IInv, Typed
  <1>14. Kept'
    BY <1>8, <1>9, <1>11, <1>12 DEF IInv, Kept
  <1>15. Phases' /\ Trails'
    BY <1>1, <1>11, <1>12 DEF IInv, Phases, Trails, Growing
  <1>16. Routes'
    BY <1>1, <1>11 DEF IInv, Routes, Single
  <1>17. Checked'
    BY DEF IInv, Checked, Single
  <1> QED BY <1>13, <1>14, <1>15, <1>16, <1>17 DEF IInv

\* The steps from one phase to the next.
LEMMA PhasesKeep ==
  ASSUME IInv, Loaded \/ NoTrail \/ Cut \/ Grown \/ Packed
  PROVE  IInv'
  <1>1. Typed' /\ Kept'
    BY DEF IInv, Typed, Kept, Loaded, NoTrail, Cut, Grown, Packed
  <1>2. Phases'
    BY DEF IInv, Phases, Growing, Typed, Unpacked, Loaded, NoTrail, Cut, Grown, Packed
  <1>3. Trails'
    BY DEF IInv, Trails, Trailing, Loaded, NoTrail, Cut, Grown, Packed
  <1>4. Routes'
    BY DEF IInv, Routes, Loaded, NoTrail, Cut, Grown, Packed
  <1>5. Checked'
    BY DEF IInv, Checked, Loaded, NoTrail, Cut, Grown, Packed
  <1> QED BY <1>1, <1>2, <1>3, <1>4, <1>5 DEF IInv

-----------------------------------------------------------------------------
(* The routes are packed *)

\* A fragment is a walk of required arcs.
LEMMA FragmentOf ==
  ASSUME IInv, NEW k \in DOMAIN frags
  PROVE  /\ frags[k] \in Seq(required) /\ frags[k] \in Seq(Cells(N))
         /\ frags[k] # <<>> /\ Len(frags[k]) \in 1 .. maxLegs /\ Contiguous(frags[k])
         /\ Range(frags[k]) \subseteq required
  <1>1. frags[k] \in Seq(required) /\ required \subseteq Cells(N)
    BY DEF IInv, Typed, Arcs
  <1>2. frags[k] \in Seq(Cells(N)) /\ Range(frags[k]) \subseteq required
    BY <1>1 DEF Range
  <1>3. frags[k] # <<>> /\ Len(frags[k]) <= maxLegs /\ Contiguous(frags[k])
    BY DEF IInv, Trails, Trailing
  <1> QED BY <1>1, <1>2, <1>3

LEMMA OpenRouteKeeps ==
  ASSUME IInv, NEW k \in DOMAIN frags, OpenRoute(k)
  PROVE  IInv'
  <1>1. /\ Legs(frags[k]) \in Seq(Leg) /\ Len(Legs(frags[k])) = Len(frags[k])
        /\ Walk(Legs(frags[k])) = frags[k]
        /\ Bought(Legs(frags[k])) = Range(frags[k])
    BY FragmentOf, LegsOf
  <1>2. Fits(Walk(Legs(frags[k])), maxLegs)
    BY <1>1, FragmentOf DEF Fits
  <1>3. Typed' /\ Kept' /\ Phases'
    BY DEF IInv, Typed, Kept, Phases, Growing, OpenRoute
  <1>4. Trails'
    BY DEF IInv, Trails, Trailing, OpenRoute
  <1>5. Routes'
    <2>1. /\ pc # "done" /\ route' = Legs(frags[k]) /\ routes' = routes /\ pc' = "pack"
          /\ packed' = packed \cup {k} /\ frags' = frags
          /\ required' = required /\ maxLegs' = maxLegs /\ route = <<>>
      BY DEF OpenRoute, IInv, Routes
    <2>2. /\ route' \in Seq(Leg) /\ Fits(Walk(route'), maxLegs)
          /\ Bought(route') = Range(frags[k]) /\ Range(frags[k]) \subseteq required
      BY <1>1, <1>2, <2>1, FragmentOf
    <2>3. \A m \in packed : Range(frags[m]) \subseteq AllBought(routes)
      BY <2>1, EmptyRoute DEF IInv, Routes
    <2>4. \A m \in packed' : Range(frags[m]) \subseteq Bought(route') \cup AllBought(routes)
      BY <2>1, <2>2, <2>3
    <2> QED BY <2>1, <2>2, <2>4 DEF IInv, Routes
  <1>6. Checked'
    BY DEF IInv, Checked, OpenRoute
  <1> QED BY <1>3, <1>4, <1>5, <1>6 DEF IInv

LEMMA AppendFragmentKeeps ==
  ASSUME IInv, NEW k \in DOMAIN frags, AppendFragment(k)
  PROVE  IInv'
  <1> DEFINE f == frags[k]
             q == Append(route, Bridge(RouteEnd(route), Start(f))) \o Legs(f)
  <1>1. /\ f \in Seq(Cells(N)) /\ f # <<>> /\ Contiguous(f) /\ Len(f) \in Nat
        /\ Range(f) \subseteq required
    BY FragmentOf
  <1>2. /\ route \in Seq(Leg) /\ Fits(Walk(route), maxLegs) /\ Bought(route) \subseteq required
        /\ maxLegs \in Nat /\ pc = "pack" /\ pc' = pc
    BY DEF IInv, Typed, Routes, AppendFragment
  <1>3. route # <<>> /\ Contiguous(Walk(route)) /\ Len(route) \in Nat
    BY <1>2, WalkTyped DEF Fits
  <1>4. Len(route) + 1 + Len(f) <= maxLegs
    BY <1>1, <1>2, <1>3 DEF AppendFragment, Appends, FitsSpace, Size, Space
  <1>5. /\ q \in Seq(Leg) /\ Len(q) = Len(route) + 1 + Len(f)
        /\ Contiguous(Walk(q))
        /\ Bought(q) = Bought(route) \cup Range(f)
    <2> HIDE DEF f
    <2> QED BY <1>1, <1>2, <1>3, RouteExtended
  <1>6. /\ route' = q /\ routes' = routes /\ packed' = packed \cup {k} /\ frags' = frags
        /\ required' = required /\ maxLegs' = maxLegs
    BY DEF AppendFragment
  <1> HIDE DEF q
  <1>7. Fits(Walk(q), maxLegs)
    <2>1. Len(Walk(q)) = Len(q)
      BY <1>5, WalkTyped
    <2> QED BY <1>1, <1>2, <1>3, <1>4, <1>5, <2>1 DEF Fits
  <1>8. Typed' /\ Kept' /\ Phases'
    BY DEF IInv, Typed, Kept, Phases, Growing, AppendFragment
  <1>9. Trails'
    BY DEF IInv, Trails, Trailing, AppendFragment
  <1>10. Routes'
    <2>1. \A m \in packed : Range(frags[m]) \subseteq Bought(route) \cup AllBought(routes)
      BY <1>2 DEF IInv, Routes
    <2>2. \A m \in packed' : Range(frags[m]) \subseteq Bought(route') \cup AllBought(routes)
      BY <1>5, <1>6, <2>1
    <2>3. Bought(route') \subseteq required
      BY <1>1, <1>2, <1>5, <1>6
    <2> QED BY <1>2, <1>5, <1>6, <1>7, <2>2, <2>3 DEF IInv, Routes
  <1>11. Checked'
    BY DEF IInv, Checked, AppendFragment
  <1> QED BY <1>8, <1>9, <1>10, <1>11 DEF IInv

LEMMA CloseRouteKeeps ==
  ASSUME IInv, CloseRoute
  PROVE  IInv'
  <1>1. Typed' /\ Kept' /\ Phases'
    BY DEF IInv, Typed, Kept, Phases, Growing, CloseRoute
  <1>2. Trails'
    BY DEF IInv, Trails, Trailing, CloseRoute
  <1>3. /\ pc = "pack" /\ pc' = "open" /\ routes' = Append(routes, route) /\ route' = <<>>
        /\ UNCHANGED <<required, maxLegs, packed, frags>>
    BY DEF CloseRoute
  <1>4. /\ routes \in Seq(Seq(Leg)) /\ route \in Seq(Leg)
        /\ Fits(Walk(route), maxLegs) /\ Bought(route) \subseteq required
        /\ \A k \in DOMAIN routes : Fits(Walk(routes[k]), maxLegs)
        /\ \A k \in DOMAIN routes : Bought(routes[k]) \subseteq required
        /\ \A k \in packed : Range(frags[k]) \subseteq Bought(route) \cup AllBought(routes)
    BY <1>3 DEF IInv, Routes
  <1>5. AllBought(routes') = Bought(route) \cup AllBought(routes)
    BY <1>3, <1>4, BoughtAdded
  <1>6. /\ routes' \in Seq(Seq(Leg))
        /\ \A k \in DOMAIN routes' : Fits(Walk(routes'[k]), maxLegs)
        /\ \A k \in DOMAIN routes' : Bought(routes'[k]) \subseteq required
    <2>1. routes' \in Seq(Seq(Leg))
      BY <1>3, <1>4
    <2>2. \A k \in DOMAIN routes' : \/ k \in DOMAIN routes /\ routes'[k] = routes[k]
                                    \/ routes'[k] = route
      BY <1>3, <1>4
    <2> QED BY <1>4, <2>1, <2>2
  <1>7. Routes'
    <2>1. \A k \in packed' : Range(frags'[k]) \subseteq Bought(route') \cup AllBought(routes')
      BY <1>3, <1>4, <1>5
    <2>2. route' \in Seq(Leg)
      BY <1>3
    <2> QED BY <1>3, <1>6, <2>1, <2>2 DEF Routes
  <1>8. Checked'
    <2>1. Len(routes') = Len(routes) + 1 /\ \A k \in 1 .. Len(routes) : routes'[k] = routes[k]
      BY <1>3, <1>4
    <2>2. checked' = checked /\ valid' = valid
      BY DEF CloseRoute
    <2> QED BY <2>1, <2>2 DEF IInv, Checked
  <1> QED BY <1>1, <1>2, <1>7, <1>8 DEF IInv

-----------------------------------------------------------------------------
(* The routes are checked *)

LEMMA ValidateKeeps ==
  ASSUME IInv, Validate
  PROVE  IInv'
  <1>1. Typed' /\ Kept' /\ Phases'
    BY DEF IInv, Typed, Kept, Phases, Growing, Validate
  <1>2. Trails' /\ Routes'
    BY DEF IInv, Trails, Trailing, Routes, Validate
  <1>3. Checked'
    <2> DEFINE r == routes[checked + 1]
    <2>1. /\ routes \in Seq(Seq(Leg)) /\ checked \in Nat /\ checked + 1 \in DOMAIN routes
          /\ valid \in Seq(Seq(Leg)) /\ Len(valid) = checked
          /\ \A k \in 1 .. checked : valid[k] = routes[k]
      BY DEF IInv, Routes, Checked, Validate
    <2>2. r \in Seq(Leg) /\ Fits(Walk(r), maxLegs)
      BY <2>1 DEF IInv, Routes
    <2>3. valid' = Append(valid, r) /\ checked' = checked + 1 /\ routes' = routes
      BY <2>2 DEF Validate
    <2> HIDE DEF r
    <2>4. /\ valid' \in Seq(Seq(Leg)) /\ Len(valid') = checked + 1 /\ valid'[checked + 1] = r
          /\ \A k \in 1 .. checked : valid'[k] = valid[k]
      BY <2>1, <2>2, <2>3
    <2>5. \A k \in 1 .. checked + 1 : k \in 1 .. checked \/ k = checked + 1
      BY <2>1
    <2> QED BY <2>1, <2>3, <2>4, <2>5 DEF Checked, r
  <1> QED BY <1>1, <1>2, <1>3 DEF IInv

\* A route that fits counts with all it buys.
LEMMA AllCounted ==
  ASSUME NEW r \in Seq(Leg), maxLegs \in Nat, Fits(Walk(r), maxLegs)
  PROVE  Counted(r) = Bought(r)
  <1>1. /\ Walk(r) \in Seq(Cells(N)) /\ Len(Walk(r)) = Len(r) /\ Len(r) <= maxLegs
        /\ Contiguous(Walk(r))
    BY WalkTyped DEF Fits
  <1> DEFINE w == Walk(r)
  <1>2. ASSUME NEW l \in DOMAIN r PROVE Contiguous(SubSeq(w, 1, l))
    <2> HIDE DEF w
    <2>1. l \in 1 .. Len(w) /\ w \in Seq(Cells(N)) /\ Contiguous(w)
      BY <1>1 DEF w
    <2>2. Len(SubSeq(w, 1, l)) = l /\ \A k \in 1 .. l : SubSeq(w, 1, l)[k] = w[k]
      BY <2>1
    <2> QED BY <2>1, <2>2 DEF Contiguous
  <1> HIDE DEF w
  <1> QED BY <1>1, <1>2 DEF Counted, Bought, w

\* When packing ends, every required arc is in a packed trail.
LEMMA AllPacked ==
  ASSUME IInv, pc \in {"check", "done"}
  PROVE  /\ \A k \in DOMAIN routes : Fits(Walk(routes[k]), maxLegs)
         /\ required = AllBought(routes)
  <1>1. required = Joined(frags)
    <2>1. pending = {} /\ ArcsLeft(out) = {} /\ trail = <<>>
      BY DEF IInv, Phases, Growing
    <2>2. Range(trail) = {}
      BY <2>1 DEF Range
    <2> QED BY <2>1, <2>2 DEF IInv, Kept
  <1>2. \A k \in DOMAIN frags : Range(frags[k]) \subseteq AllBought(routes)
    BY EmptyRoute DEF IInv, Phases, Routes
  <1>3. /\ \A k \in DOMAIN routes : Bought(routes[k]) \subseteq required
        /\ \A k \in DOMAIN routes : Fits(Walk(routes[k]), maxLegs)
    BY DEF IInv, Routes
  <1>4. Joined(frags) \subseteq AllBought(routes) /\ AllBought(routes) \subseteq required
    BY <1>2, <1>3 DEF Joined, AllBought
  <1> QED BY <1>1, <1>3, <1>4

LEMMA NothingMissing ==
  ASSUME IInv, pc = "check"
  PROVE  Missing(routes) = {}
  <1>1. \A k \in DOMAIN routes : Counted(routes[k]) = Bought(routes[k])
    BY AllPacked, AllCounted DEF IInv, Typed, Routes
  <1>2. UNION {Counted(routes[k]) : k \in DOMAIN routes} = AllBought(routes)
    BY <1>1 DEF AllBought
  <1> QED BY <1>2, AllPacked DEF Missing

LEMMA FinalizeKeepsRoutes ==
  ASSUME IInv, Finalize
  PROVE  routes' = routes
  <1>1. /\ valid \in Seq(Seq(Leg)) /\ routes \in Seq(Seq(Leg)) /\ Len(valid) = Len(routes)
        /\ \A k \in 1 .. Len(routes) : valid[k] = routes[k]
    BY DEF IInv, Routes, Checked, Finalize
  <1>2. valid = routes
    <2>1. valid = [k \in 1 .. Len(valid) |-> valid[k]]
      BY <1>1
    <2>2. routes = [k \in 1 .. Len(routes) |-> routes[k]]
      BY <1>1
    <2>3. [k \in 1 .. Len(routes) |-> valid[k]] = [k \in 1 .. Len(routes) |-> routes[k]]
      BY <1>1
    <2> QED BY <1>1, <2>1, <2>2, <2>3
  <1>3. Cardinality(Missing(routes)) = 0
    BY NothingMissing, FS_EmptySet DEF Finalize
  <1> DEFINE s == Singles(routes)
  <1>4. s \in Seq(Seq(Leg)) /\ Len(s) = 0
    BY <1>3 DEF Singles
  <1>5. routes' = valid \o s
    BY DEF Finalize
  <1> HIDE DEF s
  <1> QED BY <1>1, <1>2, <1>4, <1>5

LEMMA FinalizeKeeps ==
  ASSUME IInv, Finalize
  PROVE  IInv'
  <1>1. /\ routes' = routes /\ pc = "check" /\ pc' = "done"
        /\ UNCHANGED <<growth, packed, route, checked, valid>>
    BY FinalizeKeepsRoutes DEF Finalize
  <1>2. Typed' /\ Kept' /\ Phases'
    BY <1>1 DEF IInv, Typed, Kept, Phases, Growing
  <1>3. Trails' /\ Routes' /\ Checked'
    BY <1>1 DEF IInv, Trails, Trailing, Routes, Checked
  <1> QED BY <1>2, <1>3 DEF IInv

LEMMA NextIInv == IInv /\ [Next]_vars => IInv'
  <1> SUFFICES ASSUME IInv, [Next]_vars PROVE IInv'
    OBVIOUS
  <1>1. ASSUME NEW a \in required, Load(a) \/ Single(a) PROVE IInv'
    BY <1>1, LoadKeeps, SingleKeeps
  <1>2. ASSUME NEW v \in Point, StartTrail(v) PROVE IInv'
    BY <1>2, StartTrailKeeps
  <1>3. ASSUME NEW k \in Point, Grow(k) PROVE IInv'
    BY <1>3, GrowKeeps
  <1>4. ASSUME NEW k \in DOMAIN frags, OpenRoute(k) \/ AppendFragment(k) PROVE IInv'
    BY <1>4, OpenRouteKeeps, AppendFragmentKeeps
  <1>5. CASE EndTrail
    BY <1>5, EndTrailKeeps
  <1>6. CASE CloseRoute
    BY <1>6, CloseRouteKeeps
  <1>7. CASE Finalize
    BY <1>7, FinalizeKeeps
  <1>8. CASE Loaded \/ NoTrail \/ Cut \/ Grown \/ Packed
    BY <1>8, PhasesKeep
  <1>9. CASE UNCHANGED vars
    <2>1. Typed' /\ Kept' /\ Phases'
      BY <1>9 DEF vars, IInv, Typed, Kept, Phases, Growing
    <2>2. Trails' /\ Routes'
      BY <1>9 DEF vars, IInv, Trails, Trailing, Routes
    <2>3. Checked'
      BY <1>9 DEF vars, IInv, Checked
    <2> QED BY <2>1, <2>2, <2>3 DEF IInv
  <1>10. CASE Validate
    BY <1>10, ValidateKeeps
  <1>11. \/ \E a \in required : Load(a) \/ Single(a)
         \/ \E v \in Point : StartTrail(v)
         \/ \E k \in Point : Grow(k)
         \/ \E k \in DOMAIN frags : OpenRoute(k) \/ AppendFragment(k)
         \/ EndTrail \/ CloseRoute \/ Validate \/ Finalize
         \/ Loaded \/ NoTrail \/ Cut \/ Grown \/ Packed
         \/ UNCHANGED vars
    BY Zenon DEF Next, Step
  <1> QED BY <1>1, <1>2, <1>3, <1>4, <1>5, <1>6, <1>7, <1>8, <1>9, <1>10, <1>11, Zenon

-----------------------------------------------------------------------------
(* The theorems *)

LEMMA IInvNothingToRepair == IInv => NothingToRepair
  BY AllPacked DEF NothingToRepair, AllBought

LEMMA IInvPlanCovers == IInv => PlanCovers
  <1> DEFINE plan == [k \in DOMAIN routes |-> Walk(routes[k])]
  <1> SUFFICES ASSUME IInv, pc = "done" PROVE Covers(plan, N, required, maxLegs)
    BY DEF PlanCovers
  <1>1. /\ routes \in Seq(Seq(Leg)) /\ required = AllBought(routes)
        /\ \A k \in DOMAIN routes : Fits(Walk(routes[k]), maxLegs)
    BY AllPacked DEF IInv, Routes
  <1>2. \A k \in DOMAIN routes : Walk(routes[k]) \in Seq(Cells(N))
    BY <1>1, WalkTyped
  <1>3. plan \in Seq(Seq(Cells(N)))
    <2>1. DOMAIN routes = 1 .. Len(routes) /\ Len(routes) \in Nat
      BY <1>1
    <2> DEFINE S == Seq(Cells(N))
               n == Len(routes)
               walk(k) == Walk(routes[k])
    <2>2. \A k \in 1 .. n : walk(k) \in S
      BY <1>2, <2>1
    <2> HIDE DEF S, walk
    <2>3. [k \in 1 .. n |-> walk(k)] \in Seq(S)
      BY <2>1, <2>2
    <2> QED BY <2>1, <2>3 DEF S, walk
  <1>4. ASSUME NEW a \in required
        PROVE  \E k \in DOMAIN plan : a \in Range(plan[k])
    <2>1. PICK k \in DOMAIN routes : a \in Bought(routes[k])
      BY <1>1 DEF AllBought
    <2>2. PICK i \in DOMAIN routes[k] : routes[k][i].arc = a
      BY <2>1 DEF Bought
    <2>3. Walk(routes[k])[i] = a /\ i \in DOMAIN Walk(routes[k])
      BY <2>2 DEF Walk
    <2> QED BY <2>3 DEF Range
  <1> QED BY <1>1, <1>3, <1>4 DEF Covers

\* DensePlanner.Plan needs no repair by ValidateAndComplete, for any required
\* arcs, any limit, and any moment at which the context is cancelled: the packed
\* routes fit and together they buy every required arc.
THEOREM PlanComplete == Spec => []NothingToRepair
  <1>1. Spec => []IInv
    BY InitIInv, NextIInv, PTL DEF Spec
  <1> QED BY <1>1, IInvNothingToRepair, PTL

\* What the engine gets is what it relies on (PlanAssumption of MatrixEngine):
\* walks over the points of the request that fit in a provider task and together
\* contain every missing pair, also after a cancellation.
THEOREM PlanFit == Spec => []PlanCovers
  <1>1. Spec => []IInv
    BY InitIInv, NextIInv, PTL DEF Spec
  <1> QED BY <1>1, IInvPlanCovers, PTL

-----------------------------------------------------------------------------
\* No arc is in a list twice.
Lists ==
    /\ \A u \in Point : IsInjective(out[u])
    /\ IsInjective(trail)
    /\ \A k \in DOMAIN frags : IsInjective(frags[k])

\* No arc is in two places.
Apart ==
    /\ pending \cap ArcsLeft(out) = {}
    /\ (pending \cup ArcsLeft(out)) \cap (Range(trail) \cup Joined(frags)) = {}
    /\ Range(trail) \cap Joined(frags) = {}
    /\ \A k, l \in DOMAIN frags : k # l => Range(frags[k]) \cap Range(frags[l]) = {}

\* A route buys no arc twice.
BuysOnce(r) ==
    \A i, j \in DOMAIN r :
        r[i].kind = "required" /\ r[j].kind = "required" /\ r[i].arc = r[j].arc => i = j

\* What the packed trails hold.
PackedArcs == UNION {Range(frags[k]) : k \in packed}

\* Routes buy what is packed, each arc once, and something each.
Sold ==
    /\ BuysOnce(route) /\ \A k \in DOMAIN routes : BuysOnce(routes[k])
    /\ Bought(route) \cup AllBought(routes) \subseteq PackedArcs
    /\ Bought(route) \cap AllBought(routes) = {}
    /\ \A k, l \in DOMAIN routes : k # l => Bought(routes[k]) \cap Bought(routes[l]) = {}
    /\ pc = "pack" => Bought(route) # {}

Once == Lists /\ Apart /\ Sold

USE DEF growth, result

-----------------------------------------------------------------------------
(* Lists without repetition *)

LEMMA AppendOnce ==
  ASSUME NEW S, NEW s \in Seq(S), NEW e \in S, IsInjective(s), e \notin Range(s)
  PROVE  IsInjective(Append(s, e))
  <1> DEFINE t == Append(s, e)
             n == Len(s)
  <1>1. /\ DOMAIN t = 1 .. n + 1 /\ t[n + 1] = e /\ n \in Nat
        /\ \A k \in 1 .. n : t[k] = s[k] /\ t[k] # e
    BY DEF Range
  <1> HIDE DEF t
  <1>2. SUFFICES ASSUME NEW i \in 1 .. n + 1, NEW j \in 1 .. n + 1, t[i] = t[j]
                 PROVE  i = j
    BY <1>1 DEF IsInjective, t
  <1>3. CASE i \in 1 .. n /\ j \in 1 .. n
    BY <1>1, <1>2, <1>3 DEF IsInjective
  <1>4. CASE i = n + 1 \/ j = n + 1
    BY <1>1, <1>2, <1>4
  <1> QED BY <1>1, <1>3, <1>4

LEMMA SwapRemoveOnce ==
  ASSUME NEW S, NEW s \in Seq(S), NEW k \in DOMAIN s, IsInjective(s)
  PROVE  IsInjective(SwapRemove(s, k)) /\ s[k] \notin Range(SwapRemove(s, k))
  <1> DEFINE n == Len(s)
             t == [s EXCEPT ![k] = s[Len(s)]]
             r == SwapRemove(s, k)
  <1>1. n \in Nat \ {0} /\ k \in 1 .. n /\ t \in Seq(S) /\ Len(t) = n
    OBVIOUS
  <1>2. r \in Seq(S) /\ Len(r) = n - 1 /\ \A i \in 1 .. n - 1 : r[i] = t[i]
    BY <1>1 DEF SwapRemove
  <1>3. \A i \in 1 .. n - 1 : r[i] = IF i = k THEN s[n] ELSE s[i]
    BY <1>1, <1>2
  <1>4. \A i, j \in 1 .. n : s[i] = s[j] => i = j
    BY DEF IsInjective
  <1>5. DOMAIN r = 1 .. n - 1
    BY <1>1, <1>2
  <1> HIDE DEF r
  <1>6. ASSUME NEW i \in 1 .. n - 1, NEW j \in 1 .. n - 1, r[i] = r[j]
        PROVE  i = j
    BY <1>1, <1>3, <1>4, <1>6
  <1>7. ASSUME NEW i \in 1 .. n - 1, r[i] = s[k]
        PROVE  FALSE
    BY <1>1, <1>3, <1>4, <1>7
  <1> QED BY <1>5, <1>6, <1>7 DEF IsInjective, Range, r

\* An arc that is taken out of the graph is not in it any more.
LEMMA ArcGone ==
  ASSUME NEW g, NEW h, NEW u \in Point, NEW v \in Point, v \notin Range(h[u]),
         ArcsLeft(g) = ArcsLeft(h) \cup {<<u, v>>}
  PROVE  ArcsLeft(h) = ArcsLeft(g) \ {<<u, v>>}
  <1>1. <<u, v>> \notin ArcsLeft(h)
    BY DEF ArcsLeft
  <1> QED BY <1>1

-----------------------------------------------------------------------------
(* Routes that buy nothing twice *)

LEMMA LegsOnce ==
  ASSUME NEW f \in Seq(Cells(N)), IsInjective(f)
  PROVE  BuysOnce(Legs(f))
  BY DEF BuysOnce, Legs, IsInjective

\* A bridge buys nothing.
LEMMA BridgeOnce ==
  ASSUME NEW r \in Seq(Leg), NEW b \in Leg, b.kind = "bridge", BuysOnce(r)
  PROVE  BuysOnce(Append(r, b)) /\ Bought(Append(r, b)) = Bought(r)
  <1> DEFINE p == Append(r, b)
             n == Len(r)
  <1>1. /\ DOMAIN p = 1 .. n + 1 /\ DOMAIN r = 1 .. n /\ p[n + 1] = b /\ n \in Nat
        /\ \A k \in 1 .. n : p[k] = r[k]
    OBVIOUS
  <1> HIDE DEF p
  <1>2. \A k \in 1 .. n + 1 : p[k].kind = "required" => k \in 1 .. n
    BY <1>1
  <1>3. BuysOnce(p)
    BY <1>1, <1>2 DEF BuysOnce
  <1>4. {l \in DOMAIN p : p[l].kind = "required"} = {l \in DOMAIN r : r[l].kind = "required"}
    BY <1>1, <1>2
  <1>5. Bought(p) = Bought(r)
    BY <1>1, <1>4 DEF Bought
  <1> QED BY <1>3, <1>5 DEF p

LEMMA JoinOnce ==
  ASSUME NEW s \in Seq(Leg), NEW t \in Seq(Leg), BuysOnce(s), BuysOnce(t),
         Bought(s) \cap Bought(t) = {}
  PROVE  BuysOnce(s \o t)
  <1> DEFINE q == s \o t
             n == Len(s)
             m == Len(t)
  <1>1. /\ n \in Nat /\ m \in Nat /\ DOMAIN q = 1 .. n + m
        /\ \A k \in 1 .. n : q[k] = s[k]
        /\ \A k \in 1 .. m : q[n + k] = t[k]
    OBVIOUS
  <1> HIDE DEF q
  <1>2. \A k \in 1 .. n + m : k > n => k - n \in 1 .. m /\ q[k] = t[k - n]
    <2> TAKE k \in 1 .. n + m
    <2> HAVE k > n
    <2>1. k - n \in 1 .. m /\ k = n + (k - n)
      BY <1>1
    <2> QED BY <1>1, <2>1
  <1>3. ASSUME NEW i \in 1 .. n, NEW j \in 1 .. m, s[i].kind = "required",
               t[j].kind = "required", s[i].arc = t[j].arc
        PROVE  FALSE
    <2>1. s[i].arc \in Bought(s) /\ t[j].arc \in Bought(t)
      BY <1>3 DEF Bought
    <2> QED BY <1>3, <2>1
  <1> SUFFICES ASSUME NEW i \in 1 .. n + m, NEW j \in 1 .. n + m, q[i].kind = "required",
                      q[j].kind = "required", q[i].arc = q[j].arc
               PROVE  i = j
    BY <1>1 DEF BuysOnce, q
  <1>4. CASE i <= n /\ j <= n
    BY <1>1, <1>4 DEF BuysOnce
  <1>5. CASE i > n /\ j > n
    <2>1. i - n = j - n
      BY <1>2, <1>5 DEF BuysOnce
    <2> QED BY <1>1, <2>1
  <1>6. CASE i <= n /\ j > n
    <2>1. i \in 1 .. n /\ q[i] = s[i] /\ j - n \in 1 .. m /\ q[j] = t[j - n]
      BY <1>1, <1>2, <1>6
    <2> QED BY <1>3, <2>1
  <1>7. CASE i > n /\ j <= n
    <2>1. j \in 1 .. n /\ q[j] = s[j] /\ i - n \in 1 .. m /\ q[i] = t[i - n]
      BY <1>1, <1>2, <1>7
    <2> QED BY <1>3, <2>1
  <1> QED BY <1>1, <1>4, <1>5, <1>6, <1>7

LEMMA BoughtJoined ==
  ASSUME NEW s \in Seq(Leg), NEW t \in Seq(Leg)
  PROVE  Bought(s \o t) = Bought(s) \cup Bought(t)
  <1> DEFINE q == s \o t
             n == Len(s)
             m == Len(t)
  <1>1. /\ n \in Nat /\ m \in Nat /\ DOMAIN q = 1 .. n + m
        /\ \A k \in 1 .. n : q[k] = s[k]
        /\ \A k \in 1 .. m : q[n + k] = t[k]
    OBVIOUS
  <1> HIDE DEF q
  <1>2. ASSUME NEW k \in 1 .. n + m, q[k].kind = "required"
        PROVE  q[k].arc \in Bought(s) \cup Bought(t)
    <2>1. CASE k <= n
      <3>1. k \in 1 .. n /\ q[k] = s[k]
        BY <1>1, <2>1
      <3> QED BY <1>2, <3>1 DEF Bought
    <2>2. CASE k > n
      <3>1. k - n \in 1 .. m /\ k = n + (k - n)
        BY <1>1, <2>2
      <3>2. q[k] = t[k - n] /\ k - n \in DOMAIN t
        BY <1>1, <3>1
      <3> QED BY <1>2, <3>2 DEF Bought
    <2> QED BY <1>1, <2>1, <2>2
  <1>3. ASSUME NEW k \in DOMAIN s, s[k].kind = "required"
        PROVE  s[k].arc \in Bought(q)
    <2>1. k \in DOMAIN q /\ q[k] = s[k]
      BY <1>1
    <2> QED BY <1>3, <2>1 DEF Bought
  <1>4. ASSUME NEW k \in DOMAIN t, t[k].kind = "required"
        PROVE  t[k].arc \in Bought(q)
    <2>1. n + k \in DOMAIN q /\ q[n + k] = t[k]
      BY <1>1
    <2> QED BY <1>4, <2>1 DEF Bought
  <1>5. Bought(q) \subseteq Bought(s) \cup Bought(t)
    BY <1>1, <1>2 DEF Bought
  <1>6. Bought(s) \subseteq Bought(q) /\ Bought(t) \subseteq Bought(q)
    BY <1>3, <1>4 DEF Bought
  <1> QED BY <1>5, <1>6 DEF q

\* A trail that is not packed yet has nothing that was bought.
LEMMA Untouched ==
  ASSUME Once, NEW k \in DOMAIN frags, k \notin packed, packed \subseteq DOMAIN frags
  PROVE  Range(frags[k]) \cap (Bought(route) \cup AllBought(routes)) = {}
  <1>1. \A m \in packed : Range(frags[k]) \cap Range(frags[m]) = {}
    BY DEF Once, Apart
  <1>2. Range(frags[k]) \cap PackedArcs = {}
    BY <1>1 DEF PackedArcs
  <1> QED BY <1>2 DEF Once, Sold

-----------------------------------------------------------------------------
(* The trails grow *)

LEMMA NoRoute == BuysOnce(<<>>) /\ Bought(<<>>) = {} /\ AllBought(<<>>) = {}
  BY DEF BuysOnce, Bought, AllBought

LEMMA InitOnce == Init => Once
  <1> SUFFICES ASSUME Init PROVE Once
    OBVIOUS
  <1>1. Lists
    BY DEF Init, Lists, IsInjective
  <1>2. ArcsLeft(out) = {}
    <2>1. \A u \in Point : Range(out[u]) = {}
      BY DEF Init, Range
    <2> QED BY <2>1 DEF ArcsLeft
  <1>3. Range(trail) = {} /\ Joined(frags) = {}
    BY DEF Init, Range, Joined
  <1>4. Apart
    BY <1>2, <1>3 DEF Init, Apart
  <1>5. Sold
    BY NoRoute DEF Init, Sold
  <1> QED BY <1>1, <1>4, <1>5 DEF Once

\* Nothing is packed while the trails grow.
LEMMA NotSold ==
  ASSUME IInv, Once, Growing \/ pc = "rest", UNCHANGED result, pc' # "pack"
  PROVE  Sold'
  <1>1. packed = {} /\ route = route' /\ routes = routes' /\ packed' = {}
    BY DEF IInv, Phases
  <1>2. PackedArcs = {} /\ PackedArcs' = {}
    BY <1>1 DEF PackedArcs
  <1> QED BY <1>1, <1>2 DEF Once, Sold

LEMMA LoadOnce ==
  ASSUME IInv, Once, NEW a \in required, Load(a)
  PROVE  Once'
  <1> DEFINE u == a[1]
             v == a[2]
  <1>1. u \in Point /\ v \in Point /\ a = <<u, v>> /\ out \in [Point -> Seq(Point)]
    BY DEF IInv, Typed, Arcs, Cells, Point
  <1>2. a \in pending /\ pending' = pending \ {a} /\ a \notin ArcsLeft(out)
    BY DEF Once, Apart, Load, First
  <1>3. v \notin Range(out[u])
    BY <1>1, <1>2 DEF ArcsLeft
  <1>4. out' = [out EXCEPT ![u] = Append(@, v)] /\ UNCHANGED <<trail, frags>>
    BY DEF Load
  <1>5. out'[u] = Append(out[u], v) /\ \A w \in Point \ {u} : out'[w] = out[w]
    BY <1>1, <1>4
  <1>6. ArcsLeft(out') = ArcsLeft(out) \cup {a}
    <2> HIDE DEF u, v
    <2> QED BY <1>1, <1>4, ArcsAdded
  <1> HIDE DEF u, v
  <1>7. IsInjective(out'[u])
    BY <1>1, <1>3, <1>5, AppendOnce DEF Once, Lists
  <1>8. Lists'
    BY <1>4, <1>5, <1>7 DEF Once, Lists
  <1>9. Apart'
    BY <1>2, <1>4, <1>6 DEF Once, Apart
  <1>10. Sold'
    BY NotSold DEF Load, Growing
  <1> QED BY <1>8, <1>9, <1>10 DEF Once

LEMMA GrowOnce ==
  ASSUME IInv, Once, NEW k \in Point, Grow(k)
  PROVE  Once'
  <1> DEFINE v == out[at][k]
             arc == <<at, v>>
  <1>1. at \in Point /\ out \in [Point -> Seq(Point)] /\ trail \in Seq(required)
    BY DEF IInv, Typed, Phases, Grow
  <1>2. k \in DOMAIN out[at]
    BY <1>1, PlannerAssumption DEF Grow, Selects
  <1>3. /\ out' = [out EXCEPT ![at] = SwapRemove(out[at], k)]
        /\ trail' = Append(trail, arc)
        /\ UNCHANGED <<pending, frags, result>> /\ pc = "grow" /\ pc' = "grow"
    BY DEF Grow
  <1>4. /\ out'[at] = SwapRemove(out[at], k)
        /\ \A w \in Point \ {at} : out'[w] = out[w]
    BY <1>1, <1>3
  <1>5. /\ Range(out'[at]) \subseteq Range(out[at])
        /\ Range(out[at]) \subseteq Range(out'[at]) \cup {v}
        /\ IsInjective(out'[at]) /\ v \notin Range(out'[at])
    BY <1>1, <1>2, <1>4, SwapRemoveRange, SwapRemoveOnce DEF Once, Lists
  <1>6. v \in Point /\ v \in Range(out[at])
    BY <1>1, <1>2 DEF Range
  <1> HIDE DEF v
  <1>7. ArcsLeft(out) = ArcsLeft(out') \cup {arc}
    <2>1. \A w \in Point \ {at} : Range(out'[w]) = Range(out[w])
      BY <1>4
    <2>2. /\ Range(out'[at]) \subseteq Range(out[at])
          /\ Range(out[at]) \subseteq Range(out'[at]) \cup {v}
      BY <1>5
    <2>3. at \in Point
      BY <1>1
    <2> QED BY <1>6, <2>1, <2>2, <2>3, ArcsRemoved
  <1>8. ArcsLeft(out') = ArcsLeft(out) \ {arc}
    <2>1. at \in Point /\ v \in Point /\ v \notin Range(out'[at])
      BY <1>1, <1>5, <1>6
    <2>2. ArcsLeft(out) = ArcsLeft(out') \cup {<<at, v>>}
      BY <1>7
    <2>3. ArcsLeft(out') = ArcsLeft(out) \ {<<at, v>>}
      BY <2>1, <2>2, ArcGone
    <2> QED BY <2>3
  <1> HIDE DEF arc
  <1>9. arc \in required
    BY <1>7 DEF IInv, Kept
  <1>10. arc \notin Range(trail) /\ arc \notin Joined(frags) /\ arc \notin pending
    BY <1>7 DEF Once, Apart
  <1>11. IsInjective(trail') /\ Range(trail') = Range(trail) \cup {arc}
    BY <1>1, <1>3, <1>9, <1>10, AppendOnce, RangeAppend DEF Once, Lists
  <1>12. Lists'
    BY <1>3, <1>4, <1>5, <1>11 DEF Once, Lists
  <1>13. Apart'
    BY <1>3, <1>8, <1>10, <1>11 DEF Once, Apart
  <1>14. Sold'
    BY <1>3, NotSold DEF Growing
  <1> QED BY <1>12, <1>13, <1>14 DEF Once

\* A finished trail shares nothing with those before it.
LEMMA FragOnce ==
  ASSUME IInv, Once, NEW f \in Seq(required), IsInjective(f),
         Range(f) \cap Joined(frags) = {}, frags' = Append(frags, f)
  PROVE  /\ \A k \in DOMAIN frags' : IsInjective(frags'[k])
         /\ \A k, l \in DOMAIN frags' : k # l => Range(frags'[k]) \cap Range(frags'[l]) = {}
         /\ Joined(frags') = Range(f) \cup Joined(frags)
  <1> DEFINE n == Len(frags) + 1
  <1>1. frags \in Seq(Seq(required))
    BY DEF IInv, Typed
  <1>2. /\ DOMAIN frags' = DOMAIN frags \cup {n} /\ frags'[n] = f
        /\ \A k \in DOMAIN frags : frags'[k] = frags[k]
    BY <1>1
  <1>3. \A k \in DOMAIN frags : Range(f) \cap Range(frags[k]) = {}
    BY DEF Joined
  <1>4. \A k \in DOMAIN frags' : IsInjective(frags'[k])
    BY <1>2 DEF Once, Lists
  <1> HIDE DEF n
  <1>5. \A k, l \in DOMAIN frags' : k # l => Range(frags'[k]) \cap Range(frags'[l]) = {}
    <2> SUFFICES ASSUME NEW k \in DOMAIN frags', NEW l \in DOMAIN frags', k # l
                 PROVE  Range(frags'[k]) \cap Range(frags'[l]) = {}
      OBVIOUS
    <2>1. CASE k = n /\ l \in DOMAIN frags
      BY <1>2, <1>3, <2>1
    <2>2. CASE l = n /\ k \in DOMAIN frags
      BY <1>2, <1>3, <2>2
    <2>3. CASE k \in DOMAIN frags /\ l \in DOMAIN frags
      <3>1. frags'[k] = frags[k] /\ frags'[l] = frags[l]
        BY <1>2, <2>3
      <3> QED BY <2>3, <3>1 DEF Once, Apart
    <2> QED BY <1>2, <2>1, <2>2, <2>3
  <1> QED BY <1>1, <1>4, <1>5, FragAdded

LEMMA EndTrailOnce ==
  ASSUME IInv, Once, EndTrail
  PROVE  Once'
  <1>1. Sold'
    BY NotSold DEF EndTrail, Growing
  <1>2. trail' = <<>> /\ Range(trail') = {} /\ IsInjective(trail')
    BY DEF EndTrail, Range, IsInjective
  <1>3. CASE trail = <<>>
    <2>1. frags' = frags /\ UNCHANGED <<out, pending>>
      BY <1>3 DEF EndTrail
    <2>2. Lists'
      BY <1>2, <2>1 DEF Once, Lists
    <2>3. Apart'
      BY <1>2, <2>1 DEF Once, Apart
    <2> QED BY <1>1, <2>2, <2>3 DEF Once
  <1>4. CASE trail # <<>>
    <2>1. /\ frags' = Append(frags, trail) /\ UNCHANGED <<out, pending>>
          /\ trail \in Seq(required) /\ IsInjective(trail) /\ Range(trail) \cap Joined(frags) = {}
      BY <1>4 DEF EndTrail, IInv, Typed, Once, Lists, Apart
    <2>2. /\ \A k \in DOMAIN frags' : IsInjective(frags'[k])
          /\ \A k, l \in DOMAIN frags' : k # l => Range(frags'[k]) \cap Range(frags'[l]) = {}
          /\ Joined(frags') = Range(trail) \cup Joined(frags)
      BY <2>1, FragOnce
    <2>3. Lists'
      BY <1>2, <2>1, <2>2 DEF Once, Lists
    <2>4. Apart'
      BY <1>2, <2>1, <2>2 DEF Once, Apart
    <2> QED BY <1>1, <2>3, <2>4 DEF Once
  <1> QED BY <1>3, <1>4

LEMMA SingleOnce ==
  ASSUME IInv, Once, NEW a \in required, Single(a)
  PROVE  Once'
  <1> DEFINE u == a[1]
             v == a[2]
             i == PosOf(out[u], v)
  <1>1. /\ u \in Point /\ v \in Point /\ a = <<u, v>> /\ a \in ArcsLeft(out)
        /\ out \in [Point -> Seq(Point)]
    BY DEF IInv, Typed, Arcs, Cells, Point, Single, First
  <1>2. v \in Range(out[u])
    BY <1>1 DEF ArcsLeft
  <1>3. i \in DOMAIN out[u] /\ out[u][i] = v
    BY <1>2 DEF Range, PosOf
  <1>4. out' = [out EXCEPT ![u] = SwapRemove(out[u], i)] /\ UNCHANGED <<pending, trail>>
    BY DEF Single
  <1> HIDE DEF i, u, v
  <1>5. /\ out'[u] = SwapRemove(out[u], i)
        /\ \A w \in Point \ {u} : out'[w] = out[w]
    BY <1>1, <1>4
  <1>6. /\ Range(out'[u]) \subseteq Range(out[u])
        /\ Range(out[u]) \subseteq Range(out'[u]) \cup {v}
        /\ IsInjective(out'[u]) /\ v \notin Range(out'[u])
    BY <1>1, <1>3, <1>5, SwapRemoveRange, SwapRemoveOnce DEF Once, Lists
  <1>7. ArcsLeft(out') = ArcsLeft(out) \ {a}
    <2>1. \A w \in Point \ {u} : Range(out'[w]) = Range(out[w])
      BY <1>5
    <2>2. /\ Range(out'[u]) \subseteq Range(out[u])
          /\ Range(out[u]) \subseteq Range(out'[u]) \cup {v}
      BY <1>6
    <2>3. u \in Point /\ v \in Point
      BY <1>1
    <2>4. ArcsLeft(out) = ArcsLeft(out') \cup {<<u, v>>}
      BY <1>2, <2>1, <2>2, <2>3, ArcsRemoved
    <2>5. v \notin Range(out'[u])
      BY <1>6
    <2>6. ArcsLeft(out') = ArcsLeft(out) \ {<<u, v>>}
      BY <2>3, <2>4, <2>5, ArcGone
    <2> QED BY <1>1, <2>6
  <1> DEFINE f == <<a>>
  <1>8. f \in Seq(required) /\ Range(f) = {a} /\ IsInjective(f)
    BY DEF Range, IsInjective
  <1>9. frags' = Append(frags, f)
    BY DEF Single
  <1> HIDE DEF f
  <1>10. /\ \A k \in DOMAIN frags' : IsInjective(frags'[k])
         /\ \A k, l \in DOMAIN frags' : k # l => Range(frags'[k]) \cap Range(frags'[l]) = {}
         /\ Joined(frags') = {a} \cup Joined(frags)
    <2>1. a \notin Joined(frags)
      BY <1>1 DEF Once, Apart
    <2>2. Range(f) \cap Joined(frags) = {}
      BY <1>8, <2>1
    <2>3. Joined(frags') = Range(f) \cup Joined(frags)
      BY <1>8, <1>9, <2>2, FragOnce
    <2> QED BY <1>8, <1>9, <2>2, <2>3, FragOnce
  <1>11. Lists'
    BY <1>4, <1>5, <1>6, <1>10 DEF Once, Lists
  <1>12. Apart'
    BY <1>1, <1>4, <1>7, <1>10 DEF Once, Apart
  <1>13. Sold'
    BY NotSold DEF Single
  <1> QED BY <1>11, <1>12, <1>13 DEF Once

\* The steps between and after the loops change no list.
LEMMA StillOnce ==
  ASSUME Once, UNCHANGED <<pending, out, trail, frags, packed, route, routes>>,
         pc' # "pack" \/ pc = "pack"
  PROVE  Once'
  <1>1. Lists' /\ Apart'
    BY DEF Once, Lists, Apart
  <1>2. Sold'
    BY DEF Once, Sold, PackedArcs
  <1> QED BY <1>1, <1>2 DEF Once
-----------------------------------------------------------------------------
(* The routes are packed *)

LEMMA OpenRouteOnce ==
  ASSUME IInv, Once, NEW k \in DOMAIN frags, OpenRoute(k)
  PROVE  Once'
  <1> DEFINE f == frags[k]
  <1>1. /\ f \in Seq(Cells(N)) /\ f # <<>> /\ IsInjective(f)
    BY FragmentOf DEF Once, Lists
  <1>2. /\ route' = Legs(f) /\ routes' = routes /\ packed' = packed \cup {k} /\ pc' = "pack"
        /\ UNCHANGED <<pending, out, trail, frags>>
        /\ k \notin packed /\ route = <<>> /\ packed \subseteq DOMAIN frags
    BY DEF OpenRoute, Opens, Unpacked, IInv, Typed, Routes
  <1>3. Range(f) \cap AllBought(routes) = {}
    BY <1>2, Untouched
  <1>4. Range(f) # {}
    <2>1. 1 \in DOMAIN f
      BY <1>1
    <2> QED BY <2>1 DEF Range
  <1>5. PackedArcs' = PackedArcs \cup Range(f)
    BY <1>2 DEF PackedArcs
  <1> HIDE DEF f
  <1>6. BuysOnce(route') /\ Bought(route') = Range(f)
    BY <1>1, <1>2, LegsOf, LegsOnce
  <1>7. Lists' /\ Apart'
    BY <1>2 DEF Once, Lists, Apart
  <1>8. Sold'
    BY <1>2, <1>3, <1>4, <1>5, <1>6 DEF Once, Sold
  <1> QED BY <1>7, <1>8 DEF Once

LEMMA AppendFragmentOnce ==
  ASSUME IInv, Once, NEW k \in DOMAIN frags, AppendFragment(k)
  PROVE  Once'
  <1> DEFINE f == frags[k]
             b == Bridge(RouteEnd(route), Start(f))
             p == Append(route, b)
  <1>1. /\ f \in Seq(Cells(N)) /\ f # <<>> /\ IsInjective(f)
    BY FragmentOf DEF Once, Lists
  <1>2. /\ route' = p \o Legs(f) /\ routes' = routes /\ packed' = packed \cup {k}
        /\ UNCHANGED <<pc, pending, out, trail, frags>>
        /\ k \notin packed /\ packed \subseteq DOMAIN frags /\ pc = "pack"
        /\ route \in Seq(Leg) /\ Fits(Walk(route), maxLegs)
    BY DEF AppendFragment, Appends, FitsSpace, Unpacked, IInv, Typed, Routes
  <1>3. Range(f) \cap (Bought(route) \cup AllBought(routes)) = {}
    BY <1>2, Untouched
  <1>4. PackedArcs' = PackedArcs \cup Range(f)
    BY <1>2 DEF PackedArcs
  <1>5. b \in Leg /\ b.kind = "bridge"
    <2>1. route # <<>> /\ Len(route) \in DOMAIN route /\ 1 \in DOMAIN f
      BY <1>1, <1>2, WalkTyped DEF Fits
    <2>2. route[Len(route)] \in Leg /\ f[1] \in Cells(N)
      BY <1>1, <1>2, <2>1
    <2> QED BY <2>2 DEF Bridge, RouteEnd, Start, Leg, Cells
  <1> HIDE DEF b
  <1>6. p \in Seq(Leg) /\ BuysOnce(p) /\ Bought(p) = Bought(route)
    BY <1>2, <1>5, BridgeOnce DEF Once, Sold
  <1> HIDE DEF f, p
  <1>7. /\ Legs(f) \in Seq(Leg) /\ BuysOnce(Legs(f)) /\ Bought(Legs(f)) = Range(f)
    BY <1>1, LegsOf, LegsOnce
  <1>8. BuysOnce(route')
    BY <1>2, <1>3, <1>6, <1>7, JoinOnce
  <1>9. Bought(route') = Bought(route) \cup Range(f)
    BY <1>2, <1>6, <1>7, BoughtJoined
  <1>10. Lists' /\ Apart'
    BY <1>2 DEF Once, Lists, Apart
  <1>11. Sold'
    BY <1>2, <1>3, <1>4, <1>8, <1>9 DEF Once, Sold
  <1> QED BY <1>10, <1>11 DEF Once

LEMMA CloseRouteOnce ==
  ASSUME IInv, Once, CloseRoute
  PROVE  Once'
  <1> DEFINE n == Len(routes) + 1
  <1>1. /\ routes' = Append(routes, route) /\ route' = <<>> /\ packed' = packed
        /\ UNCHANGED <<pending, out, trail, frags>> /\ pc' = "open"
        /\ routes \in Seq(Seq(Leg)) /\ route \in Seq(Leg)
    BY DEF CloseRoute, IInv, Routes
  <1>2. /\ DOMAIN routes' = DOMAIN routes \cup {n} /\ routes'[n] = route
        /\ \A k \in DOMAIN routes : routes'[k] = routes[k]
    BY <1>1
  <1>3. AllBought(routes') = Bought(route) \cup AllBought(routes)
    BY <1>1, BoughtAdded
  <1> HIDE DEF n
  <1>4. \A k \in DOMAIN routes' : BuysOnce(routes'[k])
    BY <1>2 DEF Once, Sold
  <1>5. \A k \in DOMAIN routes : Bought(route) \cap Bought(routes[k]) = {}
    BY DEF Once, Sold, AllBought
  <1>6. \A k, l \in DOMAIN routes' : k # l => Bought(routes'[k]) \cap Bought(routes'[l]) = {}
    <2> SUFFICES ASSUME NEW k \in DOMAIN routes', NEW l \in DOMAIN routes', k # l
                 PROVE  Bought(routes'[k]) \cap Bought(routes'[l]) = {}
      OBVIOUS
    <2>1. CASE k = n /\ l \in DOMAIN routes
      BY <1>2, <1>5, <2>1
    <2>2. CASE l = n /\ k \in DOMAIN routes
      BY <1>2, <1>5, <2>2
    <2>3. CASE k \in DOMAIN routes /\ l \in DOMAIN routes
      <3>1. routes'[k] = routes[k] /\ routes'[l] = routes[l]
        BY <1>2, <2>3
      <3> QED BY <2>3, <3>1 DEF Once, Sold
    <2> QED BY <1>2, <2>1, <2>2, <2>3
  <1>7. PackedArcs' = PackedArcs
    BY <1>1 DEF PackedArcs
  <1>8. Sold'
    BY <1>1, <1>3, <1>4, <1>6, <1>7, NoRoute DEF Once, Sold
  <1>9. Lists' /\ Apart'
    BY <1>1 DEF Once, Lists, Apart
  <1> QED BY <1>8, <1>9 DEF Once

LEMMA NextOnce == IInv /\ Once /\ [Next]_vars => Once'
  <1> SUFFICES ASSUME IInv, Once, [Next]_vars PROVE Once'
    OBVIOUS
  <1>1. ASSUME NEW a \in required, Load(a) \/ Single(a) PROVE Once'
    BY <1>1, LoadOnce, SingleOnce
  <1>2. ASSUME NEW k \in Point, Grow(k) PROVE Once'
    BY <1>2, GrowOnce
  <1>3. ASSUME NEW k \in DOMAIN frags, OpenRoute(k) \/ AppendFragment(k) PROVE Once'
    BY <1>3, OpenRouteOnce, AppendFragmentOnce
  <1>4. CASE EndTrail
    BY <1>4, EndTrailOnce
  <1>5. CASE CloseRoute
    BY <1>5, CloseRouteOnce
  <1>6. CASE Finalize
    BY <1>6, FinalizeKeepsRoutes, StillOnce DEF Finalize
  <1>7. ASSUME NEW v \in Point, StartTrail(v) PROVE Once'
    BY <1>7, StillOnce DEF StartTrail
  <1>8. CASE Loaded \/ NoTrail \/ Cut \/ Grown \/ Packed \/ Validate
    BY <1>8, StillOnce DEF Loaded, NoTrail, Cut, Grown, Packed, Validate
  <1>9. CASE UNCHANGED vars
    BY <1>9, StillOnce DEF vars
  <1>10. \/ \E a \in required : Load(a) \/ Single(a)
         \/ \E v \in Point : StartTrail(v)
         \/ \E k \in Point : Grow(k)
         \/ \E k \in DOMAIN frags : OpenRoute(k) \/ AppendFragment(k)
         \/ EndTrail \/ CloseRoute \/ Finalize
         \/ Loaded \/ NoTrail \/ Cut \/ Grown \/ Packed \/ Validate
         \/ UNCHANGED vars
    BY Zenon DEF Next, Step
  <1> QED BY <1>1, <1>2, <1>3, <1>4, <1>5, <1>6, <1>7, <1>8, <1>9, <1>10, Zenon

LEMMA SpecOnce == Spec => [](IInv /\ Once)
  <1>1. IInv /\ Once /\ [Next]_vars => (IInv /\ Once)'
    BY NextIInv, NextOnce
  <1>2. Init => IInv /\ Once
    BY InitIInv, InitOnce
  <1> QED BY <1>1, <1>2, PTL DEF Spec
-----------------------------------------------------------------------------
(* The theorems *)

LEMMA OnceBoughtOnce == Once => BoughtOnce
  <1> SUFFICES ASSUME Once, NEW k \in DOMAIN routes, NEW l \in DOMAIN routes,
                      NEW i \in DOMAIN routes[k], NEW j \in DOMAIN routes[l],
                      routes[k][i].kind = "required", routes[l][j].kind = "required",
                      routes[k][i].arc = routes[l][j].arc
               PROVE  k = l /\ i = j
    BY DEF BoughtOnce
  <1>1. routes[k][i].arc \in Bought(routes[k]) /\ routes[l][j].arc \in Bought(routes[l])
    BY DEF Bought
  <1>2. k = l
    BY <1>1 DEF Once, Sold
  <1> QED BY <1>2 DEF Once, Sold, BuysOnce

\* No required arc is bought by two legs of a plan, whatever trails are grown and
\* whenever the planning is cut short: removing arcs by a swap uses none twice.
THEOREM NoArcTwice == Spec => []BoughtOnce
  <1> QED BY SpecOnce, OnceBoughtOnce, PTL

Todo == required \ UNION {Bought(routes[k]) : k \in DOMAIN routes}
Plan == [k \in DOMAIN routes |-> Walk(routes[k])]

\* ArcCover has the same walks.
LEMMA SameWalks ==
  /\ Cover!Arcs(N) = Arcs(N)
  /\ \A w : Cover!Range(w) = Range(w)
  /\ \A w, m : Cover!Fits(w, m) <=> Fits(w, m)
  <1>1. Cover!Arcs(N) = Arcs(N)
    BY DEF Cover!Arcs, Cover!Cells, Arcs, Cells
  <1>2. \A w : Cover!Range(w) = Range(w)
    BY DEF Cover!Range, Range
  <1>3. \A w, m : Cover!Fits(w, m) <=> Fits(w, m)
    BY DEF Cover!Fits, Cover!Contiguous, Fits, Contiguous
  <1> QED BY <1>1, <1>2, <1>3

LEMMA InitCover == Init => Cover!Init
  <1> SUFFICES ASSUME Init PROVE Cover!Init
    OBVIOUS
  <1>1. required \subseteq Arcs(N) /\ required # {} /\ maxLegs \in Nat \ {0} /\ routes = <<>>
    BY PlannerAssumption DEF Init
  <1>2. Todo = required
    BY <1>1 DEF Todo
  <1>3. Plan = <<>>
    BY <1>1 DEF Plan
  <1> QED BY <1>1, <1>2, <1>3, SameWalks DEF Cover!Init, Todo, Plan

\* Closing a route adds its walk to the plan.
LEMMA CloseRouteCovers ==
  ASSUME IInv, Once, CloseRoute
  PROVE  Cover!AddWalk
  <1> DEFINE n == Len(routes)
  <1>1. /\ routes' = Append(routes, route) /\ required' = required /\ maxLegs' = maxLegs
        /\ routes \in Seq(Seq(Leg)) /\ route \in Seq(Leg) /\ pc = "pack"
        /\ Fits(Walk(route), maxLegs) /\ Bought(route) \subseteq required
    BY DEF CloseRoute, IInv, Routes
  <1>2. /\ n \in Nat /\ DOMAIN routes = 1 .. n /\ DOMAIN routes' = 1 .. n + 1
        /\ routes'[n + 1] = route /\ \A k \in 1 .. n : routes'[k] = routes[k]
    BY <1>1
  <1> HIDE DEF n
  <1> DEFINE S == Seq(Cells(N))
  <1>3. \A k \in 1 .. n : Walk(routes[k]) \in S
    BY <1>1, <1>2, WalkTyped
  <1>4. Walk(route) \in S
    BY <1>1, WalkTyped
  <1> HIDE DEF S
  <1>5. Plan \in Seq(S) /\ Len(Plan) = n /\ \A k \in 1 .. n : Plan[k] = Walk(routes[k])
    BY <1>2, <1>3 DEF Plan
  <1>6. /\ Plan' \in Seq(S) /\ Len(Plan') = n + 1 /\ Plan'[n + 1] = Walk(route)
        /\ \A k \in 1 .. n : Plan'[k] = Plan[k]
    <2>1. Plan' = [k \in 1 .. n + 1 |-> Walk(routes'[k])]
      BY <1>2 DEF Plan
    <2>2. \A k \in 1 .. n + 1 : Walk(routes'[k]) \in S
      BY <1>2, <1>3, <1>4
    <2> DEFINE walk(k) == Walk(routes'[k])
    <2>3. /\ \A k \in 1 .. n + 1 : walk(k) \in S
          /\ walk(n + 1) = Walk(route) /\ \A k \in 1 .. n : walk(k) = Plan[k]
      BY <1>2, <1>5, <2>2
    <2>4. Plan' = [k \in 1 .. n + 1 |-> walk(k)]
      BY <2>1
    <2> HIDE DEF walk
    <2> QED BY <1>2, <2>3, <2>4
  <1>7. Plan = SubSeq(Plan', 1, Len(Plan))
    <2> DEFINE s == SubSeq(Plan', 1, n)
    <2>1. s \in Seq(S) /\ Len(s) = n /\ \A k \in 1 .. n : s[k] = Plan'[k]
      BY <1>2, <1>6
    <2> HIDE DEF s
    <2>2. s = [k \in 1 .. n |-> s[k]] /\ Plan = [k \in 1 .. n |-> Plan[k]]
      BY <1>5, <2>1
    <2>3. [k \in 1 .. n |-> s[k]] = [k \in 1 .. n |-> Plan[k]]
      BY <1>6, <2>1
    <2> QED BY <1>5, <2>2, <2>3 DEF s
  <1>8. Todo \ Todo' = Bought(route) /\ Todo' \subseteq Todo
    <2>1. AllBought(routes') = Bought(route) \cup AllBought(routes)
      BY <1>1, BoughtAdded
    <2>2. Todo = required \ AllBought(routes) /\ Todo' = required \ AllBought(routes')
      BY <1>1 DEF Todo, AllBought
    <2>3. Bought(route) \cap AllBought(routes) = {}
      BY DEF Once, Sold
    <2> QED BY <1>1, <2>1, <2>2, <2>3
  <1>9. Bought(route) # {} /\ Bought(route) \subseteq Range(Walk(route))
    BY <1>1 DEF Once, Sold, Bought, Walk, Range
  <1>10. /\ Len(Plan') = Len(Plan) + 1 /\ Plan'[Len(Plan')] = Walk(route)
         /\ Cover!Fits(Walk(route), maxLegs)
         /\ Todo \ Todo' # {} /\ Todo \ Todo' \subseteq Cover!Range(Walk(route))
    BY <1>1, <1>5, <1>6, <1>8, <1>9, SameWalks
  <1> QED BY <1>1, <1>7, <1>8, <1>10, Zenon DEF Cover!AddWalk, Todo, Plan

\* The planner implements the safety part of ArcCover: it adds walks that fit one
\* at a time, each buys something, and no arc is bought by two of them.
THEOREM ImplementsCover == Spec => Cover!Safety
  <1>1. IInv /\ Once /\ [Next]_vars => [Cover!AddWalk]_(Cover!vars)
    <2> SUFFICES ASSUME IInv, Once, [Next]_vars PROVE [Cover!AddWalk]_(Cover!vars)
      OBVIOUS
    <2>1. CASE CloseRoute
      BY <2>1, CloseRouteCovers
    <2>2. CASE Finalize
      BY <2>2, FinalizeKeepsRoutes DEF Finalize, Cover!vars
    <2>3. CASE UNCHANGED <<required, maxLegs, routes>>
      BY <2>3 DEF Cover!vars
    <2>4. CloseRoute \/ Finalize \/ UNCHANGED <<required, maxLegs, routes>>
      BY DEF Next, Step, vars, Load, Loaded, StartTrail, NoTrail, Grow, EndTrail, Single, Cut,
             Grown, OpenRoute, AppendFragment, Packed, Validate
    <2> QED BY <2>1, <2>2, <2>3, <2>4
  <1> QED BY <1>1, SpecOnce, InitCover, PTL DEF Spec, Cover!Safety

-----------------------------------------------------------------------------
(* Loops *)

\* f computes a loop: while it is not done, go on with the next state.
IsLoop(f, X, done, next, value) ==
    f = [x \in X |-> IF done[x] THEN value[x] ELSE f[next[x]]]

\* Every loop has such a function, whether or not it ends: the least relation
\* that the loop allows gives one value at most to each state, and the same
\* values to a state as to the next.
LEMMA LoopExists ==
  ASSUME NEW X, NEW Y, NEW done \in [X -> BOOLEAN], NEW next \in [X -> X],
         NEW value \in [X -> Y]
  PROVE  \E f : IsLoop(f, X, done, next, value)
  <1> DEFINE Closed(S) ==
                \A x \in X : /\ done[x] => <<x, value[x]>> \in S
                             /\ ~done[x] => \A y \in Y : <<next[x], y>> \in S => <<x, y>> \in S
             L == {p \in X \X Y : \A S \in SUBSET (X \X Y) : Closed(S) => p \in S}
             chosen(x) == CHOOSE y \in Y : <<x, y>> \in L
             f == [x \in X |-> chosen(x)]
  <1>1. Closed(L)
    <2>1. ASSUME NEW x \in X, done[x] PROVE <<x, value[x]>> \in L
      BY <2>1
    <2>2. ASSUME NEW x \in X, ~done[x], NEW y \in Y, <<next[x], y>> \in L PROVE <<x, y>> \in L
      BY <2>2
    <2> HIDE DEF L
    <2> QED BY <2>1, <2>2
  <1>2. ASSUME NEW p \in L, Closed(L \ {p}) PROVE FALSE
    BY <1>2, L \ {p} \in SUBSET (X \X Y)
  <1> HIDE DEF L
  <1>3. ASSUME NEW x \in X, done[x], NEW y \in Y, <<x, y>> \in L PROVE y = value[x]
    <2> SUFFICES ASSUME y # value[x] PROVE FALSE
      OBVIOUS
    <2>1. Closed(L \ {<<x, y>>})
      BY <1>1, <1>3
    <2> HIDE DEF Closed
    <2> QED BY <2>1, <1>2, <1>3
  <1>4. ASSUME NEW x \in X, ~done[x], NEW y \in Y, <<x, y>> \in L PROVE <<next[x], y>> \in L
    <2> SUFFICES ASSUME <<next[x], y>> \notin L PROVE FALSE
      OBVIOUS
    <2>1. Closed(L \ {<<x, y>>})
      BY <1>1, <1>4
    <2> HIDE DEF Closed
    <2> QED BY <2>1, <1>2, <1>4
  <1>5. ASSUME NEW x \in X, done[x] PROVE f[x] = value[x]
    <2>1. <<x, value[x]>> \in L /\ value[x] \in Y
      BY <1>1, <1>5
    <2>2. \A y \in Y : <<x, y>> \in L <=> y = value[x]
      BY <1>3, <1>5, <2>1
    <2> HIDE DEF Closed
    <2> QED BY <2>1, <2>2
  <1>6. ASSUME NEW x \in X, ~done[x] PROVE f[x] = f[next[x]]
    <2>0. next[x] \in X
      OBVIOUS
    <2>1. \A y \in Y : <<x, y>> \in L <=> <<next[x], y>> \in L
      BY <1>1, <1>4, <1>6
    <2>2. chosen(x) = chosen(next[x])
      BY <2>1, Zenon
    <2> HIDE DEF Closed, chosen
    <2> QED BY <2>0, <2>2
  <1> HIDE DEF Closed
  <1> DEFINE r == [x \in X |-> IF done[x] THEN value[x] ELSE f[next[x]]]
  <1>7. f = r
    <2>1. r = [x \in X |-> r[x]]
      OBVIOUS
    <2>2. \A x \in X : f[x] = r[x]
      BY <1>5, <1>6
    <2>3. f = [x \in X |-> f[x]]
      <3> HIDE DEF chosen
      <3> QED OBVIOUS
    <2> HIDE DEF f, r
    <2> QED BY <2>1, <2>2, <2>3
  <1> HIDE DEF f
  <1> QED BY <1>7 DEF IsLoop


\* A loop that stays in J and comes down in m ends there: its value is that of a
\* state of J in which it is done.
LEMMA LoopEnds ==
  ASSUME NEW X, NEW J \in SUBSET X, NEW done, NEW next, NEW value,
         NEW f, IsLoop(f, X, done, next, value), NEW m \in [X -> Nat],
         \A x \in J : ~done[x] => next[x] \in J /\ m[next[x]] < m[x]
  PROVE  \A x \in J : \E z \in J : done[z] /\ f[x] = value[z]
  <1> DEFINE Ends(x) == \E z \in J : done[z] /\ f[x] = value[z]
             T == {m[x] : x \in {y \in J : ~Ends(y)}}
             R == {ss \in Nat \X Nat : ss[1] < ss[2]}
  <1>1. SUFFICES ASSUME NEW x \in J, ~Ends(x) PROVE FALSE
    OBVIOUS
  <1>2. PICK k \in T : \A j \in T : <<j, k>> \notin R
    <2>1. T \subseteq Nat /\ m[x] \in T
      BY <1>1
    <2>2. IsWellFoundedOn(R, Nat)
      BY NatLessThanWellFounded DEF OpToRel
    <2> HIDE DEF T, R
    <2> QED BY <2>1, <2>2, WFMin
  <1>3. PICK y \in J : k = m[y] /\ ~Ends(y)
    OBVIOUS
  <1>4. ~done[y]
    <2>1. ASSUME done[y] PROVE f[y] = value[y]
      BY <2>1 DEF IsLoop
    <2> QED BY <1>3, <2>1
  <1>5. f[y] = f[next[y]]
    BY <1>4 DEF IsLoop
  <1>6. next[y] \in J /\ m[next[y]] \in T
    BY <1>3, <1>4, <1>5
  <1>7. <<m[next[y]], k>> \in R
    BY <1>3, <1>4, <1>6
  <1> QED BY <1>2, <1>6, <1>7

\* r holds what h holds, in some order.
Shuffles(r, h) ==
    /\ r \in Seq(Point) /\ Len(r) = Len(h) /\ Range(r) = Range(h)
    /\ IsInjective(h) => IsInjective(r)

LEMMA SwapShuffles ==
  ASSUME NEW h \in Seq(Point), NEW i \in 1 .. Len(h), NEW j \in 1 .. Len(h)
  PROVE  Shuffles(Swap(h, i, j), h)
  <1> DEFINE r == Swap(h, i, j)
             of(k) == IF k = j THEN i ELSE IF k = i THEN j ELSE k
  <1>1. r \in Seq(Point) /\ Len(r) = Len(h)
    BY DEF Swap
  <1>2. \A k \in 1 .. Len(h) : of(k) \in 1 .. Len(h) /\ of(of(k)) = k /\ r[k] = h[of(k)]
    BY DEF Swap
  <1> HIDE DEF r, of
  <1>3. DOMAIN r = 1 .. Len(h) /\ DOMAIN h = 1 .. Len(h)
    BY <1>1
  <1>4. Range(r) \subseteq Range(h)
    BY <1>2, <1>3 DEF Range
  <1>5. Range(h) \subseteq Range(r)
    <2>1. ASSUME NEW k \in 1 .. Len(h) PROVE h[k] \in Range(r)
      <3>1. r[of(k)] = h[k] /\ of(k) \in 1 .. Len(h)
        BY <1>2
      <3> QED BY <1>3, <3>1 DEF Range
    <2> QED BY <1>3, <2>1 DEF Range
  <1>6. ASSUME IsInjective(h) PROVE IsInjective(r)
    <2>1. \A a, b \in 1 .. Len(h) : h[a] = h[b] => a = b
      BY <1>3, <1>6 DEF IsInjective
    <2>2. ASSUME NEW a \in 1 .. Len(h), NEW b \in 1 .. Len(h), r[a] = r[b] PROVE a = b
      <3>1. of(a) = of(b)
        BY <1>2, <2>1, <2>2
      <3> QED BY <1>2, <3>1
    <2> QED BY <1>3, <2>2 DEF IsInjective
  <1> QED BY <1>1, <1>4, <1>5, <1>6 DEF Shuffles, r

LEMMA ShufflesAgain ==
  ASSUME NEW h, NEW r, NEW q, Shuffles(r, h), Shuffles(q, r)
  PROVE  Shuffles(q, h)
  BY DEF Shuffles

-----------------------------------------------------------------------------
(* The heap: what its operations keep *)

\* The turns of the loop of SiftUp, from the order p[1] and the place p[2].
UpMore(g, p) == p[2] \in 2 .. Len(p[1]) /\ Better(g, p[1][p[2]], p[1][p[2] \div 2])
UpNext(p)    == <<Swap(p[1], p[2], p[2] \div 2), p[2] \div 2>>

\* Whatever the order, siftUp only moves vertices.
LEMMA SiftUpShuffles ==
  ASSUME NEW g, NEW heap \in Seq(Point), NEW from \in Nat
  PROVE  Shuffles(SiftUp(g, heap, from), heap)
  <1> DEFINE X     == Seq(Point) \X Nat
             done  == [p \in X |-> ~UpMore(g, p)]
             value == [p \in X |-> p[1]]
             next  == [p \in X |-> IF UpMore(g, p) THEN UpNext(p) ELSE p]
             Body(f) == [p \in X |-> IF UpMore(g, p) THEN f[UpNext(p)] ELSE p[1]]
             up    == CHOOSE f : f = Body(f)
             J     == {p \in X : Shuffles(p[1], heap)}
             m     == [p \in X |-> p[2]]
  <1>1. ASSUME NEW p \in X, UpMore(g, p)
        PROVE  /\ UpNext(p) \in X /\ UpNext(p)[2] < p[2]
               /\ Shuffles(UpNext(p)[1], p[1])
    <2>1. p[1] \in Seq(Point) /\ p[2] \in 2 .. Len(p[1])
      BY <1>1 DEF UpMore
    <2>2. p[2] \div 2 \in 1 .. Len(p[1]) /\ p[2] \div 2 < p[2]
      BY <2>1
    <2>3. Shuffles(Swap(p[1], p[2], p[2] \div 2), p[1])
      BY <2>1, <2>2, SwapShuffles
    <2> QED BY <2>2, <2>3 DEF UpNext, Shuffles
  <1>2. done \in [X -> BOOLEAN] /\ next \in [X -> X] /\ value \in [X -> Seq(Point)]
    <2> HIDE DEF X
    <2>1. next \in [X -> X]
      BY <1>1
    <2>2. done \in [X -> BOOLEAN]
      BY DEF UpMore
    <2> QED BY <2>1, <2>2 DEF X
  <1>3. PICK f : IsLoop(f, X, done, next, value)
    <2> HIDE DEF X, done, next, value
    <2> QED BY <1>2, LoopExists
  <1>4. f = Body(f)
    BY <1>3 DEF IsLoop
  <1>5. up = Body(up)
    <2> HIDE DEF Body
    <2> QED BY <1>4, Zenon
  <1>6. IsLoop(up, X, done, next, value)
    <2> HIDE DEF up
    <2> QED BY <1>5 DEF IsLoop
  <1>7. \A p \in J : ~done[p] => next[p] \in J /\ m[next[p]] < m[p]
    <2>1. ASSUME NEW p \in J, ~done[p] PROVE next[p] \in J /\ m[next[p]] < m[p]
      <3>1. p \in X /\ UpMore(g, p) /\ Shuffles(p[1], heap)
        BY <2>1
      <3>2. UpNext(p) \in X /\ UpNext(p)[2] < p[2] /\ Shuffles(UpNext(p)[1], p[1])
        BY <1>1, <3>1
      <3>3. Shuffles(UpNext(p)[1], heap)
        BY <3>1, <3>2, ShufflesAgain
      <3> QED BY <3>1, <3>2, <3>3
    <2> QED BY <2>1
  <1>8. <<heap, from>> \in J
    BY DEF Shuffles
  <1>9. m \in [X -> Nat] /\ J \in SUBSET X
    OBVIOUS
  <1>10. PICK z \in J : up[<<heap, from>>] = value[z]
    <2> HIDE DEF X, J, done, next, value, up, m
    <2> QED BY <1>6, <1>7, <1>8, <1>9, LoopEnds
  <1>11. SiftUp(g, heap, from) = up[<<heap, from>>]
    BY Zenon DEF SiftUp, UpMore, UpNext
  <1> QED BY <1>10, <1>11

\* The turns of the loop of SiftDown.
DownMore(g, p) ==
    2 * p[2] <= Len(p[1]) /\ Better(g, p[1][Child(g, p[1], p[2])], p[1][p[2]])
DownNext(g, p) == <<Swap(p[1], p[2], Child(g, p[1], p[2])), Child(g, p[1], p[2])>>

\* Nor does siftDown do anything else.
LEMMA SiftDownShuffles ==
  ASSUME NEW g, NEW heap \in Seq(Point), NEW from \in Nat \ {0}
  PROVE  Shuffles(SiftDown(g, heap, from), heap)
  <1> DEFINE X     == Seq(Point) \X (Nat \ {0})
             done  == [p \in X |-> ~DownMore(g, p)]
             value == [p \in X |-> p[1]]
             next  == [p \in X |-> IF DownMore(g, p) THEN DownNext(g, p) ELSE p]
             Body(f) == [p \in X |-> IF DownMore(g, p) THEN f[DownNext(g, p)] ELSE p[1]]
             down  == CHOOSE f : f = Body(f)
             J     == {p \in X : Shuffles(p[1], heap)}
             m     == [p \in X |-> IF p[2] <= Len(p[1]) THEN Len(p[1]) - p[2] ELSE 0]
  <1>1. ASSUME NEW p \in X, DownMore(g, p)
        PROVE  /\ DownNext(g, p) \in X /\ m[DownNext(g, p)] < m[p]
               /\ Shuffles(DownNext(g, p)[1], p[1])
    <2> DEFINE c == Child(g, p[1], p[2])
               q == DownNext(g, p)
    <2>1. p[1] \in Seq(Point) /\ p[2] \in Nat \ {0} /\ 2 * p[2] <= Len(p[1])
      BY <1>1 DEF DownMore
    <2>2. c \in 1 .. Len(p[1]) /\ p[2] < c /\ p[2] \in 1 .. Len(p[1])
      BY <2>1 DEF Child
    <2> HIDE DEF c
    <2>3. Shuffles(Swap(p[1], p[2], c), p[1])
      BY <2>1, <2>2, SwapShuffles
    <2>4. q = <<Swap(p[1], p[2], c), c>>
      BY DEF DownNext, c
    <2> HIDE DEF q
    <2>5. q \in X /\ q[2] = c /\ Shuffles(q[1], p[1]) /\ Len(q[1]) = Len(p[1])
      BY <2>1, <2>2, <2>3, <2>4 DEF Shuffles
    <2>6. m[q] = Len(p[1]) - c /\ m[p] = Len(p[1]) - p[2]
      BY <2>1, <2>2, <2>5
    <2>7. m[q] < m[p]
      BY <2>1, <2>2, <2>6
    <2> QED BY <2>5, <2>7 DEF q
  <1>2. done \in [X -> BOOLEAN] /\ next \in [X -> X] /\ value \in [X -> Seq(Point)]
    <2> HIDE DEF X
    <2>1. next \in [X -> X]
      BY <1>1
    <2>2. done \in [X -> BOOLEAN]
      BY DEF DownMore
    <2> QED BY <2>1, <2>2 DEF X
  <1>3. PICK f : IsLoop(f, X, done, next, value)
    <2> HIDE DEF X, done, next, value
    <2> QED BY <1>2, LoopExists
  <1>4. f = Body(f)
    BY <1>3 DEF IsLoop
  <1>5. down = Body(down)
    <2> HIDE DEF Body
    <2> QED BY <1>4, Zenon
  <1>6. IsLoop(down, X, done, next, value)
    <2> HIDE DEF down
    <2> QED BY <1>5 DEF IsLoop
  <1>7. \A p \in J : ~done[p] => next[p] \in J /\ m[next[p]] < m[p]
    <2> HIDE DEF m
    <2> QED BY <1>1, ShufflesAgain
  <1>8. <<heap, from>> \in J
    BY DEF Shuffles
  <1>9. m \in [X -> Nat] /\ J \in SUBSET X
    OBVIOUS
  <1>10. PICK z \in J : down[<<heap, from>>] = value[z]
    <2> HIDE DEF X, J, done, next, value, down, m
    <2> QED BY <1>6, <1>7, <1>8, <1>9, LoopEnds
  <1>11. SiftDown(g, heap, from) = down[<<heap, from>>]
    BY Zenon DEF SiftDown, DownMore, DownNext
  <1> QED BY <1>10, <1>11

-----------------------------------------------------------------------------
\* A heap that holds the vertices of S, each once.
Holds(h, S) == h \in Seq(Point) /\ IsInjective(h) /\ Range(h) = S

LEMMA PushHolds ==
  ASSUME NEW g, NEW S, NEW h, Holds(h, S), NEW v \in Point \ S
  PROVE  Holds(Push(g, h, v), S \cup {v})
  <1> DEFINE a == Append(h, v)
  <1>1. a \in Seq(Point) /\ IsInjective(a) /\ Range(a) = S \cup {v}
    BY AppendOnce, RangeAppend DEF Holds
  <1>2. Len(h) + 1 \in Nat
    BY DEF Holds
  <1> HIDE DEF a
  <1>3. Shuffles(SiftUp(g, a, Len(h) + 1), a)
    BY <1>1, <1>2, SiftUpShuffles
  <1> QED BY <1>1, <1>3 DEF Holds, Push, Shuffles, a

LEMMA PosOfHeld ==
  ASSUME NEW h \in Seq(Point), NEW v \in Range(h)
  PROVE  PosOf(h, v) \in 1 .. Len(h) /\ h[PosOf(h, v)] = v
  BY DEF PosOf, Range

\* What removal leaves, but for its order.
LEMMA RemoveShuffles ==
  ASSUME NEW g, NEW h \in Seq(Point), NEW v \in Range(h)
  PROVE  Shuffles(HeapRemove(g, h, v), SwapRemove(h, PosOf(h, v)))
  <1> DEFINE i    == PosOf(h, v)
             rest == SwapRemove(h, i)
             up   == SiftUp(g, rest, i)
  <1>1. i \in DOMAIN h /\ i \in Nat \ {0}
    BY PosOfHeld
  <1>2. rest \in Seq(Point)
    BY <1>1, SwapRemoveRange
  <1>3. HeapRemove(g, h, v) = IF i <= Len(rest) THEN SiftDown(g, up, i) ELSE rest
    BY DEF HeapRemove
  <1> HIDE DEF i, rest
  <1>4. Shuffles(up, rest)
    BY <1>1, <1>2, SiftUpShuffles
  <1> HIDE DEF up
  <1>5. Shuffles(SiftDown(g, up, i), up)
    BY <1>1, <1>4, SiftDownShuffles DEF Shuffles
  <1>6. Shuffles(SiftDown(g, up, i), rest)
    BY <1>4, <1>5, ShufflesAgain
  <1>7. Shuffles(rest, rest)
    BY <1>2 DEF Shuffles
  <1> QED BY <1>3, <1>6, <1>7 DEF rest, i

LEMMA RemoveHolds ==
  ASSUME NEW g, NEW S, NEW h, Holds(h, S), NEW v
  PROVE  Holds(HeapRemove(g, h, v), S \ {v})
  <1>1. CASE v \notin S
    BY <1>1 DEF Holds, HeapRemove
  <1>2. CASE v \in S
    <2> DEFINE i    == PosOf(h, v)
               rest == SwapRemove(h, i)
    <2>1. h \in Seq(Point) /\ v \in Range(h) /\ IsInjective(h) /\ Range(h) = S
      BY <1>2 DEF Holds
    <2>2. i \in DOMAIN h /\ h[i] = v
      BY <2>1, PosOfHeld
    <2>3. /\ rest \in Seq(Point) /\ IsInjective(rest)
          /\ Range(rest) \subseteq S /\ S \subseteq Range(rest) \cup {v} /\ v \notin Range(rest)
      <3> HIDE DEF i
      <3> QED BY <2>1, <2>2, SwapRemoveRange, SwapRemoveOnce
    <2>4. Range(rest) = S \ {v}
      BY <2>3
    <2>5. Shuffles(HeapRemove(g, h, v), rest)
      BY <2>1, RemoveShuffles
    <2> HIDE DEF rest
    <2> QED BY <2>3, <2>4, <2>5 DEF Holds, Shuffles
  <1> QED BY <1>1, <1>2

\* Update leaves a vertex in the heap if and only if it has arcs.
LEMMA UpdateHolds ==
  ASSUME NEW g, NEW S, NEW h, Holds(h, S), NEW v \in Point
  PROVE  Holds(Update(g, h, v), IF g[v] = <<>> THEN S \ {v} ELSE S \cup {v})
  <1>1. CASE g[v] = <<>>
    BY <1>1, RemoveHolds DEF Update
  <1>2. CASE g[v] # <<>> /\ v \notin Range(h)
    <2>1. v \in Point \ S
      BY <1>2 DEF Holds
    <2> QED BY <1>2, <2>1, PushHolds DEF Update
  <1>3. CASE g[v] # <<>> /\ v \in Range(h)
    <2> DEFINE up == SiftUp(g, h, PosOf(h, v))
    <2>1. h \in Seq(Point) /\ PosOf(h, v) \in Nat
      BY <1>3, PosOfHeld DEF Holds
    <2>2. Shuffles(up, h)
      BY <2>1, SiftUpShuffles
    <2> HIDE DEF up
    <2>3. up \in Seq(Point) /\ v \in Range(up)
      BY <1>3, <2>2 DEF Shuffles
    <2>4. Shuffles(SiftDown(g, up, PosOf(up, v)), up)
      BY <2>3, PosOfHeld, SiftDownShuffles
    <2>5. Shuffles(SiftDown(g, up, PosOf(up, v)), h)
      BY <2>2, <2>4, ShufflesAgain
    <2>6. Update(g, h, v) = SiftDown(g, up, PosOf(up, v))
      BY <1>3 DEF Update, up
    <2> QED BY <1>3, <2>5, <2>6 DEF Holds, Shuffles
  <1> QED BY <1>1, <1>2, <1>3

LEMMA PushTyped ==
  ASSUME NEW g, NEW h \in Seq(Point), NEW v \in Point
  PROVE  Push(g, h, v) \in Seq(Point)
  <1> DEFINE a == Append(h, v)
  <1>1. a \in Seq(Point) /\ Len(h) + 1 \in Nat
    OBVIOUS
  <1> HIDE DEF a
  <1>2. Shuffles(SiftUp(g, a, Len(h) + 1), a)
    BY <1>1, SiftUpShuffles
  <1> QED BY <1>2 DEF Push, Shuffles, a

\* The vertices that have arcs.
Busy(g) == {u \in Point : g[u] # <<>>}

\* Those that NewHeap has been through when it comes to k, and its turns.
Below(g, k) == {u \in Busy(g) : u < k}

PushNext(g, p) == <<IF g[p[2]] # <<>> THEN Push(g, p[1], p[2]) ELSE p[1], p[2] + 1>>

LEMMA PushNextHolds ==
  ASSUME NEW g, NEW h, NEW v \in Point, Holds(h, Below(g, v))
  PROVE  Holds(PushNext(g, <<h, v>>)[1], Below(g, v + 1))
  <1>1. N \in Nat /\ v \in 1 .. N /\ v \notin Below(g, v)
    BY PlannerAssumption DEF Point, Below
  <1>2. CASE g[v] # <<>>
    <2>1. Below(g, v + 1) = Below(g, v) \cup {v}
      BY <1>1, <1>2 DEF Below, Busy, Point
    <2>2. Holds(Push(g, h, v), Below(g, v) \cup {v})
      BY <1>1, PushHolds
    <2> QED BY <1>2, <2>1, <2>2 DEF PushNext
  <1>3. CASE g[v] = <<>>
    <2>1. Below(g, v + 1) = Below(g, v)
      BY <1>1, <1>3 DEF Below, Busy, Point
    <2> QED BY <1>3, <2>1 DEF PushNext
  <1> QED BY <1>2, <1>3

LEMMA NewHeapHolds ==
  ASSUME NEW g
  PROVE  Holds(NewHeap(g), Busy(g))
  <1> DEFINE X     == Seq(Point) \X Nat
             done  == [p \in X |-> ~(p[2] \in Point)]
             value == [p \in X |-> p[1]]
             next  == [p \in X |-> IF p[2] \in Point THEN PushNext(g, p) ELSE p]
             Body(f) == [p \in X |-> IF p[2] \in Point THEN f[PushNext(g, p)] ELSE p[1]]
             push  == CHOOSE f : f = Body(f)
             J     == {p \in X : p[2] \in 1 .. N + 1 /\ Holds(p[1], Below(g, p[2]))}
             m     == [p \in X |-> IF p[2] \in Point THEN N + 1 - p[2] ELSE 0]
  <1>0. N \in Nat
    BY PlannerAssumption
  <1>1. ASSUME NEW p \in X, p[2] \in Point
        PROVE  PushNext(g, p) \in X
    BY <1>1, PushTyped DEF PushNext
  <1>2. done \in [X -> BOOLEAN] /\ next \in [X -> X] /\ value \in [X -> Seq(Point)]
    <2> HIDE DEF X
    <2>1. next \in [X -> X]
      BY <1>1
    <2>2. done \in [X -> BOOLEAN]
      OBVIOUS
    <2> QED BY <2>1, <2>2 DEF X
  <1>3. PICK f : IsLoop(f, X, done, next, value)
    <2> HIDE DEF X, done, next, value
    <2> QED BY <1>2, LoopExists
  <1>4. f = Body(f)
    BY <1>3 DEF IsLoop
  <1>5. push = Body(push)
    <2> HIDE DEF Body
    <2> QED BY <1>4, Zenon
  <1>6. IsLoop(push, X, done, next, value)
    <2> HIDE DEF push
    <2> QED BY <1>5 DEF IsLoop
  <1>7. ASSUME NEW p \in J, p[2] \in Point PROVE PushNext(g, p) \in J
    <2>1. p = <<p[1], p[2]>> /\ p[2] \in 1 .. N
      BY <1>7 DEF Point
    <2>2. Holds(p[1], Below(g, p[2]))
      OBVIOUS
    <2>3. Holds(PushNext(g, p)[1], Below(g, p[2] + 1))
      BY <1>7, <2>1, <2>2, PushNextHolds
    <2>4. PushNext(g, p) \in X /\ PushNext(g, p)[2] = p[2] + 1
      BY <1>1, <1>7 DEF PushNext
    <2> QED BY <1>0, <2>1, <2>3, <2>4
  <1>8. \A p \in J : ~done[p] => next[p] \in J /\ m[next[p]] < m[p]
    <2>1. ASSUME NEW p \in J, ~done[p] PROVE next[p] \in J /\ m[next[p]] < m[p]
      <3>1. p \in X /\ p[2] \in Point /\ p[2] \in 1 .. N
        BY <2>1 DEF Point
      <3>2. PushNext(g, p) \in J
        BY <1>7, <2>1, <3>1
      <3>3. PushNext(g, p)[2] = p[2] + 1
        BY DEF PushNext
      <3> DEFINE q == PushNext(g, p)
      <3> HIDE DEF q
      <3>4. m[q] < m[p]
        <4>1. q \in X /\ q[2] = p[2] + 1
          BY <3>2, <3>3 DEF q
        <4> QED BY <1>0, <3>1, <4>1 DEF Point
      <3> HIDE DEF m, J
      <3> QED BY <3>1, <3>2, <3>4 DEF q
    <2> QED BY <2>1
  <1>9. << <<>>, 1>> \in J
    <2>1. Below(g, 1) = {}
      BY DEF Below, Busy, Point
    <2>2. Holds(<<>>, {})
      BY DEF Holds, IsInjective, Range
    <2> DEFINE e == << >>
    <2>3. e \in Seq(Point)
      OBVIOUS
    <2>6. Holds(e, Below(g, 1))
      BY <2>1, <2>2, Zenon
    <2>4. 1 \in 1 .. N + 1
      BY <1>0
    <2> HIDE DEF e
    <2>5. <<e, 1>> \in J
      BY <2>3, <2>4, <2>6
    <2> QED BY <2>5 DEF e
  <1>10. m \in [X -> Nat] /\ J \in SUBSET X
    BY <1>0 DEF Point
  <1>11. PICK z \in J : done[z] /\ push[<< <<>>, 1>>] = value[z]
    <2> HIDE DEF X, J, done, next, value, push, m
    <2> QED BY <1>6, <1>8, <1>9, <1>10, LoopEnds
  <1>12. NewHeap(g) = push[<< <<>>, 1>>]
    BY Zenon DEF NewHeap, PushNext
  <1>13. z[2] = N + 1
    <2>1. z[2] \in 1 .. N + 1 /\ z[2] \notin Point
      BY <1>11
    <2> QED BY <1>0, <2>1 DEF Point
  <1>14. Below(g, N + 1) = Busy(g)
    BY <1>0 DEF Below, Busy, Point
  <1> QED BY <1>11, <1>12, <1>13, <1>14

\* The best of a heap that holds no vertex without arcs is its first entry.
LEMMA PopBestFirst ==
  ASSUME NEW g, NEW h \in Seq(Point), h # <<>> => g[h[1]] # <<>>
  PROVE  PopBest(g, h) = IF h = <<>> THEN <<0, h>> ELSE <<h[1], HeapRemove(g, h, h[1])>>
  <1> DEFINE X     == Seq(Point)
             more(s) == s # <<>> /\ g[s[1]] = <<>>
             rest(s) == HeapRemove(g, s, s[1])
             done  == [s \in X |-> ~more(s)]
             value == [s \in X |-> IF s = <<>> THEN <<0, s>> ELSE <<s[1], rest(s)>>]
             next  == [s \in X |-> IF more(s) THEN rest(s) ELSE s]
             Body(f) == [s \in X |-> IF s = <<>> THEN <<0, s>>
                                     ELSE IF g[s[1]] # <<>> THEN <<s[1], rest(s)>>
                                     ELSE f[rest(s)]]
             pop   == CHOOSE f : f = Body(f)
  <1>1. ASSUME NEW s \in X, s # <<>>
        PROVE  rest(s) \in X
    <2>1. s[1] \in Range(s)
      BY <1>1 DEF Range
    <2> QED BY <2>1, RemoveShuffles DEF Shuffles
  <1>2. /\ done \in [X -> BOOLEAN] /\ next \in [X -> X]
        /\ value \in [X -> {value[s] : s \in X}]
    <2> HIDE DEF X, rest
    <2>1. next \in [X -> X]
      BY <1>1
    <2> QED BY <2>1
  <1>3. PICK f : IsLoop(f, X, done, next, value)
    <2> HIDE DEF X, done, next, value
    <2> QED BY <1>2, LoopExists
  <1>4. f = Body(f)
    <2> HIDE DEF rest
    <2> QED BY <1>3 DEF IsLoop
  <1>5. pop = Body(pop)
    <2> HIDE DEF Body
    <2> QED BY <1>4, Zenon
  <1>6. PopBest(g, h) = pop[h]
    BY Zenon DEF PopBest
  <1> HIDE DEF pop, rest
  <1>7. pop[h] = IF h = <<>> THEN <<0, h>> ELSE <<h[1], rest(h)>>
    BY <1>5
  <1> QED BY <1>6, <1>7 DEF rest

-----------------------------------------------------------------------------
(* Between two trails the heap holds the vertices that have arcs. *)

\* StartTrail takes the start out of the heap though it has arcs; the first arc
\* of the trail brings it back or leaves it without.
Stocked ==
    /\ order \in Seq(Point)
    /\ pc = "start" => Holds(order, Busy(out))
    /\ pc = "grow" =>
          IF trail = <<>> THEN at \in Busy(out) /\ Holds(order, Busy(out) \ {at})
          ELSE Holds(order, Busy(out))
    /\ pc = "rest" /\ ~cut => ArcsLeft(out) = {}

\* What only TypeOK asks for.
Ranges == maxLegs \in LegLimits /\ cut \in BOOLEAN /\ at \in 0 .. N

HInv == Stocked /\ Ranges

LEMMA BusyHasArcs ==
  ASSUME NEW g \in [Point -> Seq(Point)]
  PROVE  Busy(g) = {} <=> ArcsLeft(g) = {}
  <1>1. ASSUME NEW u \in Busy(g) PROVE ArcsLeft(g) # {}
    <2>1. g[u] \in Seq(Point) /\ g[u] # <<>> /\ u \in Point
      BY DEF Busy
    <2>2. g[u][1] \in Range(g[u])
      BY <2>1 DEF Range
    <2> DEFINE v == g[u][1]
    <2> HIDE DEF v
    <2>3. <<u, v>> \in ArcsLeft(g)
      BY <2>1, <2>2 DEF ArcsLeft, v
    <2> QED BY <2>3
  <1>2. ASSUME NEW a \in ArcsLeft(g) PROVE Busy(g) # {}
    <2>1. PICK u \in Point : Range(g[u]) # {}
      BY DEF ArcsLeft
    <2>2. g[u] # <<>>
      BY <2>1 DEF Range
    <2> QED BY <2>2 DEF Busy
  <1> QED BY <1>1, <1>2

\* What PopBest yields between two trails.
LEMMA PopBestStocked ==
  ASSUME IInv, Stocked, pc = "start"
  PROVE  IF ArcsLeft(out) = {} THEN PopBest(out, order)[1] = 0
         ELSE /\ PopBest(out, order)[1] \in Busy(out)
              /\ Holds(PopBest(out, order)[2], Busy(out) \ {PopBest(out, order)[1]})
  <1>1. out \in [Point -> Seq(Point)] /\ Holds(order, Busy(out)) /\ order \in Seq(Point)
    BY DEF IInv, Typed, Stocked
  <1>2. ASSUME order # <<>> PROVE order[1] \in Busy(out) /\ out[order[1]] # <<>>
    <2>1. order[1] \in Range(order)
      BY <1>1, <1>2 DEF Range
    <2> QED BY <1>1, <2>1 DEF Holds, Busy
  <1>3. PopBest(out, order) = IF order = <<>> THEN <<0, order>>
                              ELSE <<order[1], HeapRemove(out, order, order[1])>>
    BY <1>1, <1>2, PopBestFirst
  <1>4. order = <<>> <=> Busy(out) = {}
    <2>1. order = <<>> => Range(order) = {}
      BY DEF Range
    <2> QED BY <1>1, <1>2, <2>1 DEF Holds
  <1>5. order = <<>> <=> ArcsLeft(out) = {}
    BY <1>1, <1>4, BusyHasArcs
  <1>6. Holds(HeapRemove(out, order, order[1]), Busy(out) \ {order[1]})
    BY <1>1, RemoveHolds
  <1> QED BY <1>2, <1>3, <1>5, <1>6

LEMMA StartTrailStocked ==
  ASSUME IInv, Stocked, NEW v \in Point, StartTrail(v)
  PROVE  Stocked'
  <1> DEFINE best == PopBest(out, order)
  <1>1. /\ pc = "start" /\ pc' = "grow" /\ ArcsLeft(out) # {}
        /\ best[1] = v /\ order' = best[2] /\ at' = v
        /\ UNCHANGED <<out, trail>>
    BY DEF StartTrail
  <1>2. v \in Busy(out) /\ Holds(order', Busy(out) \ {v})
    BY <1>1, PopBestStocked
  <1>3. trail = <<>>
    BY <1>1 DEF IInv, Phases
  <1> QED BY <1>1, <1>2, <1>3 DEF Stocked, Holds

\* The graph loses an arc that leaves the end of the trail. Once both ends of
\* the arc are updated, the heap is complete, whether or not the end of the
\* trail was in it.
LEMMA GrowStocked ==
  ASSUME IInv, Stocked, NEW k \in Point, Grow(k)
  PROVE  Stocked'
  <1> DEFINE v == out[at][k]
             S == Range(order)
             T == IF out'[at] = <<>> THEN S \ {at} ELSE S \cup {at}
             one == Update(out', order, at)
  <1>1. at \in Point /\ out \in [Point -> Seq(Point)] /\ pc = "grow" /\ trail \in Seq(required)
    BY DEF IInv, Typed, Phases, Grow
  <1>2. k \in DOMAIN out[at] /\ v \in Point
    BY <1>1, PlannerAssumption DEF Grow, Selects
  <1>3. out' = [out EXCEPT ![at] = SwapRemove(out[at], k)]
    BY DEF Grow
  <1>4. Busy(out) \ {at} = Busy(out') \ {at}
    BY <1>1, <1>3 DEF Busy
  <1>5. Holds(order, S) /\ S \ {at} = Busy(out) \ {at}
    BY <1>1 DEF Stocked, Holds
  <1>6. Holds(one, T)
    <2> HIDE DEF S
    <2> QED BY <1>1, <1>5, UpdateHolds
  <1>7. T = Busy(out')
    BY <1>1, <1>4, <1>5 DEF Busy
  <1>8. Holds(one, Busy(out'))
    <2> HIDE DEF T, one
    <2> QED BY <1>6, <1>7
  <1>9. Holds(Update(out', one, v), Busy(out'))
    <2>1. Holds(Update(out', one, v), IF out'[v] = <<>> THEN Busy(out') \ {v} ELSE Busy(out') \cup {v})
      <3> HIDE DEF one, v
      <3> QED BY <1>2, <1>8, UpdateHolds
    <2>2. (IF out'[v] = <<>> THEN Busy(out') \ {v} ELSE Busy(out') \cup {v}) = Busy(out')
      <3> HIDE DEF v
      <3> QED BY <1>2 DEF Busy
    <2> HIDE DEF one, v
    <2> QED BY <2>1, <2>2
  <1>10. order' = Update(out', one, v)
    BY DEF Grow, UpdateEnds
  <1>11. pc' = "grow" /\ trail' # <<>>
    <2>1. pc' = pc /\ trail' = Append(trail, <<at, v>>)
      BY DEF Grow
    <2>2. v \in Range(out[at])
      BY <1>1, <1>2 DEF Range
    <2> HIDE DEF v
    <2>3. <<at, v>> \in ArcsLeft(out)
      BY <1>1, <2>2 DEF ArcsLeft
    <2>4. <<at, v>> \in required
      BY <2>3 DEF IInv, Kept
    <2> DEFINE arc == <<at, v>>
    <2> HIDE DEF arc
    <2>5. Append(trail, arc) # <<>>
      <3>1. arc \in required /\ trail \in Seq(required)
        BY <1>1, <2>4 DEF arc
      <3>2. Len(Append(trail, arc)) = Len(trail) + 1 /\ Len(trail) \in Nat
        BY <3>1
      <3> QED BY <3>2
    <2> QED BY <1>1, <2>1, <2>5 DEF arc
  <1> HIDE DEF one, v
  <1>12. Holds(order', Busy(out'))
    BY <1>9, <1>10
  <1> QED BY <1>11, <1>12 DEF Stocked, Holds

LEMMA EndTrailStocked ==
  ASSUME IInv, Stocked, EndTrail
  PROVE  Stocked'
  <1>1. pc = "grow" /\ pc' = "start" /\ UNCHANGED <<out, order>>
    BY DEF EndTrail
  <1>2. trail # <<>>
    <2> SUFFICES ASSUME trail = <<>> PROVE FALSE
      OBVIOUS
    <2>1. out[at] # <<>>
      BY <1>1 DEF Stocked, Busy
    <2>2. Len(trail) # maxLegs
      BY DEF IInv, Typed
    <2> QED BY <2>1, <2>2 DEF EndTrail
  <1> QED BY <1>1, <1>2 DEF Stocked, Busy, Holds

LEMMA SingleStocked ==
  ASSUME IInv, Stocked, NEW a \in required, Single(a)
  PROVE  Stocked'
  <1>1. a \in ArcsLeft(out) /\ pc = "rest" /\ pc' = "rest" /\ UNCHANGED <<cut, order>>
    BY DEF Single, First
  <1> QED BY <1>1 DEF Stocked

LEMMA NextHInv == IInv /\ HInv /\ [Next]_vars => HInv'
  <1> SUFFICES ASSUME IInv, HInv, [Next]_vars PROVE HInv'
    OBVIOUS
  <1>0. Stocked /\ Ranges
    BY DEF HInv
  <1>1. ASSUME NEW a \in required, Load(a) \/ Single(a) PROVE HInv'
    <2>1. CASE Load(a)
      BY <1>0, <2>1 DEF HInv, Load, Stocked, Ranges
    <2>2. CASE Single(a)
      BY <1>0, <2>2, SingleStocked DEF HInv, Single, Ranges
    <2> QED BY <1>1, <2>1, <2>2
  <1>2. ASSUME NEW v \in Point, StartTrail(v) PROVE HInv'
    BY <1>0, <1>2, StartTrailStocked, PlannerAssumption DEF HInv, StartTrail, Ranges, Point
  <1>3. ASSUME NEW k \in Point, Grow(k) PROVE HInv'
    <2>1. at' \in Point
      <3>1. at \in Point /\ out \in [Point -> Seq(Point)]
        BY <1>3 DEF IInv, Typed, Phases, Grow
      <3>2. k \in DOMAIN out[at]
        BY <1>3, <3>1, PlannerAssumption DEF Grow, Selects
      <3> QED BY <1>3, <3>1, <3>2 DEF Grow
    <2>2. Stocked'
      BY <1>0, <1>3, GrowStocked
    <2>3. UNCHANGED <<maxLegs, cut>>
      BY <1>3 DEF Grow
    <2>4. at' \in 0 .. N
      BY <2>1, PlannerAssumption DEF Point
    <2> QED BY <1>0, <2>2, <2>3, <2>4 DEF HInv, Ranges
  <1>4. CASE EndTrail
    BY <1>0, <1>4, EndTrailStocked DEF HInv, EndTrail, Ranges
  <1>5. CASE Loaded
    BY <1>0, <1>5, NewHeapHolds DEF HInv, Loaded, Stocked, Ranges, Holds
  <1>6. CASE NoTrail
    <2>1. pc = "start" /\ pc' = "rest" /\ UNCHANGED <<out, order, cut, maxLegs, at>>
      BY <1>6 DEF NoTrail
    <2>2. ~cut => ArcsLeft(out) = {}
      <3> SUFFICES ASSUME ~cut, ArcsLeft(out) # {} PROVE FALSE
        OBVIOUS
      <3>1. PopBest(out, order)[1] = 0
        BY <1>6 DEF NoTrail
      <3>2. PopBest(out, order)[1] \in Point
        BY <1>0, <2>1, PopBestStocked DEF Busy
      <3> QED BY <3>1, <3>2, PlannerAssumption DEF Point
    <2>3. ArcsLeft(out') = ArcsLeft(out)
      BY <2>1
    <2> QED BY <1>0, <2>1, <2>2, <2>3 DEF HInv, Stocked, Ranges
  <1>7. CASE Cut
    BY <1>0, <1>7 DEF HInv, Cut, Stocked, Ranges
  <1>8. CASE Grown
    BY <1>0, <1>8 DEF HInv, Grown, Stocked, Ranges
  <1>9. ASSUME NEW k \in DOMAIN frags, OpenRoute(k) \/ AppendFragment(k) PROVE HInv'
    BY <1>0, <1>9 DEF HInv, OpenRoute, AppendFragment, Stocked, Ranges
  <1>10. CASE CloseRoute \/ Packed \/ Validate \/ Finalize
    BY <1>0, <1>10 DEF HInv, CloseRoute, Packed, Validate, Finalize, Stocked, Ranges
  <1>11. CASE UNCHANGED vars
    BY <1>0, <1>11 DEF vars, HInv, Stocked, Ranges
  <1>12. \/ \E a \in required : Load(a) \/ Single(a)
         \/ \E v \in Point : StartTrail(v)
         \/ \E k \in Point : Grow(k)
         \/ \E k \in DOMAIN frags : OpenRoute(k) \/ AppendFragment(k)
         \/ EndTrail \/ Loaded \/ NoTrail \/ Cut \/ Grown
         \/ CloseRoute \/ Packed \/ Validate \/ Finalize
         \/ UNCHANGED vars
    BY Zenon DEF Next, Step
  <1> QED BY <1>1, <1>2, <1>3, <1>4, <1>5, <1>6, <1>7, <1>8, <1>9, <1>10, <1>11, <1>12, Zenon

LEMMA InitHInv == Init => HInv
  <1> SUFFICES ASSUME Init PROVE HInv
    OBVIOUS
  <1>1. order \in Seq(Point) /\ pc = "load"
    BY DEF Init
  <1>2. Ranges
    <2>1. maxLegs \in LegLimits /\ cut = FALSE /\ at = 0
      BY DEF Init
    <2>2. 0 \in 0 .. N
      BY PlannerAssumption
    <2> QED BY <2>1, <2>2 DEF Ranges
  <1> QED BY <1>1, <1>2 DEF HInv, Stocked

LEMMA SpecHInv == Spec => [](IInv /\ HInv)
  <1>1. IInv /\ HInv /\ [Next]_vars => (IInv /\ HInv)'
    BY NextIInv, NextHInv
  <1>2. Init => IInv /\ HInv
    BY InitIInv, InitHInv
  <1> QED BY <1>1, <1>2, PTL DEF Spec

LEMMA HoldsCounts ==
  ASSUME NEW S, NEW h, Holds(h, S)
  PROVE  Len(h) = Cardinality(S)
  <1>1. h \in Seq(Point) /\ IsInjective(h) /\ S = Range(h)
    BY DEF Holds
  <1>2. Len(h) \in Nat /\ DOMAIN h = 1 .. Len(h)
    BY <1>1
  <1>3. h \in [1 .. Len(h) -> S]
    BY <1>1, <1>2 DEF Range
  <1>4. \A x \in S : \E i \in 1 .. Len(h) : h[i] = x
    BY <1>1, <1>2 DEF Range
  <1>5. h \in Bijection(1 .. Len(h), S)
    BY <1>1, <1>3, <1>4 DEF Bijection, Injection, Surjection
  <1> QED BY <1>2, <1>5, FS_CountingElements DEF ExistsBijection

\* Between two trails the heap holds exactly the vertices that have arcs left,
\* each once, for any points and any arcs: through every swap, push and removal
\* none is forgotten and none is there twice, although the start of a trail is
\* taken out before its arcs are.
THEOREM HeapKeepsAll == Spec => []HeapComplete
  <1>1. Stocked => HeapComplete
    <2> SUFFICES ASSUME Stocked, pc = "start"
                 PROVE  Range(order) = Busy(out) /\ Len(order) = Cardinality(Range(order))
      BY DEF HeapComplete, Busy
    <2>1. Holds(order, Busy(out))
      BY DEF Stocked
    <2> QED BY <2>1, HoldsCounts DEF Holds
  <1> QED BY <1>1, SpecHInv, PTL DEF HInv

\* Trails stop growing only when every arc is in one or the context is cancelled:
\* the heap never runs empty before the graph does.
THEOREM OnlyCutLeavesArcs == Spec => []TrailsTakeAll
  <1>1. Stocked => TrailsTakeAll
    BY DEF Stocked, TrailsTakeAll
  <1> QED BY <1>1, SpecHInv, PTL DEF HInv

LEMMA HInvTypeOK == IInv /\ HInv => TypeOK
  <1> SUFFICES ASSUME IInv, HInv PROVE TypeOK
    OBVIOUS
  <1>1. required \subseteq Arcs(N) /\ pending \subseteq required /\ packed \subseteq DOMAIN frags
    BY DEF IInv, Typed
  <1>2. /\ pc \in {"load", "start", "grow", "rest", "open", "pack", "check", "done"}
        /\ out \in [Point -> Seq(Point)]
    BY DEF IInv, Typed
  <1>3. maxLegs \in LegLimits /\ cut \in BOOLEAN /\ at \in 0 .. N /\ order \in Seq(Point)
    BY DEF HInv, Ranges, Stocked
  <1>4. ASSUME NEW f \in Seq(required) PROVE f \in Seq(Arcs(N))
    <2>1. Len(f) \in Nat /\ f \in [1 .. Len(f) -> required]
      OBVIOUS
    <2> DEFINE A == Arcs(N)
    <2> HIDE DEF A
    <2>2. required \subseteq A
      BY <1>1 DEF A
    <2>3. f \in Seq(A)
      BY <2>1, <2>2
    <2> QED BY <2>3 DEF A
  <1>5. trail \in Seq(Arcs(N))
    BY <1>4 DEF IInv, Typed
  <1>6. frags \in Seq(Seq(Arcs(N)))
    <2>1. frags \in Seq(Seq(required))
      BY DEF IInv, Typed
    <2> DEFINE A == Seq(Arcs(N))
               R == Seq(required)
    <2>2. R \subseteq A
      BY <1>4
    <2> HIDE DEF A, R
    <2>3. frags \in Seq(R)
      BY <2>1 DEF R
    <2>4. frags \in Seq(A)
      BY <2>2, <2>3
    <2> QED BY <2>4 DEF A
  <1>7. route \in Seq(Leg) /\ routes \in Seq(Seq(Leg))
    BY DEF IInv, Routes
  <1>8. Len(route) <= maxLegs
    <2>1. CASE pc = "pack"
      <3>1. Len(Walk(route)) <= maxLegs
        <4>1. Fits(Walk(route), maxLegs)
          BY <2>1 DEF IInv, Routes
        <4> QED BY <4>1 DEF IInv, Typed, Fits
      <3>2. Len(Walk(route)) = Len(route)
        BY <1>7, WalkTyped
      <3> QED BY <3>1, <3>2
    <2>2. CASE pc # "pack"
      <3>1. route = <<>> /\ maxLegs \in Nat \ {0}
        BY <2>2 DEF IInv, Routes, Typed
      <3> QED BY <3>1
    <2> QED BY <2>1, <2>2
  <1>9. checked \in 0 .. Len(routes) /\ valid \in Seq(Seq(Leg))
    BY DEF IInv, Checked
  <1> QED BY <1>1, <1>2, <1>3, <1>5, <1>6, <1>7, <1>8, <1>9 DEF TypeOK

\* Every variable keeps its type; the route that is packed never has more legs
\* than a task takes.
THEOREM TypeCorrect == Spec => []TypeOK
  <1> QED BY SpecHInv, HInvTypeOK, PTL

-----------------------------------------------------------------------------
(* Counting trails *)

\* A set of numbers has a least one.
LEMMA LeastOf ==
  ASSUME NEW T \in SUBSET Nat, NEW x \in T
  PROVE  \E k \in T : \A j \in T : k <= j
  <1> DEFINE R == {ss \in Nat \X Nat : ss[1] < ss[2]}
  <1>1. IsWellFoundedOn(R, Nat)
    BY NatLessThanWellFounded DEF OpToRel
  <1>2. PICK k \in T : \A j \in T : <<j, k>> \notin R
    <2> HIDE DEF R
    <2> QED BY <1>1, WFMin
  <1>3. ASSUME NEW j \in T PROVE k <= j
    <2>1. k \in Nat /\ j \in Nat /\ <<j, k>> \notin R
      BY <1>2
    <2> QED BY <2>1
  <1> QED BY <1>3

\* Sums of numbers of things that lie apart.
LEMMA TotalFits ==
  ASSUME NEW c, NEW Y, IsFiniteSet(Y), NEW G \in [DOMAIN c -> SUBSET Y],
         \A x \in DOMAIN c : c[x] \in Nat /\ c[x] <= Cardinality(G[x]),
         \A x, y \in DOMAIN c : x # y => G[x] \cap G[y] = {}
  PROVE  Total(c) \in Nat /\ Total(c) <= Cardinality(Y)
  <1> DEFINE P == UNION {{x} \X (1 .. c[x]) : x \in DOMAIN c}
             counting(x) == CHOOSE b : b \in Bijection(1 .. Cardinality(G[x]), G[x])
             f == [p \in P |-> counting(p[1])[p[2]]]
  <1>1. ASSUME NEW x \in DOMAIN c
        PROVE  counting(x) \in Bijection(1 .. Cardinality(G[x]), G[x])
    <2>1. IsFiniteSet(G[x])
      BY FS_Subset
    <2> QED BY <2>1, FS_CardinalityType DEF ExistsBijection
  <1> HIDE DEF counting
  <1>2. ASSUME NEW p \in P
        PROVE  /\ p[1] \in DOMAIN c /\ p = <<p[1], p[2]>>
               /\ p[2] \in 1 .. Cardinality(G[p[1]])
    <2>1. PICK x \in DOMAIN c : p \in {x} \X (1 .. c[x])
      OBVIOUS
    <2>2. IsFiniteSet(G[x])
      BY FS_Subset
    <2>3. Cardinality(G[x]) \in Nat
      BY <2>2, FS_CardinalityType
    <2> QED BY <2>1, <2>3
  <1> HIDE DEF P
  <1>3. ASSUME NEW p \in P PROVE f[p] \in G[p[1]] /\ f[p] \in Y
    BY <1>1, <1>2 DEF Bijection, Injection
  <1>4. ASSUME NEW p \in P, NEW q \in P, f[p] = f[q] PROVE p = q
    <2>1. p[1] = q[1]
      BY <1>2, <1>3, <1>4
    <2> DEFINE b == counting(p[1])
    <2>2. b \in [1 .. Cardinality(G[p[1]]) -> G[p[1]]] /\ IsInjective(b)
      BY <1>1, <1>2 DEF Bijection, Injection
    <2>3. b[p[2]] = b[q[2]]
      BY <1>4, <2>1
    <2> HIDE DEF b
    <2>4. p[2] = q[2]
      BY <1>2, <2>1, <2>2, <2>3 DEF IsInjective
    <2> QED BY <1>2, <2>1, <2>4
  <1>5. f \in Injection(P, Y)
    <2>1. f \in [P -> Y]
      BY <1>3
    <2> QED BY <1>4, <2>1 DEF Injection, IsInjective
  <1>6. IsFiniteSet(P) /\ Cardinality(P) <= Cardinality(Y)
    BY <1>5, FS_Injection
  <1>7. Cardinality(P) \in Nat
    BY <1>6, FS_CardinalityType
  <1> QED BY <1>6, <1>7 DEF Total, P

\* The trails that start at v.
StartsAt(v) == {k \in DOMAIN frags : Start(frags[k]) = v}

\* Each required arc is at one place of one trail.
Placed ==
    /\ frags \in Seq(Seq(required))
    /\ \A k \in DOMAIN frags : Trailing(frags[k])
    /\ required = Joined(frags)
    /\ \A k \in DOMAIN frags : IsInjective(frags[k])
    /\ \A k, l \in DOMAIN frags : k # l => Range(frags[k]) \cap Range(frags[l]) = {}

\* Where a trail does not start at v, it comes in before it goes out.
LEMMA SurplusStarts ==
  ASSUME Placed, IsFiniteSet(required), NEW v
  PROVE  Surplus(required, v) \in Nat /\ Surplus(required, v) <= Cardinality(StartsAt(v))
  <1> DEFINE Out == {a \in required : a[1] = v}
             In  == {a \in required : a[2] = v}
             place(a) == CHOOSE p \in Nat \X Nat :
                            p[1] \in DOMAIN frags /\ p[2] \in DOMAIN frags[p[1]] /\ frags[p[1]][p[2]] = a
             T == ({0} \X In) \cup ({1} \X StartsAt(v))
             f == [a \in Out |-> IF place(a)[2] = 1 THEN <<1, place(a)[1]>>
                                 ELSE <<0, frags[place(a)[1]][place(a)[2] - 1]>>]
  <1>0. /\ frags \in Seq(Seq(required)) /\ DOMAIN frags = 1 .. Len(frags)
        /\ \A k \in DOMAIN frags : frags[k] \in Seq(required)
    BY DEF Placed
  <1>1. IsFiniteSet(Out) /\ IsFiniteSet(In) /\ IsFiniteSet(StartsAt(v))
    <2>1. DOMAIN frags = 1 .. Len(frags) /\ Len(frags) \in Nat
      BY DEF Placed
    <2>2. IsFiniteSet(DOMAIN frags)
      BY <2>1, FS_Interval
    <2> QED BY <2>2, FS_Subset DEF StartsAt
  <1>2. /\ Cardinality(Out) \in Nat /\ Cardinality(In) \in Nat
        /\ Cardinality(StartsAt(v)) \in Nat
    BY <1>1, FS_CardinalityType
  <1>3. ASSUME NEW a \in Out
        PROVE  /\ place(a)[1] \in DOMAIN frags /\ place(a)[2] \in 1 .. Len(frags[place(a)[1]])
               /\ frags[place(a)[1]][place(a)[2]] = a
    <2>1. PICK k \in DOMAIN frags : a \in Range(frags[k])
      BY DEF Placed, Joined
    <2>2. PICK i \in DOMAIN frags[k] : frags[k][i] = a
      BY <2>1 DEF Range
    <2>3. <<k, i>> \in Nat \X Nat
      BY <1>0, <2>2
    <2>6. \E p \in Nat \X Nat :
             p[1] \in DOMAIN frags /\ p[2] \in DOMAIN frags[p[1]] /\ frags[p[1]][p[2]] = a
      BY <2>2, <2>3
    <2>7. /\ place(a)[1] \in DOMAIN frags /\ place(a)[2] \in DOMAIN frags[place(a)[1]]
          /\ frags[place(a)[1]][place(a)[2]] = a
      BY <2>6, Zenon
    <2> DEFINE p == place(a)
    <2> HIDE DEF place
    <2>8. p[1] \in DOMAIN frags /\ p[2] \in DOMAIN frags[p[1]] /\ frags[p[1]][p[2]] = a
      BY <2>7
    <2>9. frags[p[1]] \in Seq(required)
      BY <1>0, <2>8
    <2>10. DOMAIN frags[p[1]] = 1 .. Len(frags[p[1]])
      BY <2>9
    <2> QED BY <2>8, <2>10
  <1> HIDE DEF place
  <1>4. ASSUME NEW a \in Out PROVE f[a] \in T
    <2> DEFINE k == place(a)[1]
               i == place(a)[2]
    <2>1. k \in DOMAIN frags /\ frags[k] \in Seq(required) /\ i \in 1 .. Len(frags[k])
          /\ frags[k][i] = a /\ a[1] = v
      BY <1>3 DEF Placed
    <2> HIDE DEF k, i
    <2>2. CASE i = 1
      <3>1. k \in StartsAt(v)
        BY <2>1, <2>2 DEF StartsAt, Start
      <3>2. f[a] = <<1, k>>
        BY <2>2 DEF k, i
      <3> QED BY <3>1, <3>2
    <2>3. CASE i # 1
      <3>1. i - 1 \in 1 .. Len(frags[k]) - 1 /\ i - 1 \in DOMAIN frags[k]
        BY <2>1, <2>3
      <3>2. frags[k][i - 1][2] = frags[k][(i - 1) + 1][1]
        BY <2>1, <3>1 DEF Placed, Trailing, Contiguous
      <3>3. (i - 1) + 1 = i
        BY <2>1
      <3>4. frags[k][i - 1] \in In
        BY <2>1, <3>1, <3>2, <3>3
      <3>5. f[a] = <<0, frags[k][i - 1]>>
        BY <2>3 DEF k, i
      <3> QED BY <3>4, <3>5
    <2> QED BY <2>2, <2>3
  <1>5. ASSUME NEW a \in Out, NEW b \in Out, f[a] = f[b] PROVE a = b
    <2>0. ASSUME NEW c \in Out
          PROVE  \E k \in DOMAIN frags, i \in Nat :
                    /\ i \in 1 .. Len(frags[k])
                    /\ frags[k] \in Seq(required) /\ frags[k][i] = c
                    /\ i = 1 => f[c] = <<1, k>>
                    /\ i # 1 => f[c] = <<0, frags[k][i - 1]>>
      <3> DEFINE k == place(c)[1]
                 i == place(c)[2]
      <3>1. /\ k \in DOMAIN frags /\ frags[k] \in Seq(required) /\ i \in 1 .. Len(frags[k])
            /\ frags[k][i] = c
        BY <1>3, <1>0
      <3>2. (i = 1 => f[c] = <<1, k>>) /\ (i # 1 => f[c] = <<0, frags[k][i - 1]>>)
        OBVIOUS
      <3> HIDE DEF k, i, f
      <3> QED BY <3>1, <3>2
    <2> HIDE DEF f, Out
    <2>1. PICK k \in DOMAIN frags, i \in Nat :
             /\ i \in 1 .. Len(frags[k])
             /\ frags[k] \in Seq(required) /\ frags[k][i] = a
             /\ i = 1 => f[a] = <<1, k>>
             /\ i # 1 => f[a] = <<0, frags[k][i - 1]>>
      BY <2>0
    <2>2. PICK l \in DOMAIN frags, j \in Nat :
             /\ j \in 1 .. Len(frags[l])
             /\ frags[l] \in Seq(required) /\ frags[l][j] = b
             /\ j = 1 => f[b] = <<1, l>>
             /\ j # 1 => f[b] = <<0, frags[l][j - 1]>>
      BY <2>0
    <2>3. CASE i = 1 /\ j = 1
      BY <1>5, <2>1, <2>2, <2>3
    <2>4. CASE i # 1 /\ j # 1
      <3>1. frags[k][i - 1] = frags[l][j - 1]
        BY <1>5, <2>1, <2>2, <2>4
      <3>2. i - 1 \in DOMAIN frags[k] /\ j - 1 \in DOMAIN frags[l]
        BY <2>1, <2>2, <2>4
      <3>3. frags[k][i - 1] \in Range(frags[k]) /\ frags[l][j - 1] \in Range(frags[l])
        BY <3>2 DEF Range
      <3>4. k = l
        BY <3>1, <3>3 DEF Placed
      <3>5. i - 1 = j - 1
        BY <2>1, <2>2, <3>1, <3>2, <3>4 DEF Placed, IsInjective
      <3> QED BY <2>1, <2>2, <3>4, <3>5
    <2>5. CASE (i = 1) # (j = 1)
      BY <1>5, <2>1, <2>2, <2>5
    <2> QED BY <2>3, <2>4, <2>5
  <1>6. f \in Injection(Out, T)
    <2>1. f \in [Out -> T]
      BY <1>4
    <2> HIDE DEF f, T, Out
    <2> QED BY <1>5, <2>1 DEF Injection, IsInjective
  <1>7. IsFiniteSet(T) /\ Cardinality(T) <= Cardinality(In) + Cardinality(StartsAt(v))
    <2> DEFINE A == {0} \X In
               B == {1} \X StartsAt(v)
    <2>1. IsFiniteSet(A) /\ Cardinality(A) = Cardinality({0}) * Cardinality(In)
      BY <1>1, FS_Product, FS_Singleton
    <2>2. IsFiniteSet(B) /\ Cardinality(B) = Cardinality({1}) * Cardinality(StartsAt(v))
      BY <1>1, FS_Product, FS_Singleton
    <2>3. Cardinality({0}) = 1 /\ Cardinality({1}) = 1
      BY FS_Singleton
    <2>4. Cardinality(A) = Cardinality(In) /\ Cardinality(B) = Cardinality(StartsAt(v))
      BY <1>2, <2>1, <2>2, <2>3
    <2> HIDE DEF A, B
    <2>5. /\ IsFiniteSet(A \cup B) /\ IsFiniteSet(A \cap B)
          /\ Cardinality(A \cup B) = Cardinality(A) + Cardinality(B) - Cardinality(A \cap B)
      BY <2>1, <2>2, FS_Union, FS_Intersection
    <2>6. Cardinality(A \cap B) \in Nat
      BY <2>5, FS_CardinalityType
    <2>7. Cardinality(A \cup B) <= Cardinality(In) + Cardinality(StartsAt(v))
      BY <1>2, <2>4, <2>5, <2>6
    <2> QED BY <2>5, <2>7 DEF A, B
  <1>8. Cardinality(Out) <= Cardinality(In) + Cardinality(StartsAt(v))
    <2>1. Cardinality(Out) <= Cardinality(T)
      BY <1>6, <1>7, FS_Injection
    <2>2. Cardinality(T) \in Nat
      BY <1>7, FS_CardinalityType
    <2> HIDE DEF T, Out, In
    <2> QED BY <1>2, <1>7, <2>1, <2>2
  <1>9. Surplus(required, v) = IF Cardinality(Out) - Cardinality(In) > 0
                               THEN Cardinality(Out) - Cardinality(In) ELSE 0
    BY DEF Surplus
  <1> HIDE DEF Out, In
  <1> QED BY <1>2, <1>8, <1>9

LEMMA MaxOne ==
  ASSUME NEW n \in Nat
  PROVE  Max({1, n}) = IF n > 1 THEN n ELSE 1
  <1>1. \E x \in {1, n} : \A y \in {1, n} : x >= y
    OBVIOUS
  <1>2. Max({1, n}) \in {1, n} /\ \A y \in {1, n} : Max({1, n}) >= y
    BY <1>1, Zenon DEF Max
  <1> QED BY <1>2

\* The trails that start in S.
StartsIn(S) == {k \in DOMAIN frags : Start(frags[k]) \in S}

\* A trail does not leave the component in which it starts.
LEMMA StaysInside ==
  ASSUME Placed, NEW S, \A a \in required : a[1] \in S <=> a[2] \in S,
         NEW k \in DOMAIN frags, NEW i \in DOMAIN frags[k], frags[k][i][1] \in S
  PROVE  k \in StartsIn(S)
  <1> DEFINE f == frags[k]
             J == {j \in 1 .. Len(f) : f[j][1] \in S}
  <1>1. f \in Seq(required) /\ f # <<>> /\ Contiguous(f)
    BY DEF Placed, Trailing
  <1> HIDE DEF f
  <1>2. J \subseteq Nat /\ i \in J
    BY <1>1 DEF f
  <1>3. PICK j \in J : \A m \in J : j <= m
    BY <1>2, LeastOf
  <1>4. j = 1
    <2> SUFFICES ASSUME j # 1 PROVE FALSE
      OBVIOUS
    <2>1. j - 1 \in 1 .. Len(f) - 1 /\ (j - 1) + 1 = j /\ j - 1 \in DOMAIN f
      BY <1>1, <1>3
    <2>2. f[j - 1][2] = f[j][1] /\ f[j - 1] \in required
      BY <1>1, <2>1 DEF Contiguous
    <2>3. j - 1 \in J
      BY <1>1, <1>3, <2>1, <2>2
    <2> QED BY <1>2, <1>3, <2>3
  <1> QED BY <1>3, <1>4 DEF StartsIn, Start, f

\* Components are closed, not empty, and lie apart.
LEMMA ComponentsOf ==
  ASSUME NEW arcs
  PROVE  /\ \A S \in Components(arcs) : /\ \A a \in arcs : a[1] \in S <=> a[2] \in S
                                       /\ \E a \in arcs : a[1] \in S
         /\ \A S, T \in Components(arcs) : S # T => S \cap T = {}
  <1> DEFINE Touched == {a[1] : a \in arcs} \cup {a[2] : a \in arcs}
             Closed(S) == \A a \in arcs : a[1] \in S <=> a[2] \in S
             Sets == {S \in SUBSET Touched : S # {} /\ Closed(S)}
  <1>1. Components(arcs) = {S \in Sets : \A T \in Sets : T \subseteq S => T = S}
    BY DEF Components
  <1>2. ASSUME NEW S \in Sets PROVE \E a \in arcs : a[1] \in S
    <2>1. PICK v \in S : v \in Touched
      OBVIOUS
    <2> QED BY <2>1
  <1>3. ASSUME NEW S \in Components(arcs), NEW T \in Components(arcs), S \cap T # {}
        PROVE  S = T
    <2>1. S \in Sets /\ T \in Sets
      BY <1>1
    <2>2. S \cap T \in SUBSET Touched /\ Closed(S \cap T)
      BY <2>1
    <2>3. S \cap T \in Sets
      BY <1>3, <2>2
    <2> HIDE DEF Sets
    <2>4. S \cap T = S /\ S \cap T = T
      BY <1>1, <2>3
    <2> QED BY <2>4
  <1> QED BY <1>1, <1>2, <1>3

\* No set of trails over the required arcs is smaller than MinimumTrailCount.
LEMMA TrailsNeeded ==
  ASSUME Placed, IsFiniteSet(required)
  PROVE  TrailCount(required) \in Nat /\ TrailCount(required) <= Len(frags)
  <1> DEFINE surplus(S) == [v \in S |-> Surplus(required, v)]
             c == [S \in Components(required) |-> Max({1, Total(surplus(S))})]
             G == [S \in Components(required) |-> StartsIn(S)]
  <1>1. IsFiniteSet(DOMAIN frags) /\ Cardinality(DOMAIN frags) = Len(frags)
    <2>1. DOMAIN frags = 1 .. Len(frags) /\ Len(frags) \in Nat
      BY DEF Placed
    <2>2. /\ IsFiniteSet(1 .. Len(frags))
          /\ Cardinality(1 .. Len(frags)) = IF 1 > Len(frags) THEN 0 ELSE Len(frags) - 1 + 1
      BY <2>1, FS_Interval
    <2> QED BY <2>1, <2>2
  <1>2. ASSUME NEW S \in Components(required)
        PROVE  /\ StartsIn(S) \in SUBSET DOMAIN frags
               /\ Max({1, Total(surplus(S))}) \in Nat
               /\ Max({1, Total(surplus(S))}) <= Cardinality(StartsIn(S))
    <2> DEFINE H == [v \in S |-> StartsAt(v)]
               e == surplus(S)
               Y == StartsIn(S)
    <2>1. StartsIn(S) \in SUBSET DOMAIN frags
      BY DEF StartsIn
    <2>2. IsFiniteSet(Y) /\ Cardinality(Y) \in Nat
      BY <1>1, <2>1, FS_Subset, FS_CardinalityType
    <2>3. H \in [S -> SUBSET Y]
      BY DEF StartsIn, StartsAt
    <2>4. \A v \in S : e[v] \in Nat /\ e[v] <= Cardinality(H[v])
      BY SurplusStarts
    <2>5. \A v, w \in S : v # w => H[v] \cap H[w] = {}
      BY DEF StartsAt
    <2>6. DOMAIN e = S
      OBVIOUS
    <2> HIDE DEF e, H, Y
    <2>7. Total(e) \in Nat /\ Total(e) <= Cardinality(Y)
      BY <2>2, <2>3, <2>4, <2>5, <2>6, TotalFits
    <2>8. Y # {}
      <3>1. PICK a \in required : a[1] \in S
        BY ComponentsOf
      <3>2. PICK k \in DOMAIN frags : a \in Range(frags[k])
        BY DEF Placed, Joined
      <3>3. PICK i \in DOMAIN frags[k] : frags[k][i] = a
        BY <3>2 DEF Range
      <3>4. \A b \in required : b[1] \in S <=> b[2] \in S
        BY ComponentsOf
      <3> QED BY <3>1, <3>3, <3>4, StaysInside DEF Y
    <2>9. Cardinality(Y) >= 1
      BY <2>2, <2>8, FS_EmptySet
    <2>10. Max({1, Total(e)}) \in Nat /\ Max({1, Total(e)}) <= Cardinality(Y)
      BY <2>2, <2>7, <2>9, MaxOne
    <2> QED BY <2>1, <2>10 DEF e, Y
  <1>3. \A S, T \in Components(required) : S # T => StartsIn(S) \cap StartsIn(T) = {}
    BY ComponentsOf DEF StartsIn
  <1> HIDE DEF surplus
  <1>4. /\ DOMAIN c = Components(required)
        /\ G \in [Components(required) -> SUBSET DOMAIN frags]
        /\ \A S \in Components(required) : c[S] \in Nat /\ c[S] <= Cardinality(G[S])
        /\ \A S, T \in Components(required) : S # T => G[S] \cap G[T] = {}
    BY <1>2, <1>3
  <1> HIDE DEF c, G
  <1>5. Total(c) \in Nat /\ Total(c) <= Cardinality(DOMAIN frags)
    BY <1>1, <1>4, TotalFits
  <1>6. TrailCount(required) = Total(c)
    BY DEF TrailCount, c, surplus
  <1> QED BY <1>1, <1>5, <1>6

-----------------------------------------------------------------------------
(* What the routes hold *)

\* Of the finished routes, each holds at most maxLegs required legs; with a place for
\* the bridge before each fragment, at most maxLegs + 1 legs and fragments together;
\* and, as no two bridges meet, a fragment for at most every other leg. The route
\* being packed has c fragments.
Tallied(c) ==
    /\ IF pc = "pack" THEN c >= 1 ELSE c = 0
    /\ Cardinality(Bought(route)) + c <= Len(route) + 1
    /\ 2 * c <= Len(route) + 1
    /\ Cardinality(AllBought(routes)) <= maxLegs * Len(routes)
    /\ Cardinality(AllBought(routes)) + Cardinality(packed) <= (maxLegs + 1) * Len(routes) + c
    /\ Cardinality(packed) <= ((maxLegs + 1) \div 2) * Len(routes) + c

Tally == \E c \in Nat : Tallied(c)

\* There are only so many arcs between N points.
LEMMA RequiredFinite ==
  ASSUME IInv
  PROVE  IsFiniteSet(required)
  <1>1. IsFiniteSet(1 .. N)
    BY PlannerAssumption, FS_Interval
  <1>2. IsFiniteSet(Cells(N))
    BY <1>1, FS_Product DEF Cells
  <1>3. required \in SUBSET Cells(N)
    BY DEF IInv, Typed, Arcs
  <1> QED BY <1>2, <1>3, FS_Subset

LEMMA RangeCount ==
  ASSUME NEW S, NEW f \in Seq(S)
  PROVE  IsFiniteSet(Range(f)) /\ Cardinality(Range(f)) \in Nat /\ Cardinality(Range(f)) <= Len(f)
  <1>1. f \in [1 .. Len(f) -> Range(f)] /\ Len(f) \in Nat
    BY DEF Range
  <1>2. f \in Surjection(1 .. Len(f), Range(f))
    BY <1>1 DEF Surjection, Range
  <1>3. /\ IsFiniteSet(1 .. Len(f))
        /\ Cardinality(1 .. Len(f)) = IF 1 > Len(f) THEN 0 ELSE Len(f) - 1 + 1
    BY <1>1, FS_Interval
  <1>4. IsFiniteSet(Range(f)) /\ Cardinality(Range(f)) <= Cardinality(1 .. Len(f))
    BY <1>2, <1>3, FS_Surjection
  <1>5. Cardinality(Range(f)) \in Nat
    BY <1>4, FS_CardinalityType
  <1> QED BY <1>1, <1>3, <1>4, <1>5

LEMMA UnionCount ==
  ASSUME NEW S, NEW T, IsFiniteSet(S), IsFiniteSet(T)
  PROVE  /\ IsFiniteSet(S \cup T) /\ Cardinality(S) \in Nat /\ Cardinality(T) \in Nat
         /\ Cardinality(S \cup T) \in Nat
         /\ Cardinality(S \cup T) <= Cardinality(S) + Cardinality(T)
  <1>1. /\ IsFiniteSet(S \cup T) /\ IsFiniteSet(S \cap T)
        /\ Cardinality(S \cup T) = Cardinality(S) + Cardinality(T) - Cardinality(S \cap T)
    BY FS_Union, FS_Intersection
  <1>2. /\ Cardinality(S) \in Nat /\ Cardinality(T) \in Nat /\ Cardinality(S \cup T) \in Nat
        /\ Cardinality(S \cap T) \in Nat
    BY <1>1, FS_CardinalityType
  <1> QED BY <1>1, <1>2

\* The sets that are counted.
LEMMA Counts ==
  ASSUME IInv
  PROVE  /\ IsFiniteSet(Bought(route)) /\ IsFiniteSet(AllBought(routes)) /\ IsFiniteSet(packed)
         /\ Cardinality(Bought(route)) \in Nat /\ Cardinality(AllBought(routes)) \in Nat
         /\ Cardinality(packed) \in Nat /\ Len(routes) \in Nat /\ Len(route) \in Nat
         /\ maxLegs \in Nat \ {0}
  <1>1. Bought(route) \in SUBSET required /\ AllBought(routes) \in SUBSET required
    BY EmptyRoute DEF IInv, Routes, AllBought
  <1>2. IsFiniteSet(DOMAIN frags)
    <2>1. DOMAIN frags = 1 .. Len(frags) /\ Len(frags) \in Nat
      BY DEF IInv, Typed
    <2> QED BY <2>1, FS_Interval
  <1>3. packed \in SUBSET DOMAIN frags
    BY DEF IInv, Typed
  <1>4. IsFiniteSet(Bought(route)) /\ IsFiniteSet(AllBought(routes)) /\ IsFiniteSet(packed)
    BY <1>1, <1>2, <1>3, RequiredFinite, FS_Subset
  <1>5. Len(routes) \in Nat /\ Len(route) \in Nat /\ maxLegs \in Nat \ {0}
    BY DEF IInv, Routes, Typed
  <1> QED BY <1>4, <1>5, FS_CardinalityType

LEMMA InitTally == Init => Tally
  <1> SUFFICES ASSUME Init PROVE Tallied(0)
    BY DEF Tally
  <1>1. Bought(route) = {} /\ AllBought(routes) = {} /\ packed = {}
    BY EmptyRoute DEF Init, AllBought
  <1>2. Len(route) = 0 /\ Len(routes) = 0 /\ pc # "pack" /\ maxLegs \in Nat
    BY PlannerAssumption DEF Init
  <1> QED BY <1>1, <1>2, FS_EmptySet DEF Tallied

LEMMA OpenRouteTally ==
  ASSUME IInv, Tally, NEW k \in DOMAIN frags, OpenRoute(k)
  PROVE  Tally'
  <1>1. PICK c \in Nat : Tallied(c)
    BY DEF Tally
  <1>2. /\ Legs(frags[k]) \in Seq(Leg) /\ Len(Legs(frags[k])) = Len(frags[k])
        /\ Bought(Legs(frags[k])) = Range(frags[k])
        /\ Len(frags[k]) \in Nat \ {0}
        /\ Cardinality(Range(frags[k])) \in Nat /\ Cardinality(Range(frags[k])) <= Len(frags[k])
    BY FragmentOf, LegsOf, RangeCount
  <1>3. /\ pc = "open" /\ pc' = "pack" /\ route' = Legs(frags[k]) /\ routes' = routes
        /\ packed' = packed \cup {k} /\ maxLegs' = maxLegs
    BY DEF OpenRoute
  <1>4. Cardinality(packed') \in Nat /\ Cardinality(packed') <= Cardinality(packed) + 1
    BY <1>3, Counts, UnionCount, FS_Singleton
  <1>5. /\ c = 0
        /\ Cardinality(AllBought(routes)) <= maxLegs * Len(routes)
        /\ Cardinality(AllBought(routes)) + Cardinality(packed) <= (maxLegs + 1) * Len(routes)
        /\ Cardinality(packed) <= ((maxLegs + 1) \div 2) * Len(routes)
    BY <1>1, <1>3, Counts DEF Tallied
  <1>6. Cardinality(Bought(route')) + 1 <= Len(route') + 1 /\ 2 * 1 <= Len(route') + 1
    BY <1>2, <1>3
  <1>7. AllBought(routes') = AllBought(routes) /\ Len(routes') = Len(routes)
    BY <1>3
  <1> DEFINE a == Cardinality(AllBought(routes))
             b == Cardinality(packed)
             x == (maxLegs + 1) * Len(routes)
             y == ((maxLegs + 1) \div 2) * Len(routes)
  <1>8. a \in Nat /\ b \in Nat /\ x \in Nat /\ y \in Nat
    BY Counts
  <1>9. a + b <= x /\ b <= y /\ Cardinality(packed') <= b + 1
    BY <1>4, <1>5
  <1>10. a + Cardinality(packed') <= x + 1 /\ Cardinality(packed') <= y + 1
    <2> HIDE DEF a, b, x, y
    <2> QED BY <1>4, <1>8, <1>9
  <1>11. Tallied(1)'
    BY <1>3, <1>5, <1>6, <1>7, <1>10 DEF Tallied
  <1> QED BY <1>11 DEF Tally

LEMMA AppendFragmentTally ==
  ASSUME IInv, Tally, NEW k \in DOMAIN frags, AppendFragment(k)
  PROVE  Tally'
  <1>1. PICK c \in Nat : Tallied(c)
    BY DEF Tally
  <1> DEFINE f == frags[k]
             q == Append(route, Bridge(RouteEnd(route), Start(f))) \o Legs(f)
  <1>2. /\ f \in Seq(Cells(N)) /\ f # <<>> /\ Contiguous(f) /\ Len(f) \in Nat \ {0}
        /\ IsFiniteSet(Range(f))
        /\ Cardinality(Range(f)) \in Nat /\ Cardinality(Range(f)) <= Len(f)
    BY FragmentOf, RangeCount
  <1>3. /\ pc = "pack" /\ pc' = pc /\ route' = q /\ routes' = routes
        /\ packed' = packed \cup {k} /\ maxLegs' = maxLegs
    BY DEF AppendFragment
  <1>4. route \in Seq(Leg) /\ route # <<>> /\ Contiguous(Walk(route))
    <2>1. route \in Seq(Leg) /\ Fits(Walk(route), maxLegs)
      BY <1>3 DEF IInv, Routes
    <2> QED BY <2>1, WalkTyped DEF Fits
  <1>5. Len(q) = Len(route) + 1 + Len(f) /\ Bought(q) = Bought(route) \cup Range(f)
    <2> HIDE DEF f
    <2> QED BY <1>2, <1>4, RouteExtended
  <1> HIDE DEF f, q
  <1>6. Cardinality(packed') \in Nat /\ Cardinality(packed') <= Cardinality(packed) + 1
    BY <1>3, Counts, UnionCount, FS_Singleton
  <1>7. /\ Cardinality(Bought(q)) \in Nat
        /\ Cardinality(Bought(q)) <= Cardinality(Bought(route)) + Cardinality(Range(f))
    BY <1>2, <1>5, Counts, UnionCount
  <1> DEFINE a == Cardinality(AllBought(routes))
             b == Cardinality(packed)
             x == (maxLegs + 1) * Len(routes)
             y == ((maxLegs + 1) \div 2) * Len(routes)
  <1>8. a \in Nat /\ b \in Nat /\ x \in Nat /\ y \in Nat
    BY Counts
  <1>9. a + b <= x + c /\ b <= y + c /\ Cardinality(packed') <= b + 1
    BY <1>1, <1>6 DEF Tallied
  <1>10. a + Cardinality(packed') <= x + (c + 1) /\ Cardinality(packed') <= y + (c + 1)
    <2> HIDE DEF a, b, x, y
    <2> QED BY <1>6, <1>8, <1>9
  <1>11. /\ Cardinality(Bought(q)) + (c + 1) <= Len(q) + 1
         /\ 2 * (c + 1) <= Len(q) + 1
    <2>1. Cardinality(Bought(route)) + c <= Len(route) + 1 /\ 2 * c <= Len(route) + 1
      BY <1>1 DEF Tallied
    <2> QED BY <1>2, <1>5, <1>7, <2>1, Counts
  <1>12. AllBought(routes') = AllBought(routes) /\ Len(routes') = Len(routes)
         /\ Cardinality(AllBought(routes)) <= maxLegs * Len(routes)
    BY <1>1, <1>3 DEF Tallied
  <1>13. Tallied(c + 1)'
    BY <1>3, <1>10, <1>11, <1>12 DEF Tallied
  <1> QED BY <1>13 DEF Tally

\* One route more.
LEMMA OneMore ==
  ASSUME NEW n \in Nat, NEW m \in Nat
  PROVE  n * (m + 1) = n * m + n /\ n * m \in Nat
  OBVIOUS

LEMMA CloseRouteTally ==
  ASSUME IInv, Tally, CloseRoute
  PROVE  Tally'
  <1>1. PICK c \in Nat : Tallied(c)
    BY DEF Tally
  <1>2. /\ pc = "pack" /\ pc' = "open" /\ routes' = Append(routes, route) /\ route' = <<>>
        /\ packed' = packed /\ maxLegs' = maxLegs
    BY DEF CloseRoute
  <1>3. routes \in Seq(Seq(Leg)) /\ route \in Seq(Leg) /\ Len(route) <= maxLegs
    <2>1. routes \in Seq(Seq(Leg)) /\ route \in Seq(Leg) /\ Fits(Walk(route), maxLegs)
      BY <1>2 DEF IInv, Routes
    <2> QED BY <2>1, WalkTyped DEF Fits
  <1>4. AllBought(routes') = Bought(route) \cup AllBought(routes) /\ Len(routes') = Len(routes) + 1
    BY <1>2, <1>3, BoughtAdded
  <1> DEFINE L == maxLegs
             h == (maxLegs + 1) \div 2
             m == Len(routes)
             a == Cardinality(AllBought(routes))
             d == Cardinality(AllBought(routes'))
             b == Cardinality(packed)
             o == Cardinality(Bought(route))
             r == Len(route)
  <1>5. /\ L \in Nat /\ h \in Nat /\ m \in Nat /\ a \in Nat /\ b \in Nat /\ o \in Nat /\ r \in Nat
        /\ L + 1 = 2 * h \/ L + 1 = 2 * h + 1
    BY Counts
  <1>6. d \in Nat /\ d <= o + a
    BY <1>4, Counts, UnionCount
  <1>7. /\ c >= 1 /\ o + c <= r + 1 /\ 2 * c <= r + 1 /\ a <= L * m
        /\ a + b <= (L + 1) * m + c /\ b <= h * m + c
    BY <1>1, <1>2 DEF Tallied
  <1>8. r <= L
    BY <1>3
  <1> HIDE DEF L, h, m, a, d, b, o, r
  <1>9. /\ L * (m + 1) = L * m + L /\ (L + 1) * (m + 1) = (L + 1) * m + (L + 1)
        /\ h * (m + 1) = h * m + h
        /\ L * m \in Nat /\ (L + 1) * m \in Nat /\ h * m \in Nat
    BY <1>5, OneMore
  <1>10. /\ d <= L * (m + 1) /\ d + b <= (L + 1) * (m + 1) /\ b <= h * (m + 1)
    <2> DEFINE x == L * m
               y == (L + 1) * m
               z == h * m
    <2>1. o <= L
      BY <1>5, <1>7, <1>8
    <2>2. /\ d <= x + L /\ d + b <= y + (L + 1) /\ b <= z + h
      <3> HIDE DEF x, y, z
      <3> QED BY <1>5, <1>6, <1>7, <1>8, <1>9, <2>1 DEF x, y, z
    <2> QED BY <1>9, <2>2
  <1>11. /\ Bought(route') = {} /\ Len(route') = 0 /\ Cardinality({}) = 0
    BY <1>2, EmptyRoute, FS_EmptySet
  <1>12. /\ d <= maxLegs' * Len(routes') /\ d + b <= (maxLegs' + 1) * Len(routes') + 0
         /\ b <= ((maxLegs' + 1) \div 2) * Len(routes') + 0
    <2>1. /\ (L + 1) * (m + 1) + 0 = (L + 1) * (m + 1) /\ h * (m + 1) + 0 = h * (m + 1)
      BY <1>5
    <2> QED BY <1>2, <1>4, <1>10, <2>1 DEF L, h, m
  <1>13. /\ Cardinality(Bought(route')) + 0 <= Len(route') + 1 /\ 2 * 0 <= Len(route') + 1
    BY <1>11
  <1>14. Tallied(0)'
    BY <1>2, <1>12, <1>13 DEF Tallied, d, b
  <1> QED BY <1>14 DEF Tally

LEMMA NextTally == IInv /\ Tally /\ [Next]_vars => Tally'
  <1> SUFFICES ASSUME IInv, Tally, [Next]_vars PROVE Tally'
    OBVIOUS
  <1>1. ASSUME NEW k \in DOMAIN frags, OpenRoute(k) \/ AppendFragment(k) PROVE Tally'
    BY <1>1, OpenRouteTally, AppendFragmentTally
  <1>2. CASE CloseRoute
    BY <1>2, CloseRouteTally
  <1>3. CASE /\ UNCHANGED <<maxLegs, packed, route, routes>>
             /\ pc' = pc \/ "pack" \notin {pc, pc'}
    BY <1>3 DEF Tally, Tallied
  <1>4. CASE Finalize
    <2>1. /\ routes' = routes /\ pc = "check" /\ pc' = "done"
          /\ UNCHANGED <<maxLegs, packed, route>>
      BY <1>4, FinalizeKeepsRoutes DEF Finalize
    <2> QED BY <1>3, <2>1
  <1>5. CASE UNCHANGED vars
    <2>1. UNCHANGED <<maxLegs, packed, route, routes, pc>>
      BY <1>5 DEF vars
    <2> QED BY <1>3, <2>1
  <1>6. ASSUME NEW a \in required, Load(a) \/ Single(a) PROVE Tally'
    BY <1>3, <1>6 DEF Load, Single
  <1>7. ASSUME NEW v \in Point, StartTrail(v) PROVE Tally'
    BY <1>3, <1>7 DEF StartTrail
  <1>8. ASSUME NEW k \in Point, Grow(k) PROVE Tally'
    BY <1>3, <1>8 DEF Grow
  <1>9. CASE Loaded \/ NoTrail \/ EndTrail \/ Cut \/ Grown \/ Packed \/ Validate
    BY <1>3, <1>9 DEF Loaded, NoTrail, EndTrail, Cut, Grown, Packed, Validate
  <1>10. \/ \E a \in required : Load(a) \/ Single(a)
         \/ \E v \in Point : StartTrail(v)
         \/ \E k \in Point : Grow(k)
         \/ \E k \in DOMAIN frags : OpenRoute(k) \/ AppendFragment(k)
         \/ CloseRoute \/ Finalize
         \/ Loaded \/ NoTrail \/ EndTrail \/ Cut \/ Grown \/ Packed \/ Validate
         \/ UNCHANGED vars
    BY Zenon DEF Next, Step
  <1> QED BY <1>1, <1>2, <1>4, <1>5, <1>6, <1>7, <1>8, <1>9, <1>10, Zenon

LEMMA SpecTally == Spec => [](IInv /\ Once /\ Tally)
  <1>1. IInv /\ Tally /\ [Next]_vars => Tally'
    BY NextTally
  <1> QED BY <1>1, InitTally, SpecOnce, PTL DEF Spec

LEMMA CeilDivLeast ==
  ASSUME NEW a \in Nat, NEW b \in Nat \ {0}, NEW m \in Nat, a <= b * m
  PROVE  CeilDiv(a, b) \in Int /\ CeilDiv(a, b) <= m
  <1> DEFINE q == (a + b - 1) \div b
  <1>1. q \in Int /\ b * q <= a + b - 1
    OBVIOUS
  <1> HIDE DEF q
  <1>2. ~(q >= m + 1)
    <2> SUFFICES ASSUME q >= m + 1 PROVE FALSE
      OBVIOUS
    <2>1. b * q >= b * (m + 1)
      BY <1>1
    <2>2. b * (m + 1) = b * m + b
      BY OneMore
    <2>3. b * q \in Int /\ b * m \in Nat
      BY <1>1, OneMore
    <2> DEFINE x == b * q
               y == b * m
    <2>4. x \in Int /\ y \in Nat /\ x >= y + b /\ x <= a + b - 1 /\ a <= y
      BY <1>1, <2>1, <2>2, <2>3
    <2> HIDE DEF x, y
    <2> QED BY <2>4
  <1> QED BY <1>1, <1>2 DEF CeilDiv, q

LEMMA MaxOfThree ==
  ASSUME NEW a \in Int, NEW b \in Int, NEW c \in Int, NEW m \in Int, a <= m, b <= m, c <= m
  PROVE  Max({a, b, c}) <= m
  <1>1. \E x \in {a, b, c} : \A y \in {a, b, c} : x >= y
    <2>1. CASE a >= b /\ a >= c
      BY <2>1
    <2>2. CASE b >= a /\ b >= c
      BY <2>2
    <2>3. CASE c >= a /\ c >= b
      BY <2>3
    <2> QED BY <2>1, <2>2, <2>3
  <1>2. Max({a, b, c}) \in {a, b, c}
    BY <1>1, Zenon DEF Max
  <1> QED BY <1>2

LEMMA PlanBounded == IInv /\ Once /\ Tally => BoundHolds
  <1> SUFFICES ASSUME IInv, Once, Tally, pc = "done"
               PROVE  Len(routes) >= LowerBound(required, maxLegs)
    BY DEF BoundHolds
  <1>1. PICK c \in Nat : Tallied(c)
    BY DEF Tally
  <1>2. Placed
    <2>1. pending = {} /\ ArcsLeft(out) = {} /\ trail = <<>>
      BY DEF IInv, Phases, Growing
    <2>2. required = Joined(frags)
      BY <2>1 DEF IInv, Kept, Range
    <2> QED BY <2>2 DEF Placed, IInv, Typed, Trails, Once, Lists, Apart
  <1> DEFINE T == TrailCount(required)
             R == Cardinality(required)
             F == Len(frags)
             m == Len(routes)
             L == maxLegs
             h == (maxLegs + 1) \div 2
  <1>3. T \in Nat /\ T <= F
    BY <1>2, RequiredFinite, TrailsNeeded
  <1>4. Cardinality(packed) = F /\ F \in Nat
    <2>1. packed = 1 .. Len(frags) /\ Len(frags) \in Nat
      BY DEF IInv, Phases, Typed
    <2>2. Cardinality(1 .. Len(frags)) = IF 1 > Len(frags) THEN 0 ELSE Len(frags) - 1 + 1
      BY <2>1, FS_Interval
    <2> QED BY <2>1, <2>2
  <1>5. AllBought(routes) = required
    BY AllPacked
  <1>6. R <= L * m /\ R + F <= (L + 1) * m + c /\ F <= h * m + c /\ c = 0
    BY <1>1, <1>4, <1>5 DEF Tallied
  <1>7. R \in Nat /\ m \in Nat /\ L \in Nat \ {0} /\ h \in Nat \ {0}
    BY <1>5, Counts
  <1> HIDE DEF T, R, F, m, L, h
  <1>8. R <= L * m /\ R + T <= (L + 1) * m /\ T <= h * m
    <2>1. L * m \in Nat /\ (L + 1) * m \in Nat /\ h * m \in Nat
      BY <1>7, OneMore
    <2> DEFINE y == (L + 1) * m
               z == h * m
    <2>2. R + T <= y /\ T <= z
      <3>1. y \in Nat /\ z \in Nat /\ R + F <= y + c /\ F <= z + c
        BY <1>6, <2>1
      <3> HIDE DEF y, z
      <3> QED BY <1>3, <1>4, <1>6, <1>7, <3>1
    <2> QED BY <1>6, <2>2
  <1>9. /\ CeilDiv(R, L) \in Int /\ CeilDiv(R, L) <= m
        /\ CeilDiv(R + T, L + 1) \in Int /\ CeilDiv(R + T, L + 1) <= m
        /\ CeilDiv(T, h) \in Int /\ CeilDiv(T, h) <= m
    <2>1. L + 1 \in Nat \ {0} /\ R + T \in Nat
      BY <1>3, <1>7
    <2> QED BY <1>3, <1>7, <1>8, <2>1, CeilDivLeast
  <1>10. Max({CeilDiv(R, L), CeilDiv(R + T, L + 1), CeilDiv(T, h)}) <= m
    BY <1>7, <1>9, MaxOfThree
  <1>11. LowerBound(required, maxLegs) = Max({CeilDiv(R, L), CeilDiv(R + T, L + 1), CeilDiv(T, h)})
    BY DEF LowerBound, T, R, L, h
  <1> QED BY <1>10, <1>11 DEF m

\* No plan has fewer routes than ComputeLowerBound says, whatever trails are grown
\* and whenever the planning is cut short: what the statistics report as a bound is
\* one. A trail too few would have a point at which it goes out more often than it
\* came in, or leave a component out.
THEOREM BoundIsLower == Spec => []BoundHolds
  <1> QED BY SpecTally, PlanBounded, PTL
=============================================================================
