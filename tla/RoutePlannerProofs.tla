-------------------------- MODULE RoutePlannerProofs ---------------------------
(***************************************************************************)
(* What holds of the answers to /v1/route for every length of a route,     *)
(* batch size, way in which the provider divides the legs, order in which  *)
(* the packets finish and pool of keys they share.                         *)
(***************************************************************************)
EXTENDS RoutePlanner, FiniteSetTheorems, WellFoundedInduction, TLAPS

PoolFacts == INSTANCE KeyPoolProofs WITH Caller <- Packet, Impatient <- Packet

-----------------------------------------------------------------------------
(* The pool that the packets of a route share *)

\* The planner uses the pool as KeyPool allows: the goroutines of its packets
\* are callers of Route, and a client that goes away cuts all of them at once.
THEOREM UsesThePool == Spec => Pool!Spec
  <1>1. Init => Pool!Init
    BY DEF Init
  <1>2. [Next]_vars => [Pool!Next]_(Pool!vars)
    <2> SUFFICES ASSUME [Next]_vars PROVE Pool!Next \/ UNCHANGED Pool!vars
      OBVIOUS
    <2>1. CASE UNCHANGED pool
      BY <2>1 DEF pool, Pool!vars
    <2>2. ASSUME NEW g \in Packet, Enter(g) PROVE Pool!Next \/ UNCHANGED pool
      BY <2>2 DEF Enter, Pool!Next
    <2>3. ASSUME NEW g \in Packet, Call(g) PROVE Pool!Next
      BY <2>3 DEF Call, Pool!Next
    <2>4. ASSUME NEW g \in Packet, Collect(g) PROVE UNCHANGED pool
      BY <2>4 DEF Collect
    <2>5. CASE Join
      BY <2>1, <2>5 DEF Join
    <2>6. CASE Cancel
      <3> DEFINE S == {g \in Packet : call[g].pc # "idle"}
      <3>1. S \in SUBSET Packet /\ Pool!Cut(S)
        BY <2>6 DEF Cancel
      <3> HIDE DEF S
      <3> QED BY <3>1 DEF Pool!Next
    <2>7. ASSUME NEW i \in Pool!Item, Opens(i) \/ Fades(i) \/ Forgets(i) PROVE Pool!Next
      BY <2>7 DEF Opens, Fades, Forgets, Pool!Next
    <2>8. ASSUME NEW n \in Lengths, Ask(n) PROVE UNCHANGED pool
      BY <2>8 DEF Ask
    <2>9. CASE UNCHANGED vars
      BY <2>1, <2>9 DEF vars
    <2> QED BY <2>1, <2>2, <2>3, <2>4, <2>5, <2>6, <2>7, <2>8, <2>9 DEF Next, Step
  <1> QED BY <1>1, <1>2, PTL DEF Spec, Pool!Spec

\* The pool of the planner is the pool of KeyPoolProofs.
LEMMA SamePool ==
  /\ PoolFacts!PoolAssumption
  /\ Pool!Spec <=> PoolFacts!Spec
  /\ Pool!TypeOK <=> PoolFacts!TypeOK
  <1>1. PoolFacts!PoolAssumption
    BY KeysAssumption DEF Pool!PoolAssumption, PoolFacts!PoolAssumption,
       Pool!Key, PoolFacts!Key, Pool!Item, PoolFacts!Item
  <1>2. Pool!TypeOK <=> PoolFacts!TypeOK
    BY DEF Pool!TypeOK, PoolFacts!TypeOK, Pool!Item, PoolFacts!Item,
       Pool!Call, PoolFacts!Call, Pool!Key, PoolFacts!Key
  <1>3. Pool!Init <=> PoolFacts!Init
    BY DEF Pool!Init, PoolFacts!Init, Pool!NoCall, PoolFacts!NoCall, Pool!Item, PoolFacts!Item
  <1>4. [Pool!Next]_(Pool!vars) <=> [PoolFacts!Next]_(PoolFacts!vars)
    BY Zenon DEF Pool!Next, PoolFacts!Next, Pool!vars, PoolFacts!vars, Pool!pool, PoolFacts!pool,
       Pool!Item, PoolFacts!Item, Pool!Key, PoolFacts!Key,
       Pool!ProbeOnly, PoolFacts!ProbeOnly, Pool!Throttled, PoolFacts!Throttled,
       Pool!WeightsOf, PoolFacts!WeightsOf,
       Pool!Weightings, PoolFacts!Weightings, Pool!Active, PoolFacts!Active,
       Pool!AddUp, PoolFacts!AddUp, Pool!Total, PoolFacts!Total,
       Pool!Raised, PoolFacts!Raised, Pool!Leads, PoolFacts!Leads, Pool!Picks, PoolFacts!Picks,
       Pool!ItemOf, PoolFacts!ItemOf, Pool!HardFailure, PoolFacts!HardFailure,
       Pool!RecordSuccess, PoolFacts!RecordSuccess, Pool!RecordFailure, PoolFacts!RecordFailure,
       Pool!NoCall, PoolFacts!NoCall, Pool!Fallback, PoolFacts!Fallback,
       Pool!Begin, PoolFacts!Begin, Pool!Exhausted, PoolFacts!Exhausted,
       Pool!Tried, PoolFacts!Tried, Pool!Sent, PoolFacts!Sent, Pool!Pick, PoolFacts!Pick,
       Pool!Succeeds, PoolFacts!Succeeds, Pool!Fails, PoolFacts!Fails,
       Pool!Step, PoolFacts!Step, Pool!Cut, PoolFacts!Cut,
       Pool!GateOpens, PoolFacts!GateOpens, Pool!HardFades, PoolFacts!HardFades,
       Pool!GoodFades, PoolFacts!GoodFades, Pool!FailsFade, PoolFacts!FailsFade,
       Pool!Cardinality, PoolFacts!Cardinality
  <1>5. Pool!Spec <=> PoolFacts!Spec
    BY <1>3, <1>4, PTL DEF Pool!Spec, PoolFacts!Spec
  <1> QED BY <1>1, <1>2, <1>5

\* Whatever the packets do at once, the counters of their pool keep their shape
\* and their bounds.
LEMMA PoolTyped ==
  ASSUME NEW W \in Nat, PoolFacts!ClaimsWide(W)
  PROVE  Spec => []Pool!TypeOK
  <1>1. PoolFacts!Spec => []PoolFacts!TypeOK
    BY SamePool, PoolFacts!TypeCorrect
  <1>2. Spec => []PoolFacts!TypeOK
    BY <1>1, SamePool, UsesThePool, PTL
  <1> QED BY <1>2, SamePool, PTL

-----------------------------------------------------------------------------
(* Induction and recursion up to a number *)

LEMMA UpTo ==
  ASSUME NEW m \in Nat, NEW S, 0 \in S, \A k \in 1 .. m : k - 1 \in S => k \in S
  PROVE  \A k \in 0 .. m : k \in S
  <1> SUFFICES ASSUME NEW x \in 0 .. m, x \notin S PROVE FALSE
    OBVIOUS
  <1> DEFINE T == {k \in Nat : k \in 0 .. m /\ k \notin S}
             R == {ss \in Nat \X Nat : ss[1] < ss[2]}
  <1>1. PICK k \in T : \A j \in T : <<j, k>> \notin R
    <2>1. T \subseteq Nat /\ x \in T
      OBVIOUS
    <2>2. IsWellFoundedOn(R, Nat)
      BY NatLessThanWellFounded DEF OpToRel
    <2> HIDE DEF T, R
    <2> QED BY <2>1, <2>2, WFMin
  <1>2. k \in 1 .. m /\ k - 1 \in 0 .. m
    OBVIOUS
  <1>3. k - 1 \notin T
    <2>1. <<k - 1, k>> \in R
      BY <1>2
    <2> HIDE DEF T, R
    <2> QED BY <1>1, <2>1
  <1> QED BY <1>2, <1>3

\* Values that follow from one another by the functions in step.
Follows(f, m, x, step) == f[0] = x /\ \A k \in 1 .. m : f[k] = step[k][f[k - 1]]

LEMMA RecursionExists ==
  ASSUME NEW m \in Nat, NEW X, NEW x \in X, NEW step \in [1 .. m -> [X -> X]]
  PROVE  \E f \in [0 .. m -> X] : Follows(f, m, x, step)
  <1> DEFINE S == {k \in 0 .. m : \E f \in [0 .. k -> X] : Follows(f, k, x, step)}
  <1>1. 0 \in S
    <2> DEFINE z == [j \in 0 .. 0 |-> x]
    <2>1. z \in [0 .. 0 -> X] /\ Follows(z, 0, x, step)
      BY DEF Follows
    <2> HIDE DEF z
    <2> QED BY <2>1
  <1>2. ASSUME NEW k \in 1 .. m, k - 1 \in S PROVE k \in S
    <2>1. PICK f \in [0 .. k - 1 -> X] : Follows(f, k - 1, x, step)
      BY <1>2
    <2> DEFINE h == [j \in 0 .. k |-> IF j = k THEN step[k][f[k - 1]] ELSE f[j]]
    <2>2. h \in [0 .. k -> X]
      <3>1. f[k - 1] \in X /\ step[k] \in [X -> X]
        OBVIOUS
      <3> QED BY <3>1
    <2>3. Follows(h, k, x, step)
      BY <2>1 DEF Follows
    <2> HIDE DEF h
    <2> QED BY <2>2, <2>3
  <1>3. m \in S
    <2> HIDE DEF S
    <2>1. \A k \in 0 .. m : k \in S
      BY <1>1, <1>2, UpTo
    <2> QED BY <2>1
  <1> QED BY <1>3

-----------------------------------------------------------------------------
(* FlattenSeq *)

\* The lists in ss, put behind one another.
Joined(f, ss, T) ==
    /\ f \in [0 .. Len(ss) -> Seq(T)]
    /\ f[0] = <<>>
    /\ \A k \in 1 .. Len(ss) : f[k] = f[k - 1] \o ss[k]

LEMMA FlattenJoins ==
  ASSUME NEW T, NEW ss \in Seq(Seq(T))
  PROVE  \E f : Joined(f, ss, T) /\ FlattenSeq(ss) = f[Len(ss)]
  <1> DEFINE m == Len(ss)
             step == [k \in 1 .. m |-> [s \in Seq(T) |-> s \o ss[k]]]
  <1>1. m \in Nat /\ \A k \in 1 .. m : ss[k] \in Seq(T)
    OBVIOUS
  <1>2. step \in [1 .. m -> [Seq(T) -> Seq(T)]]
    <2>1. ASSUME NEW k \in 1 .. m PROVE [s \in Seq(T) |-> s \o ss[k]] \in [Seq(T) -> Seq(T)]
      BY <1>1
    <2> HIDE DEF m
    <2> QED BY <2>1
  <1>3. PICK f \in [0 .. m -> Seq(T)] : Follows(f, m, <<>>, step)
    <2>1. <<>> \in Seq(T)
      OBVIOUS
    <2> HIDE DEF m, step
    <2> QED BY <1>1, <1>2, <2>1, RecursionExists
  <1>4. Joined(f, ss, T)
    <2>1. ASSUME NEW k \in 1 .. m PROVE f[k] = f[k - 1] \o ss[k]
      <3>1. f[k] = step[k][f[k - 1]]
        BY <1>3 DEF Follows
      <3>0. f[k - 1] \in Seq(T)
        <4>1. k - 1 \in 0 .. m
          BY <1>1
        <4> HIDE DEF m, step
        <4> QED BY <4>1
      <3>2. step[k] = [s \in Seq(T) |-> s \o ss[k]]
        OBVIOUS
      <3> QED BY <3>0, <3>1, <3>2
    <2> QED BY <1>3, <2>1 DEF Joined, Follows
  <1>5. CASE m = 0
    BY <1>4, <1>5 DEF FlattenSeq, Joined
  <1>6. CASE m # 0
    <2> DEFINE Rec(g) == [i \in 1 .. Len(ss) |-> IF i = 1 THEN ss[i] ELSE g[i - 1] \o ss[i]]
               c == CHOOSE g : g = Rec(g)
               u == [i \in 1 .. Len(ss) |-> f[i]]
    <2>1. u = Rec(u)
      <3>1. ASSUME NEW i \in 1 .. m
            PROVE  f[i] = IF i = 1 THEN ss[i] ELSE u[i - 1] \o ss[i]
        <4>0. f[i] = f[i - 1] \o ss[i] /\ f[0] = <<>> /\ ss[i] \in Seq(T)
          BY <1>1, <1>4 DEF Joined
        <4>1. CASE i = 1
          <5>1. <<>> \o ss[i] = ss[i]
            BY <4>0
          <5>2. f[i - 1] = <<>>
            BY <4>0, <4>1
          <5> HIDE DEF u, m
          <5> QED BY <4>0, <4>1, <5>1, <5>2
        <4>2. CASE i # 1
          <5>1. u[i - 1] = f[i - 1]
            BY <1>1, <4>2
          <5> HIDE DEF u, m
          <5> QED BY <4>0, <4>2, <5>1
        <4> QED BY <4>1, <4>2
      <3> QED BY <3>1
    <2>2. c = Rec(c)
      <3> HIDE DEF Rec
      <3> QED BY <2>1
    <2>3. FlattenSeq(ss) = c[m]
      BY <1>6 DEF FlattenSeq
    <2> HIDE DEF c
    <2> DEFINE d == [i \in 0 .. m |-> IF i = 0 THEN <<>> ELSE c[i]]
    <2>4. ASSUME NEW k \in 1 .. m, d[k - 1] = f[k - 1] PROVE d[k] = f[k]
      <3>1. c[k] = IF k = 1 THEN ss[k] ELSE c[k - 1] \o ss[k]
        BY <2>2
      <3>2. f[k] = f[k - 1] \o ss[k]
        BY <1>4 DEF Joined
      <3>3. ss[k] \in Seq(T) /\ <<>> \o ss[k] = ss[k]
        BY <1>1
      <3>4. CASE k = 1
        <4>1. f[k - 1] = <<>>
          BY <1>4, <3>4 DEF Joined
        <4>2. d[k] = ss[k]
          BY <3>1, <3>4
        <4> HIDE DEF d
        <4> QED BY <3>2, <3>3, <4>1, <4>2
      <3>5. CASE k # 1
        <4>0. k - 1 \in 0 .. m /\ k \in 0 .. m /\ k - 1 # 0 /\ k # 0
          BY <1>1, <3>5
        <4>1. d[k] = c[k - 1] \o ss[k] /\ d[k - 1] = c[k - 1]
          <5> HIDE DEF m
          <5> QED BY <3>1, <3>5, <4>0
        <4> HIDE DEF d
        <4> QED BY <2>4, <3>2, <4>1
      <3> QED BY <3>4, <3>5
    <2>5. d[0] = f[0]
      BY <1>4 DEF Joined
    <2>6. \A k \in 0 .. m : d[k] = f[k]
      <3>1. \A k \in 1 .. m : d[k - 1] = f[k - 1] => d[k] = f[k]
        BY <2>4
      <3>2. m \in Nat
        BY <1>1
      <3> HIDE DEF d, m
      <3> DEFINE S == {k \in 0 .. m : d[k] = f[k]}
      <3>3. 0 \in S /\ \A k \in 1 .. m : k - 1 \in S => k \in S
        BY <2>5, <3>1, <3>2
      <3>4. \A k \in 0 .. m : k \in S
        <4> HIDE DEF S
        <4> QED BY <3>2, <3>3, UpTo
      <3> QED BY <3>4
    <2> QED BY <1>1, <1>4, <1>6, <2>3, <2>6
  <1> QED BY <1>5, <1>6

-----------------------------------------------------------------------------
(* ToResult *)

PathSteps == [leg : Nat, part : Nat, parts : Nat, mark : BOOLEAN]
LegSteps == [leg : Nat, of : SUBSET PathSteps, src : {"provider", "fallback"}]
Accounts == [steps : Seq(LegSteps), arrived : BOOLEAN]

Start == [steps |-> <<>>, arrived |-> TRUE]

\* Accounts after each path step.
Absorbed(a, path, lo, hi) ==
    /\ a \in [0 .. Len(path) -> Accounts]
    /\ a[0] = Start
    /\ \A i \in 1 .. Len(path) : a[i] = Absorb(a[i - 1], path[i], lo, hi)

LEMMA AbsorbTyped ==
  ASSUME NEW acc \in Accounts, NEW p \in PathSteps, NEW lo \in Nat, NEW hi \in Int
  PROVE  Absorb(acc, p, lo, hi) \in Accounts
  <1> DEFINE s == acc.steps
  <1>0. s \in Seq(LegSteps) /\ acc.arrived \in BOOLEAN /\ p.mark \in BOOLEAN
    BY DEF Accounts, PathSteps
  <1>1. CASE Continues(acc)
    <2> DEFINE x == [s[Len(s)] EXCEPT !.of = @ \cup {p}]
               t == [s EXCEPT ![Len(s)] = x]
    <2>1. Len(s) \in 1 .. Len(s) /\ s[Len(s)] \in LegSteps
      BY <1>0, <1>1 DEF Continues
    <2>2. x \in LegSteps
      BY <2>1 DEF LegSteps
    <2>3. t \in Seq(LegSteps)
      <3> HIDE DEF x
      <3> QED BY <1>0, <2>1, <2>2
    <2>4. Absorb(acc, p, lo, hi) = [steps |-> t, arrived |-> p.mark]
      BY <1>1 DEF Absorb
    <2> HIDE DEF t
    <2> QED BY <1>0, <2>3, <2>4 DEF Accounts
  <1>2. CASE ~Continues(acc)
    <2> DEFINE y == LegStep(lo + Len(s), {p}, "provider")
    <2>1. y \in LegSteps
      BY <1>0 DEF LegStep, LegSteps
    <2>2. Append(s, y) \in Seq(LegSteps)
      <3> HIDE DEF y
      <3> QED BY <1>0, <2>1
    <2> QED BY <1>0, <1>2, <2>2 DEF Absorb, Accounts
  <1> QED BY <1>1, <1>2

LEMMA ToResultAbsorbs ==
  ASSUME NEW path \in Seq(PathSteps), NEW lo \in Nat, NEW hi \in Int
  PROVE  \E a : Absorbed(a, path, lo, hi) /\ ToResult(path, lo, hi) = a[Len(path)].steps
  <1> DEFINE m == Len(path)
             step == [i \in 1 .. m |-> [acc \in Accounts |-> Absorb(acc, path[i], lo, hi)]]
  <1>1. m \in Nat /\ \A i \in 1 .. m : path[i] \in PathSteps
    OBVIOUS
  <1>2. step \in [1 .. m -> [Accounts -> Accounts]]
    <2> HIDE DEF m
    <2> QED BY <1>1, AbsorbTyped
  <1>3. PICK a \in [0 .. m -> Accounts] : Follows(a, m, Start, step)
    <2>1. Start \in Accounts
      BY DEF Start, Accounts
    <2> HIDE DEF m, step
    <2> QED BY <1>1, <1>2, <2>1, RecursionExists
  <1>4. Absorbed(a, path, lo, hi)
    BY <1>1, <1>3 DEF Absorbed, Follows
  <1> DEFINE Rec(g) == [i \in 0 .. Len(path) |->
                          IF i = 0 THEN Start ELSE Absorb(g[i - 1], path[i], lo, hi)]
             c == CHOOSE g : g = Rec(g)
  <1>5. a = Rec(a)
    BY <1>4 DEF Absorbed
  <1>6. c = Rec(c)
    <2> HIDE DEF Rec
    <2> QED BY <1>5
  <1>7. ToResult(path, lo, hi) = c[m].steps
    BY DEF ToResult, Start
  <1> HIDE DEF c
  <1>8. ASSUME NEW i \in 1 .. m, c[i - 1] = a[i - 1] PROVE c[i] = a[i]
    BY <1>1, <1>4, <1>6, <1>8 DEF Absorbed
  <1>9. c[0] = a[0]
    BY <1>1, <1>4, <1>6 DEF Absorbed
  <1>10. c[m] = a[m]
    <2> HIDE DEF m, Rec, step
    <2> DEFINE S == {i \in 0 .. m : c[i] = a[i]}
    <2>1. 0 \in S /\ \A i \in 1 .. m : i - 1 \in S => i \in S
      BY <1>1, <1>8, <1>9
    <2> HIDE DEF S
    <2>3. \A i \in 0 .. m : i \in S
      BY <1>1, <2>1, UpTo
    <2>2. m \in 0 .. m
      BY <1>1
    <2> QED BY <2>2, <2>3 DEF S
  <1> QED BY <1>4, <1>7, <1>10

-----------------------------------------------------------------------------
(* Responses *)

\* The path step after p: the next part of its leg, or the first of the next.
NextPart(p, q) ==
    IF p.part < p.parts THEN q.leg = p.leg /\ q.part = p.part + 1
    ELSE q.leg = p.leg + 1 /\ q.part = 1

\* A part of a leg from lo to k, with its mark.
PartOf(p, lo, k, parts, marked) ==
    /\ p \in PathSteps /\ p.leg \in lo .. k
    /\ p.parts = parts[p.leg] /\ p.part \in 1 .. p.parts
    /\ p.mark = (p.part = p.parts /\ p.leg \in marked)

\* path drives through all parts of the legs lo..k in their order.
Drives(path, lo, k, parts, marked) ==
    /\ path \in Seq(PathSteps)
    /\ Len(path) > 0 /\ path[1].leg = lo /\ path[1].part = 1
    /\ path[Len(path)].leg = k /\ path[Len(path)].part = parts[k]
    /\ \A i \in 1 .. Len(path) : PartOf(path[i], lo, k, parts, marked)
    /\ \A i \in 1 .. Len(path) - 1 : NextPart(path[i], path[i + 1])

\* The path steps of leg k.
Block(k, parts, marked) ==
    [p \in 1 .. parts[k] |-> PathStep(k, p, parts[k], p = parts[k] /\ k \in marked)]

LEMMA BlockDrives ==
  ASSUME NEW lo \in Nat, NEW hi \in Nat, NEW parts \in [lo .. hi -> 1 .. MaxParts],
         NEW marked, NEW k \in lo .. hi
  PROVE  Drives(Block(k, parts, marked), k, k, parts, marked)
  <1> DEFINE b == Block(k, parts, marked)
  <1>1. parts[k] \in Nat \ {0}
    BY PlannerAssumption
  <1>2. \A p \in 1 .. parts[k] :
           PathStep(k, p, parts[k], p = parts[k] /\ k \in marked) \in PathSteps
    BY <1>1 DEF PathStep, PathSteps
  <1>3. b \in Seq(PathSteps) /\ Len(b) = parts[k]
    BY <1>1, <1>2 DEF Block
  <1>4. \A p \in 1 .. parts[k] :
           /\ b[p].leg = k /\ b[p].part = p /\ b[p].parts = parts[k]
           /\ b[p].mark = (p = parts[k] /\ k \in marked)
    BY DEF Block, PathStep
  <1>5. \A p \in 1 .. parts[k] : b[p] \in PathSteps
    BY <1>1, <1>3
  <1> HIDE DEF b
  <1>6. Drives(b, k, k, parts, marked)
    BY <1>1, <1>3, <1>4, <1>5 DEF Drives, PartOf, NextPart
  <1> QED BY <1>6 DEF b

LEMMA DrivesOn ==
  ASSUME NEW lo \in Nat, NEW k \in Nat, lo <= k, NEW parts, NEW marked,
         NEW s, Drives(s, lo, k, parts, marked),
         NEW b, Drives(b, k + 1, k + 1, parts, marked)
  PROVE  Drives(s \o b, lo, k + 1, parts, marked)
  <1> DEFINE t == s \o b
             m == Len(s)
             l == Len(b)
  <1>1. /\ s \in Seq(PathSteps) /\ b \in Seq(PathSteps)
        /\ m \in Nat \ {0} /\ l \in Nat \ {0}
    BY DEF Drives
  <1>2. t \in Seq(PathSteps) /\ Len(t) = m + l
    BY <1>1
  <1>3. /\ \A i \in 1 .. m : t[i] = s[i]
        /\ \A i \in 1 .. l : t[m + i] = b[i]
    BY <1>1
  <1>4. \A i \in 1 .. m + l : i \in 1 .. m \/ (i - m \in 1 .. l /\ i = m + (i - m))
    BY <1>1
  <1> HIDE DEF t
  <1>5. t[1].leg = lo /\ t[1].part = 1
    BY <1>1, <1>3 DEF Drives
  <1>6. t[m + l].leg = k + 1 /\ t[m + l].part = parts[k + 1]
    BY <1>1, <1>3 DEF Drives
  <1>7. ASSUME NEW i \in 1 .. m + l PROVE PartOf(t[i], lo, k + 1, parts, marked)
    <2>1. CASE i \in 1 .. m
      <3>1. PartOf(s[i], lo, k, parts, marked) /\ t[i] = s[i]
        BY <1>3, <2>1 DEF Drives
      <3> QED BY <3>1 DEF PartOf
    <2>2. CASE i - m \in 1 .. l /\ i = m + (i - m)
      <3>1. PartOf(b[i - m], k + 1, k + 1, parts, marked)
        BY <2>2 DEF Drives
      <3>2. t[i] = b[i - m]
        BY <1>3, <2>2
      <3> QED BY <3>1, <3>2 DEF PartOf
    <2> QED BY <1>4, <2>1, <2>2
  <1>8. ASSUME NEW i \in 1 .. m + l - 1 PROVE NextPart(t[i], t[i + 1])
    <2>1. CASE i \in 1 .. m - 1
      <3>0. i \in 1 .. m /\ i + 1 \in 1 .. m
        BY <1>1, <2>1
      <3>1. t[i] = s[i] /\ t[i + 1] = s[i + 1]
        BY <1>3, <3>0
      <3> QED BY <2>1, <3>1 DEF Drives
    <2>2. CASE i = m
      <3>1. t[i] = s[m] /\ t[i + 1] = b[1]
        BY <1>1, <1>3, <2>2
      <3>2. s[m].leg = k /\ s[m].part = parts[k] /\ PartOf(s[m], lo, k, parts, marked)
        BY <1>1 DEF Drives
      <3>3. s[m].parts = parts[k] /\ s[m].part \in Int
        BY <3>2 DEF PartOf
      <3>4. b[1].leg = k + 1 /\ b[1].part = 1
        BY DEF Drives
      <3>5. ~(s[m].part < s[m].parts)
        BY <3>2, <3>3
      <3> QED BY <3>1, <3>2, <3>4, <3>5 DEF NextPart
    <2>3. CASE i \in m + 1 .. m + l - 1
      <3>1. i - m \in 1 .. l - 1 /\ i = m + (i - m) /\ i + 1 = m + ((i - m) + 1)
            /\ (i - m) + 1 \in 1 .. l /\ i - m \in 1 .. l
        BY <1>1, <2>3
      <3>2. t[i] = b[i - m] /\ t[i + 1] = b[(i - m) + 1]
        BY <1>3, <3>1
      <3> QED BY <3>1, <3>2 DEF Drives
    <2> QED BY <1>1, <2>1, <2>2, <2>3
  <1>9. Drives(t, lo, k + 1, parts, marked)
    BY <1>1, <1>2, <1>5, <1>6, <1>7, <1>8 DEF Drives
  <1> QED BY <1>9 DEF t

\* What a response adds: one path step after the last arrival, or nothing.
Rest(hi, beyond) == IF beyond THEN <<PathStep(0, hi, 1, FALSE)>> ELSE <<>>

Driven(path, lo, hi, parts, marked, beyond) ==
    \E s : Drives(s, lo, hi, parts, marked) /\ path = s \o Rest(hi, beyond)

LEMMA ResponseDrives ==
  ASSUME NEW lo \in Nat, NEW hi \in Nat, lo <= hi,
         NEW parts \in [lo .. hi -> 1 .. MaxParts], NEW marked, NEW beyond \in BOOLEAN
  PROVE  Driven(Response(lo, hi, parts, marked, beyond), lo, hi, parts, marked, beyond)
  <1> DEFINE m == hi - lo + 1
             ss == [i \in 1 .. m |-> Block(lo + i - 1, parts, marked)]
  <1>1. m \in Nat \ {0} /\ \A i \in 1 .. m : lo + i - 1 \in lo .. hi
    OBVIOUS
  <1>2. ASSUME NEW i \in 1 .. m
        PROVE  Drives(ss[i], lo + i - 1, lo + i - 1, parts, marked)
    BY <1>1, BlockDrives
  <1>3. \A i \in 1 .. m : ss[i] \in Seq(PathSteps)
    <2> HIDE DEF ss, m
    <2> QED BY <1>2 DEF Drives
  <1>4. ss \in Seq(Seq(PathSteps)) /\ Len(ss) = m
    BY <1>1, <1>3
  <1>5. Response(lo, hi, parts, marked, beyond) = FlattenSeq(ss) \o Rest(hi, beyond)
    BY DEF Response, Rest, Block
  <1> HIDE DEF ss, m
  <1>6. PICK f : Joined(f, ss, PathSteps) /\ FlattenSeq(ss) = f[m]
    BY <1>4, FlattenJoins
  <1> DEFINE S == {0} \cup {k \in 1 .. m : Drives(f[k], lo, lo + k - 1, parts, marked)}
  <1>7. ASSUME NEW k \in 1 .. m, k - 1 \in S PROVE k \in S
    <2>1. f[k] = f[k - 1] \o ss[k]
      BY <1>4, <1>6 DEF Joined
    <2>2. CASE k = 1
      <3>0. f[k - 1] = <<>> /\ ss[k] \in Seq(PathSteps)
        BY <1>3, <1>6, <2>2 DEF Joined
      <3>1. f[1] = ss[1]
        BY <2>1, <2>2, <3>0
      <3> QED BY <1>2, <2>2, <3>1
    <2>3. CASE k # 1
      <3>1. Drives(f[k - 1], lo, lo + k - 2, parts, marked)
        BY <1>1, <1>7, <2>3
      <3>2. Drives(ss[k], (lo + k - 2) + 1, (lo + k - 2) + 1, parts, marked)
        BY <1>1, <1>2
      <3>3. lo + k - 2 \in Nat /\ lo <= lo + k - 2 /\ (lo + k - 2) + 1 = lo + k - 1
        BY <1>1, <2>3
      <3>4. Drives(f[k - 1] \o ss[k], lo, (lo + k - 2) + 1, parts, marked)
        BY <3>1, <3>2, <3>3, DrivesOn
      <3> QED BY <2>1, <3>3, <3>4
    <2> QED BY <2>2, <2>3
  <1>8. m \in S
    <2> HIDE DEF S
    <2>1. 0 \in S
      BY DEF S
    <2>2. \A k \in 0 .. m : k \in S
      BY <1>1, <1>7, <2>1, UpTo
    <2> QED BY <1>1, <2>2
  <1>9. Drives(f[m], lo, hi, parts, marked)
    <2>1. lo + m - 1 = hi
      BY DEF m
    <2> QED BY <1>1, <1>8, <2>1
  <1> QED BY <1>5, <1>6, <1>9 DEF Driven

\* No path step comes twice on a way.
LEMMA DrivesForward ==
  ASSUME NEW lo \in Nat, NEW hi \in Nat, NEW parts, NEW marked,
         NEW s, Drives(s, lo, hi, parts, marked)
  PROVE  \A i, j \in 1 .. Len(s) : i < j =>
            s[i].leg < s[j].leg \/ (s[i].leg = s[j].leg /\ s[i].part < s[j].part)
  <1> DEFINE Before(p, q) == p.leg < q.leg \/ (p.leg = q.leg /\ p.part < q.part)
             m == Len(s)
             S == {0} \cup {j \in 1 .. m : \A i \in 1 .. m : i < j => Before(s[i], s[j])}
  <1>1. m \in Nat /\ \A i \in 1 .. m : /\ s[i].leg \in Nat /\ s[i].part \in Nat
                                       /\ s[i].part <= s[i].parts /\ s[i].parts \in Int
    <2>1. m \in Nat /\ \A i \in 1 .. m : PartOf(s[i], lo, hi, parts, marked)
      BY DEF Drives
    <2> QED BY <2>1 DEF PartOf, PathSteps
  <1>2. ASSUME NEW j \in 1 .. m, j - 1 \in S PROVE j \in S
    <2>1. ASSUME NEW i \in 1 .. m, i < j PROVE Before(s[i], s[j])
      <3>1. j - 1 \in 1 .. m - 1 /\ j - 1 \in 1 .. m /\ (j - 1) + 1 = j
        BY <1>1, <2>1
      <3>2. NextPart(s[j - 1], s[j])
        BY <3>1 DEF Drives
      <3>3. Before(s[j - 1], s[j])
        BY <1>1, <3>1, <3>2 DEF NextPart
      <3>4. CASE i = j - 1
        BY <3>3, <3>4
      <3>5. CASE i < j - 1
        <4>1. Before(s[i], s[j - 1])
          BY <1>2, <2>1, <3>1, <3>5, SMTT(30)
        <4>2. /\ s[i].leg \in Nat /\ s[j - 1].leg \in Nat /\ s[j].leg \in Nat
              /\ s[i].part \in Nat /\ s[j - 1].part \in Nat /\ s[j].part \in Nat
          BY <1>1, <3>1
        <4> QED BY <3>3, <4>1, <4>2, SMTT(30)
      <3> QED BY <1>1, <2>1, <3>4, <3>5
    <2> QED BY <2>1
  <1>3. \A j \in 0 .. m : j \in S
    <2> HIDE DEF S
    <2>1. 0 \in S
      BY DEF S
    <2> QED BY <1>1, <1>2, <2>1, UpTo
  <1>4. ASSUME NEW i \in 1 .. m, NEW j \in 1 .. m, i < j PROVE Before(s[i], s[j])
    <2>1. j \in S /\ j # 0
      BY <1>1, <1>3
    <2> QED BY <1>4, <2>1
  <1> QED BY <1>4

-----------------------------------------------------------------------------
(* What toResult makes of a response *)

\* Steps for the first legs from lo on, which share no path step of paid.
Taken(acc, paid, lo, hi) ==
    /\ Len(acc.steps) <= hi - lo + 1
    /\ \A m \in 1 .. Len(acc.steps) :
          acc.steps[m].leg = lo + m - 1 /\ acc.steps[m].of \subseteq paid
    /\ \A m, k \in 1 .. Len(acc.steps) :
          m # k => acc.steps[m].of \cap acc.steps[k].of = {}

LEMMA TakenOn ==
  ASSUME NEW acc \in Accounts, NEW lo \in Nat, NEW hi \in Nat, NEW paid,
         Taken(acc, paid, lo, hi), NEW p \in PathSteps, p \notin paid
  PROVE  Taken(Absorb(acc, p, lo, hi), paid \cup {p}, lo, hi)
  <1> DEFINE s == acc.steps
             t == Absorb(acc, p, lo, hi).steps
             m == Len(s)
  <1>1. s \in Seq(LegSteps) /\ m \in Nat /\ \A k \in 1 .. m : s[k] \in LegSteps
    BY DEF Accounts
  <1>2. CASE Continues(acc)
    <2>1. m \in 1 .. m
      BY <1>1, <1>2 DEF Continues
    <2>2. t = [s EXCEPT ![m].of = @ \cup {p}]
      BY <1>2 DEF Absorb
    <2>3. Len(t) = m /\ \A k \in 1 .. m : t[k] = IF k = m THEN [s[m] EXCEPT !.of = @ \cup {p}]
                                                ELSE s[k]
      BY <1>1, <2>1, <2>2
    <2>4. \A k \in 1 .. m : /\ t[k].leg = s[k].leg
                            /\ t[k].of = IF k = m THEN s[m].of \cup {p} ELSE s[k].of
      BY <1>1, <2>1, <2>3 DEF LegSteps
    <2>5. \A k \in 1 .. m : p \notin s[k].of
      BY DEF Taken
    <2> HIDE DEF s, t
    <2>6. /\ m <= hi - lo + 1
          /\ \A k \in 1 .. m : s[k].leg = lo + k - 1 /\ s[k].of \subseteq paid
          /\ \A j, k \in 1 .. m : j # k => s[j].of \cap s[k].of = {}
      BY DEF Taken, s
    <2>7. /\ Len(t) <= hi - lo + 1
          /\ \A k \in 1 .. Len(t) : t[k].leg = lo + k - 1 /\ t[k].of \subseteq paid \cup {p}
      BY <2>3, <2>4, <2>6
    <2>8. \A j, k \in 1 .. Len(t) : j # k => t[j].of \cap t[k].of = {}
      <3>1. ASSUME NEW j \in 1 .. m, NEW k \in 1 .. m, j # k
            PROVE  t[j].of \cap t[k].of = {}
        <4>1. s[j].of \cap s[k].of = {} /\ p \notin s[j].of /\ p \notin s[k].of
          BY <2>5, <2>6, <3>1
        <4>2. t[j].of \subseteq s[j].of \cup {p} /\ t[k].of \subseteq s[k].of \cup {p}
          BY <2>4
        <4>3. t[j].of = s[j].of \/ t[k].of = s[k].of
          BY <2>4, <3>1
        <4> QED BY <4>1, <4>2, <4>3
      <3> QED BY <2>3, <3>1
    <2> QED BY <2>7, <2>8 DEF Taken, t
  <1>3. CASE ~Continues(acc) /\ m < hi - lo + 1
    <2> DEFINE x == LegStep(lo + m, {p}, "provider")
    <2>1. t = Append(s, x)
      BY <1>3 DEF Absorb
    <2>2. Len(t) = m + 1 /\ \A k \in 1 .. m + 1 : t[k] = IF k = m + 1 THEN x ELSE s[k]
      BY <1>1, <2>1
    <2>3. x.leg = lo + m /\ x.of = {p}
      BY DEF LegStep
    <2> HIDE DEF x, s, t
    <2>4. /\ \A k \in 1 .. m : s[k].leg = lo + k - 1 /\ s[k].of \subseteq paid
          /\ \A j, k \in 1 .. m : j # k => s[j].of \cap s[k].of = {}
      BY DEF Taken, s
    <2>a. Len(t) <= hi - lo + 1
      BY <1>1, <1>3, <2>2
    <2>b. ASSUME NEW k \in 1 .. Len(t)
          PROVE  t[k].leg = lo + k - 1 /\ t[k].of \subseteq paid \cup {p}
      <3>1. CASE k = m + 1
        <4>1. t[k] = x /\ lo + m = lo + k - 1
          BY <1>1, <2>2, <3>1
        <4> QED BY <2>3, <4>1
      <3>2. CASE k # m + 1
        <4>1. k \in 1 .. m /\ t[k] = s[k]
          BY <1>1, <2>2, <3>2
        <4> QED BY <2>4, <4>1
      <3> QED BY <3>1, <3>2
    <2>5. /\ Len(t) <= hi - lo + 1
          /\ \A k \in 1 .. Len(t) : t[k].leg = lo + k - 1 /\ t[k].of \subseteq paid \cup {p}
      BY <2>a, <2>b
    <2>6. ASSUME NEW j \in 1 .. Len(t), NEW k \in 1 .. Len(t), j # k
          PROVE  t[j].of \cap t[k].of = {}
      <3>1. CASE j = m + 1
        <4>1. k \in 1 .. m /\ t[k] = s[k] /\ t[j].of = {p}
          BY <1>1, <2>2, <2>3, <2>6, <3>1
        <4> QED BY <2>4, <4>1
      <3>2. CASE k = m + 1
        <4>1. j \in 1 .. m /\ t[j] = s[j] /\ t[k].of = {p}
          BY <1>1, <2>2, <2>3, <2>6, <3>2
        <4> QED BY <2>4, <4>1
      <3>3. CASE j # m + 1 /\ k # m + 1
        <4>1. j \in 1 .. m /\ k \in 1 .. m /\ t[j] = s[j] /\ t[k] = s[k]
          BY <1>1, <2>2, <3>3
        <4> QED BY <2>4, <2>6, <4>1
      <3> QED BY <3>1, <3>2, <3>3
    <2> QED BY <2>5, <2>6 DEF Taken, t
  <1>4. CASE ~Continues(acc) /\ ~(m < hi - lo + 1)
    <2>1. t = s
      BY <1>4 DEF Absorb
    <2> HIDE DEF t
    <2>2. Absorb(acc, p, lo, hi).steps = acc.steps
      BY <2>1 DEF t
    <2> QED BY <2>2 DEF Taken
  <1> QED BY <1>2, <1>3, <1>4

\* What a leg costs: all parts into which the provider divided it.
Whole(s) == /\ \A p \in s.of : p.leg = s.leg
            /\ \E p \in s.of : Cardinality(s.of) = p.parts

\* All marks were there so far, and p was the last path step.
ReadUpTo(acc, p, lo) ==
    LET m == Len(acc.steps)
        of == acc.steps[m].of
    IN  /\ m = p.leg - lo + 1
        /\ acc.arrived = (p.part = p.parts)
        /\ \A k \in 1 .. m - 1 : Whole(acc.steps[k])
        /\ IsFiniteSet(of) /\ Cardinality(of) = p.part
        /\ p \in of
        /\ \A q \in of : q.leg = p.leg /\ q.part <= p.part

LEMMA ReadFirst ==
  ASSUME NEW lo \in Nat, NEW hi \in Nat, lo <= hi, NEW parts,
         NEW q, PartOf(q, lo, hi, parts, lo .. hi), q.leg = lo, q.part = 1
  PROVE  ReadUpTo(Absorb(Start, q, lo, hi), q, lo)
  <1> DEFINE x == LegStep(lo + 0, {q}, "provider")
  <1>1. ~Continues(Start) /\ Start.steps = <<>> /\ Len(<<>>) = 0 /\ 0 < hi - lo + 1
    BY DEF Start, Continues
  <1>2. Absorb(Start, q, lo, hi) = [steps |-> Append(<<>>, x), arrived |-> q.mark]
    BY <1>1 DEF Absorb
  <1>3. Append(<<>>, x) = <<x>>
    OBVIOUS
  <1>4. x.of = {q}
    BY DEF LegStep
  <1>5. IsFiniteSet({q}) /\ Cardinality({q}) = 1
    BY FS_Singleton
  <1>6. q.mark = (q.part = q.parts) /\ q.part \in Int
    BY DEF PartOf
  <1> HIDE DEF x
  <1>7. Len(<<x>>) = 1 /\ <<x>>[1] = x
    OBVIOUS
  <1> DEFINE acc == [steps |-> <<x>>, arrived |-> (q.part = q.parts)]
  <1>8. acc.steps = <<x>> /\ acc.arrived = (q.part = q.parts)
    OBVIOUS
  <1>9. Absorb(Start, q, lo, hi) = acc
    BY <1>2, <1>3, <1>6
  <1>10. q.leg - lo + 1 = 1
    BY DEF PartOf
  <1> HIDE DEF acc
  <1>11. ReadUpTo(acc, q, lo)
    <2>1. Len(acc.steps) = 1 /\ acc.steps[1].of = {q}
      BY <1>4, <1>7, <1>8
    <2> DEFINE m == Len(acc.steps)
               of == acc.steps[m].of
    <2>2. m = 1 /\ of = {q}
      BY <2>1
    <2> HIDE DEF m, of
    <2>3. /\ m = q.leg - lo + 1 /\ 1 .. m - 1 = {}
          /\ IsFiniteSet(of) /\ Cardinality(of) = q.part /\ q \in of
          /\ \A x1 \in of : x1.leg = q.leg /\ x1.part <= q.part
      BY <1>5, <1>6, <1>10, <2>2
    <2> QED BY <1>8, <2>3 DEF ReadUpTo, m, of
  <1> QED BY <1>9, <1>11

LEMMA ReadOn ==
  ASSUME NEW acc \in Accounts, NEW lo \in Nat, NEW hi \in Nat, NEW parts, NEW paid,
         Taken(acc, paid, lo, hi),
         NEW p, PartOf(p, lo, hi, parts, lo .. hi), ReadUpTo(acc, p, lo),
         NEW q, PartOf(q, lo, hi, parts, lo .. hi), NextPart(p, q)
  PROVE  ReadUpTo(Absorb(acc, q, lo, hi), q, lo)
  <1> DEFINE s == acc.steps
             m == Len(s)
             t == Absorb(acc, q, lo, hi).steps
  <1>1. s \in Seq(LegSteps) /\ m \in Nat /\ \A k \in 1 .. m : s[k] \in LegSteps
    BY DEF Accounts
  <1>2. /\ p.leg \in lo .. hi /\ p.part \in Nat \ {0} /\ p.parts \in Nat /\ p.part <= p.parts
        /\ p.parts = parts[p.leg]
        /\ q.leg \in lo .. hi /\ q.part \in Nat \ {0} /\ q.parts = parts[q.leg] /\ q.parts \in Nat
        /\ q.mark = (q.part = q.parts)
    BY DEF PartOf, PathSteps
  <1>3. /\ m = p.leg - lo + 1 /\ m \in 1 .. m
        /\ acc.arrived = (p.part = p.parts)
        /\ \A k \in 1 .. m - 1 : Whole(s[k])
        /\ IsFiniteSet(s[m].of) /\ Cardinality(s[m].of) = p.part
        /\ p \in s[m].of
        /\ \A x \in s[m].of : x.leg = p.leg /\ x.part <= p.part
    BY <1>1, <1>2 DEF ReadUpTo
  <1>4. Absorb(acc, q, lo, hi).arrived = (q.part = q.parts)
    BY <1>2 DEF Absorb
  <1>5. CASE p.part < p.parts
    <2>0. s # <<>> /\ ~(p.part = p.parts)
      BY <1>1, <1>2, <1>3, <1>5
    <2>1. Continues(acc) /\ q.leg = p.leg /\ q.part = p.part + 1
      BY <1>3, <1>5, <2>0 DEF Continues, NextPart
    <2>2. t = [s EXCEPT ![m].of = @ \cup {q}]
      BY <2>1 DEF Absorb
    <2>3. Len(t) = m /\ \A k \in 1 .. m : t[k] = IF k = m THEN [s[m] EXCEPT !.of = @ \cup {q}]
                                                ELSE s[k]
      BY <1>1, <1>3, <2>2
    <2>4. t[m].of = s[m].of \cup {q}
      BY <1>1, <1>3, <2>3 DEF LegSteps
    <2>5. q \notin s[m].of
      BY <1>2, <1>3, <2>1
    <2>6. IsFiniteSet(t[m].of) /\ Cardinality(t[m].of) = p.part + 1
      <3> DEFINE of == s[m].of
      <3>1. IsFiniteSet(of) /\ q \notin of /\ Cardinality(of) = p.part /\ t[m].of = of \cup {q}
        BY <1>3, <2>4, <2>5
      <3> HIDE DEF of, t, m, s
      <3>2. IsFiniteSet(of \cup {q}) /\ Cardinality(of \cup {q}) = Cardinality(of) + 1
        BY <3>1, FS_AddElement
      <3> QED BY <3>1, <3>2
    <2>7. \A k \in 1 .. m - 1 : t[k] = s[k]
      BY <1>1, <2>3
    <2>8. \A x \in t[m].of : x.leg = q.leg /\ x.part <= q.part
      <3>1. \A x \in s[m].of : x.part \in Int
        <4>1. \A x \in s[m].of : x \in PathSteps
          BY <1>1, <1>3 DEF LegSteps
        <4> QED BY <4>1 DEF PathSteps
      <3> QED BY <1>2, <1>3, <2>1, <2>4, <3>1
    <2> HIDE DEF t
    <2>9. ReadUpTo([steps |-> t, arrived |-> (q.part = q.parts)], q, lo)
      BY <1>3, <2>1, <2>3, <2>4, <2>6, <2>7, <2>8 DEF ReadUpTo
    <2> QED BY <1>4, <2>9 DEF ReadUpTo, t
  <1>6. CASE ~(p.part < p.parts)
    <2>0. p.part = p.parts
      BY <1>2, <1>6
    <2>1. p.part = p.parts /\ ~Continues(acc) /\ q.leg = p.leg + 1 /\ q.part = 1
      BY <1>3, <1>6, <2>0 DEF Continues, NextPart
    <2> DEFINE x == LegStep(lo + m, {q}, "provider")
    <2>2. m < hi - lo + 1
      BY <1>2, <1>3, <2>1
    <2>3. t = Append(s, x)
      BY <2>1, <2>2 DEF Absorb
    <2>4. Len(t) = m + 1 /\ \A k \in 1 .. m + 1 : t[k] = IF k = m + 1 THEN x ELSE s[k]
      BY <1>1, <2>3
    <2>5. x.of = {q}
      BY DEF LegStep
    <2> HIDE DEF x
    <2>6. t[m + 1].of = {q} /\ \A k \in 1 .. m : t[k] = s[k]
      BY <1>1, <2>4, <2>5
    <2>7. IsFiniteSet({q}) /\ Cardinality({q}) = 1
      BY FS_Singleton
    <2>8. Whole(s[m])
      <3>1. s[m].leg = p.leg
        <4>1. s[m].leg = lo + m - 1
          BY <1>3 DEF Taken
        <4> QED BY <1>2, <1>3, <4>1
      <3>2. /\ p \in s[m].of /\ Cardinality(s[m].of) = p.parts
            /\ \A y \in s[m].of : y.leg = s[m].leg
        BY <1>3, <2>0, <3>1
      <3> HIDE DEF s, m
      <3> QED BY <3>2 DEF Whole
    <2>9. ASSUME NEW k \in 1 .. m PROVE Whole(t[k])
      <3>1. k = m \/ k \in 1 .. m - 1
        BY <1>1
      <3> QED BY <1>3, <2>6, <2>8, <3>1
    <2> HIDE DEF t
    <2>10. ReadUpTo([steps |-> t, arrived |-> (q.part = q.parts)], q, lo)
      <3>1. (m + 1) - 1 = m /\ q.leg - lo + 1 = m + 1 /\ 1 <= q.part
        BY <1>1, <1>2, <1>3, <2>1, SMTT(30)
      <3> QED BY <2>1, <2>4, <2>6, <2>7, <2>9, <3>1 DEF ReadUpTo
    <2> QED BY <1>4, <2>10 DEF ReadUpTo, t
  <1> QED BY <1>5, <1>6

-----------------------------------------------------------------------------
(* The steps of a packet *)

\* What a goroutine puts in its place: steps for the first legs of its packet.
Right(steps, lo, hi, clean) ==
    /\ steps \in Seq(LegSteps)
    /\ Len(steps) <= hi - lo + 1
    /\ \A m \in 1 .. Len(steps) : steps[m].leg = lo + m - 1
    /\ clean => Len(steps) = hi - lo + 1
    /\ \A m, k \in 1 .. Len(steps) : m # k => steps[m].of \cap steps[k].of = {}
    /\ \A m \in 1 .. Len(steps) : \A p \in steps[m].of :
          p.leg \in lo .. hi \/ (p.leg = 0 /\ p.part = hi)
    /\ clean => \A m \in 1 .. Len(steps) : steps[m].src = "provider" => Whole(steps[m])

LEMMA NothingRight ==
  ASSUME NEW lo \in Nat, NEW hi \in Int, lo = hi + 1
  PROVE  Right(<<>>, lo, hi, TRUE)
  BY DEF Right

LEMMA EstimatesRight ==
  ASSUME NEW lo \in Nat, NEW hi \in Nat, lo <= hi
  PROVE  Right(Estimates(lo, hi), lo, hi, TRUE)
  <1> DEFINE e == Estimates(lo, hi)
  <1>1. \A i \in 1 .. hi - lo + 1 : LegStep(lo + i - 1, {}, "fallback") \in LegSteps
    BY DEF LegStep, LegSteps
  <1>2. e \in Seq(LegSteps) /\ Len(e) = hi - lo + 1
    BY <1>1 DEF Estimates
  <1>3. \A i \in 1 .. hi - lo + 1 : e[i].leg = lo + i - 1 /\ e[i].of = {} /\ e[i].src = "fallback"
    BY DEF Estimates, LegStep
  <1> HIDE DEF e
  <1>4. Right(e, lo, hi, TRUE)
    BY <1>2, <1>3 DEF Right
  <1> QED BY <1>4 DEF e

\* The path steps of a response, with the one that may exceed the route.
Path(s, hi, beyond) == s \o Rest(hi, beyond)

Forward(path, s, lo, hi, beyond) ==
    /\ path \in Seq(PathSteps)
    /\ Len(path) = IF beyond THEN Len(s) + 1 ELSE Len(s)
    /\ \A i \in 1 .. Len(s) : path[i] = s[i]
    /\ beyond => path[Len(s) + 1] = PathStep(0, hi, 1, FALSE)
    /\ \A i, j \in 1 .. Len(path) : i < j => path[i] # path[j]
    /\ \A i \in 1 .. Len(path) : \/ path[i].leg \in lo .. hi
                                 \/ path[i].leg = 0 /\ path[i].part = hi

LEMMA PathForward ==
  ASSUME NEW lo \in Nat \ {0}, NEW hi \in Nat, lo <= hi, NEW parts, NEW marked,
         NEW s, Drives(s, lo, hi, parts, marked), NEW beyond \in BOOLEAN
  PROVE  Forward(Path(s, hi, beyond), s, lo, hi, beyond)
  <1> DEFINE path == Path(s, hi, beyond)
             x == PathStep(0, hi, 1, FALSE)
             m == Len(s)
  <1>1. s \in Seq(PathSteps) /\ m \in Nat
        /\ \A i \in 1 .. m : s[i].leg \in lo .. hi
    BY DEF Drives, PartOf
  <1>2. x \in PathSteps /\ x.leg = 0 /\ x.part = hi
    BY DEF PathStep, PathSteps
  <1>3. \A i, j \in 1 .. m : i < j => s[i] # s[j]
    <2>1. \A i \in 1 .. m : s[i] \in PathSteps
      BY <1>1
    <2>2. \A i \in 1 .. m : s[i].leg \in Int /\ s[i].part \in Int
      BY <2>1 DEF PathSteps
    <2> QED BY <2>2, DrivesForward
  <1> HIDE DEF x
  <1>4. CASE beyond
    <2>1. path = s \o <<x>>
      BY <1>4 DEF Path, Rest, x
    <2>2. path \in Seq(PathSteps) /\ Len(path) = m + 1
      BY <1>1, <1>2, <2>1
    <2>3. \A i \in 1 .. m + 1 : path[i] = IF i = m + 1 THEN x ELSE s[i]
      BY <1>1, <1>2, <2>1
    <2> HIDE DEF path, m
    <2>4. ASSUME NEW i \in 1 .. Len(path), NEW j \in 1 .. Len(path), i < j
          PROVE  path[i] # path[j]
      <3>1. i \in 1 .. m /\ path[i] = s[i]
        BY <1>1, <2>2, <2>3, <2>4
      <3>2. (j \in 1 .. m /\ path[j] = s[j]) \/ path[j] = x
        BY <1>1, <2>2, <2>3
      <3>3. s[i].leg # x.leg
        BY <1>1, <1>2, <3>1
      <3> QED BY <1>3, <2>4, <3>1, <3>2, <3>3
    <2>5. ASSUME NEW i \in 1 .. Len(path)
          PROVE  path[i].leg \in lo .. hi \/ (path[i].leg = 0 /\ path[i].part = hi)
      <3>1. (i \in 1 .. m /\ path[i] = s[i]) \/ path[i] = x
        BY <1>1, <2>2, <2>3
      <3> QED BY <1>1, <1>2, <3>1
    <2>6. path[m + 1] = x /\ \A i \in 1 .. m : path[i] = s[i]
      BY <1>1, <2>3
    <2> QED BY <1>4, <2>2, <2>4, <2>5, <2>6 DEF path, x, m, Forward
  <1>5. CASE ~beyond
    <2>1. path = s
      BY <1>1, <1>5 DEF Path, Rest
    <2> HIDE DEF path
    <2>2. /\ path \in Seq(PathSteps)
          /\ Len(path) = Len(s)
          /\ \A i \in 1 .. Len(s) : path[i] = s[i]
          /\ \A i, j \in 1 .. Len(path) : i < j => path[i] # path[j]
          /\ \A i \in 1 .. Len(path) : path[i].leg \in lo .. hi
      BY <1>1, <1>3, <2>1
    <2> QED BY <1>5, <2>2 DEF path, Forward
  <1> QED BY <1>4, <1>5

\* Whatever marks the provider leaves out.
LEMMA AllTaken ==
  ASSUME NEW lo \in Nat \ {0}, NEW hi \in Nat, lo <= hi,
         NEW path \in Seq(PathSteps), \A i, j \in 1 .. Len(path) : i < j => path[i] # path[j],
         NEW a, Absorbed(a, path, lo, hi)
  PROVE  \A j \in 0 .. Len(path) : Taken(a[j], {path[i] : i \in 1 .. j}, lo, hi)
  <1> DEFINE m == Len(path)
             Paid(j) == {path[i] : i \in 1 .. j}
             S == {j \in 0 .. m : Taken(a[j], Paid(j), lo, hi)}
  <1>1. m \in Nat
    OBVIOUS
  <1>2. 0 \in S
    BY <1>1 DEF Absorbed, Start, Taken
  <1>3. ASSUME NEW j \in 1 .. m, j - 1 \in S PROVE j \in S
    <2>1. a[j - 1] \in Accounts /\ a[j] = Absorb(a[j - 1], path[j], lo, hi) /\ path[j] \in PathSteps
      <3>1. j - 1 \in 0 .. m
        BY <1>1
      <3> QED BY <3>1 DEF Absorbed
    <2>2. path[j] \notin Paid(j - 1)
      BY <1>1
    <2>3. Paid(j) = Paid(j - 1) \cup {path[j]}
      <3>1. 1 .. j = (1 .. j - 1) \cup {j}
        BY <1>1
      <3> QED BY <3>1
    <2>4. Taken(a[j - 1], Paid(j - 1), lo, hi)
      BY <1>3
    <2> HIDE DEF Paid
    <2>5. Taken(Absorb(a[j - 1], path[j], lo, hi), Paid(j - 1) \cup {path[j]}, lo, hi)
      BY <2>1, <2>2, <2>4, TakenOn
    <2>6. j \in 0 .. m
      BY <1>1
    <2> HIDE DEF m
    <2> QED BY <2>1, <2>3, <2>5, <2>6
  <1>4. \A j \in 0 .. m : j \in S
    <2> HIDE DEF S
    <2> QED BY <1>1, <1>2, <1>3, UpTo
  <1> QED BY <1>4

\* With all marks there.
LEMMA AllRead ==
  ASSUME NEW lo \in Nat \ {0}, NEW hi \in Nat, lo <= hi, NEW parts,
         NEW s, Drives(s, lo, hi, parts, lo .. hi), NEW beyond \in BOOLEAN,
         NEW a, Absorbed(a, Path(s, hi, beyond), lo, hi)
  PROVE  ReadUpTo(a[Len(s)], s[Len(s)], lo)
  <1> DEFINE path == Path(s, hi, beyond)
             m == Len(s)
             S == {0} \cup {j \in 1 .. m : ReadUpTo(a[j], s[j], lo)}
  <1>0. Forward(path, s, lo, hi, beyond)
    BY PathForward
  <1>1. m \in Nat \ {0} /\ \A i \in 1 .. m : path[i] = s[i] /\ i \in 1 .. Len(path)
    <2>1. m \in Nat \ {0}
      BY DEF Drives
    <2> HIDE DEF path
    <2> QED BY <1>0, <2>1 DEF Forward
  <1>2. \A i \in 1 .. m : PartOf(s[i], lo, hi, parts, lo .. hi)
    BY DEF Drives
  <1>3. ASSUME NEW j \in 1 .. m, j - 1 \in S PROVE j \in S
    <2>1. a[j] = Absorb(a[j - 1], s[j], lo, hi)
      BY <1>1 DEF Absorbed
    <2>2. CASE j = 1
      <3>1. s[1].leg = lo /\ s[1].part = 1
        BY DEF Drives
      <3>2. a[1] = Absorb(Start, s[1], lo, hi)
        BY <2>1, <2>2 DEF Absorbed
      <3> QED BY <1>2, <2>2, <3>1, <3>2, ReadFirst
    <2>3. CASE j # 1
      <3>1. j - 1 \in 1 .. m - 1 /\ j - 1 \in 1 .. m /\ (j - 1) + 1 = j
        BY <1>1, <2>3
      <3>2. ReadUpTo(a[j - 1], s[j - 1], lo)
        BY <1>3, <3>1
      <3>3. NextPart(s[j - 1], s[j])
        BY <3>1 DEF Drives
      <3>4. j - 1 \in 0 .. Len(path)
        BY <1>1, <3>1
      <3>5. a[j - 1] \in Accounts
        BY <3>4 DEF Absorbed
      <3>6. Taken(a[j - 1], {path[i] : i \in 1 .. j - 1}, lo, hi)
        <4>1. path \in Seq(PathSteps) /\ \A i, k \in 1 .. Len(path) : i < k => path[i] # path[k]
          <5> HIDE DEF path
          <5> QED BY <1>0 DEF Forward
        <4> HIDE DEF path
        <4>2. \A k \in 0 .. Len(path) : Taken(a[k], {path[i] : i \in 1 .. k}, lo, hi)
          BY <4>1, AllTaken DEF path
        <4> QED BY <3>4, <4>2
      <3> HIDE DEF path
      <3> QED BY <1>2, <2>1, <3>1, <3>2, <3>3, <3>5, <3>6, ReadOn
    <2> QED BY <2>2, <2>3
  <1>4. m \in S
    <2> HIDE DEF S
    <2>1. 0 \in S
      BY DEF S
    <2>2. \A j \in 0 .. m : j \in S
      BY <1>1, <1>3, <2>1, UpTo
    <2> QED BY <1>1, <2>2
  <1> QED BY <1>1, <1>4

\* The road data of a packet, whatever the provider left out or added.
LEMMA ResponseRight ==
  ASSUME NEW lo \in Nat \ {0}, NEW hi \in Nat, lo <= hi,
         NEW parts \in [lo .. hi -> 1 .. MaxParts], NEW marked, NEW beyond \in BOOLEAN
  PROVE  Right(ToResult(Response(lo, hi, parts, marked, beyond), lo, hi), lo, hi,
               marked = lo .. hi)
  <1>0. lo \in Nat /\ hi \in Int
    OBVIOUS
  <1>1. PICK s : /\ Drives(s, lo, hi, parts, marked)
                 /\ Response(lo, hi, parts, marked, beyond) = Path(s, hi, beyond)
    <2>1. Driven(Response(lo, hi, parts, marked, beyond), lo, hi, parts, marked, beyond)
      BY <1>0, ResponseDrives
    <2> QED BY <2>1 DEF Driven, Path
  <1> DEFINE path == Path(s, hi, beyond)
             m == Len(s)
             l == Len(path)
  <1>2. Forward(path, s, lo, hi, beyond)
    BY <1>1, PathForward
  <1>3. path \in Seq(PathSteps) /\ l \in Nat /\ m \in Nat \ {0}
        /\ l = IF beyond THEN m + 1 ELSE m
    <2>1. m \in Nat \ {0}
      BY <1>1 DEF Drives
    <2> HIDE DEF path
    <2> QED BY <1>2, <2>1 DEF Forward
  <1>4. PICK a : Absorbed(a, path, lo, hi) /\ ToResult(path, lo, hi) = a[l].steps
    <2>1. path \in Seq(PathSteps)
      BY <1>3
    <2> HIDE DEF path
    <2>2. \E a : Absorbed(a, path, lo, hi) /\ ToResult(path, lo, hi) = a[Len(path)].steps
      BY <1>0, <2>1, ToResultAbsorbs
    <2> QED BY <2>2
  <1> DEFINE steps == a[l].steps
             Paid == {path[i] : i \in 1 .. l}
  <1>5. a[l] \in Accounts /\ a[m] \in Accounts
    <2>1. l \in 0 .. l /\ m \in 0 .. l
      BY <1>3
    <2> HIDE DEF path, m
    <2> QED BY <1>4, <2>1 DEF Absorbed
  <1>6. Taken(a[l], Paid, lo, hi)
    <2>1. l \in 0 .. l
      BY <1>3
    <2>2. \A i, j \in 1 .. Len(path) : i < j => path[i] # path[j]
      <3> HIDE DEF path
      <3> QED BY <1>2 DEF Forward
    <2> HIDE DEF path
    <2>3. \A j \in 0 .. Len(path) : Taken(a[j], {path[i] : i \in 1 .. j}, lo, hi)
      BY <1>3, <1>4, <2>2, AllTaken
    <2> QED BY <2>1, <2>3
  <1>7. \A p \in Paid : p.leg \in lo .. hi \/ (p.leg = 0 /\ p.part = hi)
    <2> HIDE DEF path
    <2> QED BY <1>2 DEF Forward
  <1>8. ASSUME marked = lo .. hi
        PROVE  Len(steps) = hi - lo + 1 /\ \A k \in 1 .. Len(steps) : Whole(steps[k])
    <2>1. ReadUpTo(a[m], s[m], lo)
      BY <1>1, <1>4, <1>8, AllRead
    <2>2. PartOf(s[m], lo, hi, parts, marked) /\ s[m].leg = hi /\ s[m].part = parts[hi]
      BY <1>1, <1>3 DEF Drives
    <2>3. s[m].part = s[m].parts
      BY <2>2 DEF PartOf
    <2> DEFINE t == a[m].steps
               n == Len(t)
    <2>4. n = hi - lo + 1 /\ n \in Nat \ {0} /\ a[m].arrived
      <3>1. n = s[m].leg - lo + 1 /\ a[m].arrived = (s[m].part = s[m].parts)
        BY <2>1 DEF ReadUpTo
      <3>2. a[m].arrived \in BOOLEAN
        BY <1>5 DEF Accounts
      <3>3. n = hi - lo + 1
        BY <2>2, <3>1
      <3>4. a[m].arrived
        <4> DEFINE x == a[m].arrived
        <4>1. x = TRUE
          BY <2>3, <3>1
        <4> QED BY <4>1
      <3>5. hi - lo + 1 \in Nat \ {0}
        OBVIOUS
      <3> HIDE DEF n, m
      <3> QED BY <3>3, <3>4, <3>5
    <2>5. Whole(t[n])
      <3>1. m \in 0 .. Len(path)
        BY <1>3
      <3>2. Taken(a[m], {path[i] : i \in 1 .. m}, lo, hi)
        <4>2. \A i, j \in 1 .. Len(path) : i < j => path[i] # path[j]
          <5> HIDE DEF path
          <5> QED BY <1>2 DEF Forward
        <4> HIDE DEF path
        <4>3. \A j \in 0 .. Len(path) : Taken(a[j], {path[i] : i \in 1 .. j}, lo, hi)
          BY <1>3, <1>4, <4>2, AllTaken
        <4> QED BY <3>1, <4>3
      <3>3. t[n].leg = hi
        BY <2>4, <3>2 DEF Taken
      <3> QED BY <2>1, <2>2, <2>3, <3>3 DEF ReadUpTo, Whole
    <2>6. \A k \in 1 .. n : Whole(t[k])
      <3>1. \A k \in 1 .. n - 1 : Whole(t[k])
        BY <2>1 DEF ReadUpTo
      <3>2. \A k \in 1 .. n : k = n \/ k \in 1 .. n - 1
        BY <2>4
      <3> HIDE DEF t, n
      <3> QED BY <2>5, <3>1, <3>2
    <2>7. a[l].steps = t
      <3>1. CASE beyond
        <4>1. l = m + 1 /\ a[l] = Absorb(a[m], path[l], lo, hi)
          <5> HIDE DEF path
          <5>1. l \in 1 .. l /\ l = m + 1 /\ l - 1 = m
            BY <1>3, <3>1
          <5> QED BY <1>4, <5>1 DEF Absorbed
        <4>2. ~Continues(a[m])
          BY <2>4 DEF Continues
        <4>3. ~(Len(a[m].steps) < hi - lo + 1)
          BY <2>4
        <4>4. Absorb(a[m], path[l], lo, hi).steps = a[m].steps
          <5> HIDE DEF path, l
          <5> QED BY <4>2, <4>3 DEF Absorb
        <4> QED BY <4>1, <4>4
      <3>2. CASE ~beyond
        BY <1>3, <3>2
      <3> QED BY <3>1, <3>2
    <2> HIDE DEF t
    <2> QED BY <2>4, <2>6, <2>7
  <1> HIDE DEF steps, Paid
  <1>9. /\ steps \in Seq(LegSteps)
        /\ Len(steps) <= hi - lo + 1
        /\ \A k \in 1 .. Len(steps) : steps[k].leg = lo + k - 1 /\ steps[k].of \subseteq Paid
        /\ \A k, j \in 1 .. Len(steps) : k # j => steps[k].of \cap steps[j].of = {}
    BY <1>5, <1>6 DEF Taken, Accounts, steps
  <1>10. Right(steps, lo, hi, marked = lo .. hi)
    BY <1>7, <1>8, <1>9 DEF Right
  <1>11. ToResult(Response(lo, hi, parts, marked, beyond), lo, hi) = steps
    BY <1>1, <1>4 DEF steps
  <1> QED BY <1>10, <1>11

-----------------------------------------------------------------------------
(* Packets *)

LEMMA DivBounds ==
  ASSUME NEW x \in Nat, NEW b \in Nat \ {0}
  PROVE  /\ x \div b \in Nat
         /\ b * (x \div b) <= x /\ x < b * (x \div b) + b
  OBVIOUS

LEMMA CountBounds ==
  ASSUME NEW n \in Nat, n >= 2
  PROVE  /\ PacketCount(n) \in Nat \ {0}
         /\ n <= BatchSize * PacketCount(n)
         /\ BatchSize * PacketCount(n) < n + BatchSize
  <1> DEFINE x == n + BatchSize - 1
             q == x \div BatchSize
  <1>1. BatchSize \in Nat \ {0} /\ x \in Nat
    BY PlannerAssumption
  <1>2. q \in Nat /\ BatchSize * q <= x /\ x < BatchSize * q + BatchSize
    <2> HIDE DEF x
    <2> QED BY <1>1, DivBounds
  <1>3. BatchSize * q \in Nat /\ (q = 0 => BatchSize * q = 0)
    BY <1>1, <1>2
  <1>4. n <= BatchSize * q /\ BatchSize * q < n + BatchSize
    <2> HIDE DEF q
    <2> QED BY <1>1, <1>2, <1>3
  <1>5. q # 0
    <2> HIDE DEF q
    <2> QED BY <1>3, <1>4
  <1> QED BY <1>2, <1>4, <1>5 DEF PacketCount

LEMMA TimesOrdered ==
  ASSUME NEW j \in Nat, NEW k \in Nat, j <= k, NEW b \in Nat
  PROVE  j * b \in Nat /\ k * b \in Nat /\ j * b <= k * b
  <1>1. PICK d \in Nat : k = j + d
    <2>1. k - j \in Nat /\ k = j + (k - j)
      OBVIOUS
    <2> QED BY <2>1
  <1>2. k * b = j * b + d * b /\ j * b \in Nat /\ d * b \in Nat
    BY <1>1
  <1> QED BY <1>1, <1>2

\* The packets of a route follow one another along it; the last one ends it.
LEMMA PacketsInOrder ==
  ASSUME NEW n \in Nat, n >= 2, NEW g \in 1 .. PacketCount(n)
  PROVE  /\ FirstPoint(g) \in Nat \ {0} /\ LastPoint(g, n) \in 1 .. n
         /\ FirstPoint(g) <= LastPoint(g, n)
         /\ g > 1 => FirstPoint(g) = LastPoint(g - 1, n)
  <1> DEFINE C == PacketCount(n)
  <1>1. C \in Nat \ {0} /\ BatchSize \in Nat \ {0} /\ BatchSize * C < n + BatchSize
    BY CountBounds, PlannerAssumption
  <1> HIDE DEF C
  <1>2. g \in 1 .. C
    BY DEF C
  <1>3. g * BatchSize \in Nat \ {0} /\ g * BatchSize = (g - 1) * BatchSize + BatchSize
        /\ (g - 1) * BatchSize \in Nat /\ 1 * BatchSize = BatchSize
    BY <1>1, <1>2
  <1>4. (g - 1) * BatchSize <= (C - 1) * BatchSize
    BY <1>1, <1>2, TimesOrdered
  <1>5. (C - 1) * BatchSize = BatchSize * C - BatchSize /\ BatchSize * C \in Nat
    BY <1>1
  <1>6. (g - 1) * BatchSize < n
    BY <1>1, <1>3, <1>4, <1>5
  <1>7. g > 1 => (g - 1) * BatchSize # 0
    BY <1>1, <1>2
  <1> QED BY <1>1, <1>2, <1>3, <1>6, <1>7 DEF FirstPoint, LastPoint

LEMMA LastPacket ==
  ASSUME NEW n \in Nat, n >= 2, NEW g \in Nat, g >= PacketCount(n)
  PROVE  LastPoint(g, n) = n
  <1>1. PacketCount(n) \in Nat /\ BatchSize \in Nat /\ n <= BatchSize * PacketCount(n)
    BY CountBounds, PlannerAssumption
  <1>2. PacketCount(n) * BatchSize <= g * BatchSize /\ g * BatchSize \in Nat
    BY <1>1, TimesOrdered
  <1>3. PacketCount(n) * BatchSize = BatchSize * PacketCount(n)
    BY <1>1
  <1> QED BY <1>1, <1>2, <1>3 DEF LastPoint

\* Packets that are apart have no leg in common.
LEMMA PacketsApart ==
  ASSUME NEW n \in Nat, n >= 2,
         NEW g \in 1 .. PacketCount(n), NEW h \in 1 .. PacketCount(n), g < h
  PROVE  LastPoint(g, n) <= FirstPoint(h)
  <1>1. PacketCount(n) \in Nat /\ BatchSize \in Nat \ {0}
    BY CountBounds, PlannerAssumption
  <1>2. g * BatchSize <= (h - 1) * BatchSize /\ g * BatchSize \in Nat
    BY <1>1, TimesOrdered
  <1>3. h # 1 /\ (h - 1) * BatchSize \in Nat
    BY <1>1
  <1> QED BY <1>1, <1>2, <1>3 DEF FirstPoint, LastPoint

-----------------------------------------------------------------------------
(* The steps of all packets, joined *)

End(k, n) == IF k = 0 THEN 1 ELSE LastPoint(k, n)

\* ss[g] and clean[g] are what packet g contributes to a route of n points.
Contributions(ss, clean, n) ==
    /\ ss \in [Packet -> Seq(LegSteps)] /\ clean \in [Packet -> BOOLEAN]
    /\ \A g \in Packet :
          IF g <= PacketCount(n)
          THEN Right(ss[g], FirstPoint(g), LastPoint(g, n) - 1, clean[g])
          ELSE ss[g] = <<>>

\* s joins what the first k packets contributed.
Prefix(s, k, ss, clean, n) ==
    /\ s \in Seq(LegSteps)
    /\ \A i \in 1 .. Len(s) : s[i].leg \in 1 .. End(k, n) - 1
    /\ \A i, j \in 1 .. Len(s) : i < j => s[i].leg < s[j].leg
    /\ (\A g \in 1 .. k : clean[g]) =>
          Len(s) = End(k, n) - 1 /\ \A i \in 1 .. Len(s) : s[i].leg = i
    /\ \A i \in 1 .. Len(s) : \E g \in 1 .. k : \E m \in 1 .. Len(ss[g]) : s[i] = ss[g][m]
    /\ \A g \in 1 .. k : \A m \in 1 .. Len(ss[g]) : \E i \in 1 .. Len(s) : s[i] = ss[g][m]

LEMMA PrefixOn ==
  ASSUME NEW n \in Nat, n >= 2, PacketCount(n) <= MaxPackets,
         NEW ss, NEW clean, Contributions(ss, clean, n),
         NEW k \in Packet, NEW s, Prefix(s, k - 1, ss, clean, n)
  PROVE  Prefix(s \o ss[k], k, ss, clean, n)
  <1> DEFINE b == ss[k]
             t == s \o b
             m == Len(s)
             l == Len(b)
             C == PacketCount(n)
  <1>0. k \in Nat \ {0} /\ C \in Nat \ {0} /\ Packet = 1 .. MaxPackets /\ MaxPackets \in Nat
    BY CountBounds, PlannerAssumption DEF Packet
  <1>1. s \in Seq(LegSteps) /\ b \in Seq(LegSteps) /\ m \in Nat /\ l \in Nat
    BY DEF Prefix, Contributions
  <1>2. End(k - 1, n) \in 1 .. n /\ End(k, n) \in 1 .. n
        /\ (k <= C => FirstPoint(k) = End(k - 1, n) /\ End(k - 1, n) <= End(k, n))
        /\ (k > C => End(k - 1, n) = n /\ End(k, n) = n)
    <2>1. CASE k <= C
      <3>1. k \in 1 .. C
        BY <1>0, <2>1
      <3>2. /\ FirstPoint(k) \in Nat \ {0} /\ LastPoint(k, n) \in 1 .. n
            /\ FirstPoint(k) <= LastPoint(k, n)
            /\ k > 1 => FirstPoint(k) = LastPoint(k - 1, n)
        BY <3>1, PacketsInOrder
      <3>3. k > 1 => k - 1 \in 1 .. C
        BY <3>1, <1>0
      <3>4. k > 1 => LastPoint(k - 1, n) \in 1 .. n
        BY <3>3, PacketsInOrder
      <3>5. k = 1 => FirstPoint(k) = 1
        BY DEF FirstPoint
      <3> HIDE DEF C
      <3>6. End(k, n) = LastPoint(k, n) /\ End(k - 1, n) = IF k = 1 THEN 1 ELSE LastPoint(k - 1, n)
        BY <1>0 DEF End
      <3>7. CASE k = 1
        <4>1. End(k - 1, n) = FirstPoint(k) /\ End(k - 1, n) \in 1 .. n
          BY <3>5, <3>6, <3>7
        <4> QED BY <1>0, <2>1, <3>2, <3>6, <4>1
      <3>8. CASE k > 1
        <4>1. End(k - 1, n) = FirstPoint(k) /\ End(k - 1, n) \in 1 .. n
          BY <3>2, <3>4, <3>6, <3>8
        <4> QED BY <1>0, <2>1, <3>2, <3>6, <4>1
      <3> QED BY <1>0, <3>7, <3>8
    <2>2. CASE k > C
      <3>1. k - 1 \in Nat /\ k - 1 >= C /\ k - 1 # 0 /\ k \in Nat /\ k >= C /\ k # 0
        BY <1>0, <2>2
      <3>2. LastPoint(k - 1, n) = n /\ LastPoint(k, n) = n
        BY <3>1, LastPacket
      <3>3. End(k - 1, n) = n /\ End(k, n) = n
        BY <3>1, <3>2 DEF End
      <3>4. n \in 1 .. n /\ ~(k <= C)
        BY <1>0, <2>2
      <3> HIDE DEF C
      <3> QED BY <3>3, <3>4
    <2> QED BY <1>0, <2>1, <2>2
  <1>3. CASE k > C
    <2>1. b = <<>>
      BY <1>0, <1>3 DEF Contributions
    <2>2. t = s
      BY <1>1, <2>1
    <2> HIDE DEF t
    <2>3. 1 .. k = (1 .. k - 1) \cup {k} /\ 1 .. Len(ss[k]) = {}
      BY <1>0, <2>1
    <2>4. End(k, n) = End(k - 1, n)
      BY <1>2, <1>3
    <2>5. Prefix(s, k, ss, clean, n)
      <3>1. /\ s \in Seq(LegSteps)
            /\ \A i \in 1 .. Len(s) : s[i].leg \in 1 .. End(k, n) - 1
            /\ \A i, j \in 1 .. Len(s) : i < j => s[i].leg < s[j].leg
            /\ (\A g \in 1 .. k - 1 : clean[g]) =>
                  Len(s) = End(k, n) - 1 /\ \A i \in 1 .. Len(s) : s[i].leg = i
        BY <2>4 DEF Prefix
      <3>2. \A i \in 1 .. Len(s) : \E g \in 1 .. k - 1 : \E j \in 1 .. Len(ss[g]) : s[i] = ss[g][j]
        BY DEF Prefix
      <3>3. \A g \in 1 .. k - 1 : \A j \in 1 .. Len(ss[g]) : \E i \in 1 .. Len(s) : s[i] = ss[g][j]
        BY DEF Prefix
      <3>4. \A g \in 1 .. k - 1 : g \in 1 .. k
        BY <2>3
      <3>5. \A g \in 1 .. k : \A j \in 1 .. Len(ss[g]) : \E i \in 1 .. Len(s) : s[i] = ss[g][j]
        BY <2>3, <3>3
      <3> QED BY <3>1, <3>2, <3>4, <3>5, ZenonT(60) DEF Prefix
    <2> QED BY <2>2, <2>5 DEF t
  <1>4. CASE k <= C
    <2> DEFINE e == End(k - 1, n)
               d == End(k, n)
    <2>1. e \in Nat \ {0} /\ d \in Nat /\ e <= d /\ FirstPoint(k) = e /\ d = LastPoint(k, n)
      BY <1>0, <1>2, <1>4 DEF End
    <2>2. Right(b, e, d - 1, clean[k])
      BY <1>0, <1>4, <2>1 DEF Contributions
    <2> HIDE DEF e, d
    <2>3. /\ l <= d - e
          /\ \A i \in 1 .. l : b[i].leg = e + i - 1
          /\ clean[k] => l = d - e
      BY <2>1, <2>2 DEF Right
    <2>4. /\ \A i \in 1 .. m : s[i].leg \in 1 .. e - 1
          /\ \A i, j \in 1 .. m : i < j => s[i].leg < s[j].leg
          /\ (\A g \in 1 .. k - 1 : clean[g]) =>
                m = e - 1 /\ \A i \in 1 .. m : s[i].leg = i
      BY DEF Prefix, e
    <2>5. t \in Seq(LegSteps) /\ Len(t) = m + l
      BY <1>1
    <2>6. /\ \A i \in 1 .. m : t[i] = s[i]
          /\ \A i \in 1 .. l : t[m + i] = b[i]
      BY <1>1
    <2>7. \A i \in 1 .. m + l : i \in 1 .. m \/ (i - m \in 1 .. l /\ i = m + (i - m))
      BY <1>1
    <2> HIDE DEF t, m, l
    <2>8. \A i \in 1 .. m + l : i \in 1 .. m \/ (t[i].leg = e + (i - m) - 1 /\ i - m \in 1 .. l)
      BY <2>3, <2>6, <2>7
    <2>9. ASSUME NEW i \in 1 .. m + l PROVE t[i].leg \in 1 .. d - 1
      <3>1. CASE i \in 1 .. m
        <4>1. s[i].leg \in 1 .. e - 1 /\ t[i] = s[i]
          BY <2>4, <2>6, <3>1
        <4> QED BY <2>1, <4>1
      <3>2. CASE t[i].leg = e + (i - m) - 1 /\ i - m \in 1 .. l
        BY <1>1, <2>1, <2>3, <3>2
      <3> QED BY <2>8, <3>1, <3>2
    <2>10. ASSUME NEW i \in 1 .. m + l, NEW j \in 1 .. m + l, i < j
           PROVE  t[i].leg < t[j].leg
      <3>1. CASE j \in 1 .. m
        <4>1. i \in 1 .. m
          BY <1>1, <2>10, <3>1
        <4> QED BY <2>4, <2>6, <2>10, <3>1, <4>1
      <3>2. CASE i \in 1 .. m /\ t[j].leg = e + (j - m) - 1 /\ j - m \in 1 .. l
        <4>1. s[i].leg \in 1 .. e - 1 /\ t[i] = s[i]
          BY <2>4, <2>6, <3>2
        <4> QED BY <1>1, <2>1, <3>2, <4>1
      <3>3. CASE /\ t[i].leg = e + (i - m) - 1 /\ i - m \in 1 .. l
                 /\ t[j].leg = e + (j - m) - 1 /\ j - m \in 1 .. l
        BY <1>1, <2>1, <2>10, <3>3, SMTT(30)
      <3> QED BY <2>8, <3>1, <3>2, <3>3
    <2>11. ASSUME \A g \in 1 .. k : clean[g]
           PROVE  m + l = d - 1 /\ \A i \in 1 .. m + l : t[i].leg = i
      <3>1. clean[k] /\ \A g \in 1 .. k - 1 : clean[g]
        BY <1>0, <2>11
      <3>2. m = e - 1 /\ l = d - e /\ \A i \in 1 .. m : s[i].leg = i
        BY <2>3, <2>4, <3>1
      <3>3. ASSUME NEW i \in 1 .. m + l PROVE t[i].leg = i
        <4>1. CASE i \in 1 .. m
          BY <2>6, <3>2, <4>1
        <4>2. CASE t[i].leg = e + (i - m) - 1
          BY <1>1, <2>1, <3>2, <4>2
        <4> QED BY <2>8, <4>1, <4>2
      <3> QED BY <1>1, <2>1, <3>2, <3>3
    <2>12. ASSUME NEW i \in 1 .. m + l
           PROVE  \E g \in 1 .. k : \E j \in 1 .. Len(ss[g]) : t[i] = ss[g][j]
      <3>1. CASE i \in 1 .. m
        <4>1. \E g \in 1 .. k - 1 : \E j \in 1 .. Len(ss[g]) : s[i] = ss[g][j]
          BY <3>1 DEF Prefix, m
        <4>2. 1 .. k - 1 \subseteq 1 .. k
          BY <1>0
        <4> QED BY <2>6, <3>1, <4>1, <4>2
      <3>2. CASE i - m \in 1 .. l /\ i = m + (i - m)
        <4>1. t[i] = ss[k][i - m] /\ k \in 1 .. k /\ i - m \in 1 .. Len(ss[k])
          BY <1>0, <2>6, <3>2 DEF l
        <4> QED BY <4>1
      <3> QED BY <2>7, <3>1, <3>2
    <2>13. ASSUME NEW g \in 1 .. k, NEW j \in 1 .. Len(ss[g])
           PROVE  \E i \in 1 .. m + l : t[i] = ss[g][j]
      <3>1. CASE g \in 1 .. k - 1
        <4>1. PICK i \in 1 .. m : s[i] = ss[g][j]
          BY <2>13, <3>1 DEF Prefix, m
        <4>2. i \in 1 .. m + l
          BY <1>1
        <4> QED BY <2>6, <4>1, <4>2
      <3>2. CASE g = k
        <4>1. j \in 1 .. l
          BY <2>13, <3>2 DEF l
        <4>2. t[m + j] = ss[g][j] /\ m + j \in 1 .. m + l
          BY <1>1, <2>6, <3>2, <4>1
        <4> QED BY <4>2
      <3> QED BY <1>0, <3>1, <3>2
    <2>14. Prefix(t, k, ss, clean, n)
      <3>1. \A i \in 1 .. Len(t) : t[i].leg \in 1 .. End(k, n) - 1
        BY <2>5, <2>9 DEF d
      <3>2. \A i, j \in 1 .. Len(t) : i < j => t[i].leg < t[j].leg
        BY <2>5, <2>10
      <3>3. (\A g \in 1 .. k : clean[g]) =>
              Len(t) = End(k, n) - 1 /\ \A i \in 1 .. Len(t) : t[i].leg = i
        BY <2>5, <2>11 DEF d
      <3>4. \A i \in 1 .. Len(t) : \E g \in 1 .. k : \E j \in 1 .. Len(ss[g]) : t[i] = ss[g][j]
        BY <2>5, <2>12
      <3>5. \A g \in 1 .. k : \A j \in 1 .. Len(ss[g]) : \E i \in 1 .. Len(t) : t[i] = ss[g][j]
        BY <2>5, <2>13
      <3> QED BY <2>5, <3>1, <3>2, <3>3, <3>4, <3>5, Zenon DEF Prefix
    <2> QED BY <2>14 DEF t
  <1> QED BY <1>0, <1>3, <1>4

LEMMA AllJoined ==
  ASSUME NEW n \in Nat, n >= 2, PacketCount(n) <= MaxPackets,
         NEW ss, NEW clean, Contributions(ss, clean, n)
  PROVE  Prefix(FlattenSeq(ss), MaxPackets, ss, clean, n)
  <1>1. /\ MaxPackets \in Nat \ {0} /\ ss \in Seq(Seq(LegSteps)) /\ Len(ss) = MaxPackets
        /\ Packet = 1 .. MaxPackets
    BY PlannerAssumption DEF Contributions, Packet
  <1>2. PICK f : Joined(f, ss, LegSteps) /\ FlattenSeq(ss) = f[Len(ss)]
    BY <1>1, FlattenJoins
  <1> DEFINE S == {k \in 0 .. MaxPackets : Prefix(f[k], k, ss, clean, n)}
  <1>3. 0 \in S
    <2>1. f[0] = <<>> /\ <<>> \in Seq(LegSteps) /\ Len(<<>>) = 0
      BY <1>2 DEF Joined
    <2>2. Prefix(<<>>, 0, ss, clean, n)
      BY <2>1 DEF Prefix, End
    <2> QED BY <1>1, <2>1, <2>2
  <1>4. ASSUME NEW k \in 1 .. MaxPackets, k - 1 \in S PROVE k \in S
    <2>1. Prefix(f[k - 1], k - 1, ss, clean, n) /\ k \in Packet
      BY <1>1, <1>4
    <2>2. Prefix(f[k - 1] \o ss[k], k, ss, clean, n)
      BY <2>1, PrefixOn
    <2>3. f[k] = f[k - 1] \o ss[k]
      BY <1>1, <1>2 DEF Joined
    <2>4. Prefix(f[k], k, ss, clean, n)
      BY <2>2, <2>3
    <2>5. k \in 0 .. MaxPackets
      BY <1>1
    <2> QED BY <2>4, <2>5
  <1>5. MaxPackets \in S
    <2> HIDE DEF S
    <2>1. \A k \in 0 .. MaxPackets : k \in S
      BY <1>1, <1>3, <1>4, UpTo
    <2> QED BY <1>1, <2>1
  <1> QED BY <1>1, <1>2, <1>5

LEMMA OnePacket ==
  ASSUME NEW n \in Nat, n >= 2,
         NEW g \in 1 .. PacketCount(n), NEW h \in 1 .. PacketCount(n),
         NEW k \in LegsOf(g, n), k \in LegsOf(h, n)
  PROVE  g = h
  <1>1. PacketCount(n) \in Nat
    BY CountBounds
  <1>2. /\ FirstPoint(g) \in Nat /\ LastPoint(g, n) \in Nat
        /\ FirstPoint(h) \in Nat /\ LastPoint(h, n) \in Nat
    BY PacketsInOrder
  <1>3. g < h => LastPoint(g, n) <= FirstPoint(h)
    BY PacketsApart
  <1>4. h < g => LastPoint(h, n) <= FirstPoint(g)
    BY PacketsApart
  <1> QED BY <1>1, <1>2, <1>3, <1>4 DEF LegsOf

\* What LegsInOrder, PricedByLeg and NothingPaidTwice say of an answer.
Ordered(steps, n, clean) ==
    /\ \A i, j \in 1 .. Len(steps) : i < j => steps[i].leg < steps[j].leg
    /\ clean => Len(steps) = n - 1 /\ \A i \in 1 .. Len(steps) : steps[i].leg = i
    /\ \A g \in 1 .. PacketCount(n) : \A i \in 1 .. Len(steps) :
          steps[i].leg \in LegsOf(g, n) =>
             \A k \in FirstPoint(g) .. steps[i].leg : \E j \in 1 .. Len(steps) : steps[j].leg = k

Priced(steps, clean) ==
    /\ \A i, k \in 1 .. Len(steps) : i # k => steps[i].of \cap steps[k].of = {}
    /\ clean => \A i \in 1 .. Len(steps) : steps[i].src = "provider" => Whole(steps[i])

LEMMA OwnLeg ==
  ASSUME NEW n \in Nat, n >= 2, NEW ss, NEW clean, Contributions(ss, clean, n),
         NEW g \in Packet, NEW m \in 1 .. Len(ss[g])
  PROVE  /\ g \in 1 .. PacketCount(n)
         /\ Right(ss[g], FirstPoint(g), LastPoint(g, n) - 1, clean[g])
         /\ ss[g][m].leg = FirstPoint(g) + m - 1 /\ ss[g][m].leg \in LegsOf(g, n)
         /\ FirstPoint(g) \in Nat \ {0} /\ LastPoint(g, n) \in Nat
  <1>1. PacketCount(n) \in Nat /\ g \in Nat \ {0}
    BY CountBounds, PlannerAssumption DEF Packet
  <1>2. g <= PacketCount(n)
    <2>1. ss[g] # <<>>
      OBVIOUS
    <2> QED BY <2>1 DEF Contributions
  <1>3. g \in 1 .. PacketCount(n)
    BY <1>1, <1>2
  <1>4. Right(ss[g], FirstPoint(g), LastPoint(g, n) - 1, clean[g])
    BY <1>2 DEF Contributions
  <1>5. FirstPoint(g) \in Nat \ {0} /\ LastPoint(g, n) \in Nat
    BY <1>3, PacketsInOrder
  <1>6. ss[g][m].leg = FirstPoint(g) + m - 1 /\ m <= (LastPoint(g, n) - 1) - FirstPoint(g) + 1
    <2>1. Len(ss[g]) \in Nat
      BY <1>4 DEF Right
    <2> QED BY <1>4, <1>5, <2>1 DEF Right
  <1> QED BY <1>3, <1>4, <1>5, <1>6 DEF LegsOf

LEMMA AnswerOrdered ==
  ASSUME NEW n \in Nat, n >= 2, PacketCount(n) <= MaxPackets,
         NEW ss, NEW clean, Contributions(ss, clean, n),
         NEW s, Prefix(s, MaxPackets, ss, clean, n)
  PROVE  Ordered(s, n, \A g \in Packet : clean[g])
  <1>1. Packet = 1 .. MaxPackets /\ MaxPackets \in Nat \ {0} /\ Len(s) \in Nat
    BY PlannerAssumption DEF Packet, Prefix
  <1>2. End(MaxPackets, n) = n
    BY <1>1, LastPacket DEF End
  <1>3. ASSUME NEW g \in 1 .. PacketCount(n), NEW i \in 1 .. Len(s), s[i].leg \in LegsOf(g, n),
               NEW k \in FirstPoint(g) .. s[i].leg
        PROVE  \E j \in 1 .. Len(s) : s[j].leg = k
    <2>1a. PICK h \in Packet : \E m \in 1 .. Len(ss[h]) : s[i] = ss[h][m]
      BY <1>1 DEF Prefix
    <2>1. PICK m \in 1 .. Len(ss[h]) : s[i] = ss[h][m]
      BY <2>1a
    <2>2. /\ h \in 1 .. PacketCount(n) /\ ss[h][m].leg \in LegsOf(h, n)
          /\ ss[h][m].leg = FirstPoint(h) + m - 1 /\ FirstPoint(h) \in Nat
      BY OwnLeg
    <2>3. h = g
      BY <1>3, <2>1, <2>2, OnePacket
    <2> DEFINE l == k - FirstPoint(g) + 1
    <2>4. Len(ss[h]) \in Nat
      BY DEF Contributions
    <2>5. l \in 1 .. Len(ss[h]) /\ k = FirstPoint(g) + l - 1
      BY <2>1, <2>2, <2>3, <2>4, SMTT(30)
    <2> HIDE DEF l
    <2>6. ss[h][l].leg = k
      BY <2>3, <2>5, OwnLeg
    <2>7. \E j \in 1 .. Len(s) : s[j] = ss[h][l]
      BY <1>1, <2>5 DEF Prefix
    <2> QED BY <2>6, <2>7
  <1>4. \A i, j \in 1 .. Len(s) : i < j => s[i].leg < s[j].leg
    BY DEF Prefix
  <1>5. (\A g \in Packet : clean[g]) =>
           Len(s) = n - 1 /\ \A i \in 1 .. Len(s) : s[i].leg = i
    BY <1>1, <1>2 DEF Prefix
  <1> QED BY <1>3, <1>4, <1>5 DEF Ordered

LEMMA AnswerPriced ==
  ASSUME NEW n \in Nat, n >= 2, PacketCount(n) <= MaxPackets,
         NEW ss, NEW clean, Contributions(ss, clean, n),
         NEW s, Prefix(s, MaxPackets, ss, clean, n)
  PROVE  Priced(s, \A g \in Packet : clean[g])
  <1>1. Packet = 1 .. MaxPackets /\ Len(s) \in Nat
    BY DEF Packet, Prefix
  <1>2. ASSUME NEW i \in 1 .. Len(s), NEW j \in 1 .. Len(s), i # j,
               NEW p, p \in s[i].of, p \in s[j].of
        PROVE  FALSE
    <2>1a. PICK g \in Packet : \E a \in 1 .. Len(ss[g]) : s[i] = ss[g][a]
      BY <1>1 DEF Prefix
    <2>1. PICK a \in 1 .. Len(ss[g]) : s[i] = ss[g][a]
      BY <2>1a
    <2>2a. PICK h \in Packet : \E b \in 1 .. Len(ss[h]) : s[j] = ss[h][b]
      BY <1>1 DEF Prefix
    <2>2. PICK b \in 1 .. Len(ss[h]) : s[j] = ss[h][b]
      BY <2>2a
    <2>3. s[i].leg # s[j].leg
      <3>1. \A k \in 1 .. Len(s) : s[k].leg \in Int
        BY SMTT(30) DEF Prefix, LegSteps
      <3>2. i < j \/ j < i
        BY <1>1, <1>2
      <3> QED BY <3>1, <3>2 DEF Prefix
    <2>4. /\ g \in 1 .. PacketCount(n) /\ ss[g][a].leg \in LegsOf(g, n)
          /\ Right(ss[g], FirstPoint(g), LastPoint(g, n) - 1, clean[g])
          /\ FirstPoint(g) \in Nat \ {0} /\ LastPoint(g, n) \in Nat
      BY OwnLeg
    <2>5. /\ h \in 1 .. PacketCount(n) /\ ss[h][b].leg \in LegsOf(h, n)
          /\ Right(ss[h], FirstPoint(h), LastPoint(h, n) - 1, clean[h])
          /\ FirstPoint(h) \in Nat \ {0} /\ LastPoint(h, n) \in Nat
      BY OwnLeg
    <2>6. CASE g = h
      <3>1. a # b
        BY <2>1, <2>2, <2>3, <2>6
      <3> QED BY <1>2, <2>1, <2>2, <2>4, <2>6, <3>1 DEF Right
    <2>7. CASE g # h
      <3>1. p.leg \in LegsOf(g, n) \/ (p.leg = 0 /\ p.part = LastPoint(g, n) - 1)
        BY <1>2, <2>1, <2>4 DEF Right, LegsOf
      <3>2. p.leg \in LegsOf(h, n) \/ (p.leg = 0 /\ p.part = LastPoint(h, n) - 1)
        BY <1>2, <2>2, <2>5 DEF Right, LegsOf
      <3>a. ASSUME NEW f \in {g, h}
            PROVE  0 \notin LegsOf(f, n) /\ FirstPoint(f) < LastPoint(f, n)
        <4>1. PICK k : k \in LegsOf(f, n)
          BY <2>4, <2>5, <3>a
        <4>2. FirstPoint(f) \in Nat \ {0} /\ LastPoint(f, n) \in Nat
          BY <2>4, <2>5, <3>a
        <4> QED BY <4>1, <4>2 DEF LegsOf
      <3>3. 0 \notin LegsOf(g, n) /\ 0 \notin LegsOf(h, n)
            /\ FirstPoint(g) < LastPoint(g, n) /\ FirstPoint(h) < LastPoint(h, n)
        BY <3>a
      <3>4. ~(p.leg \in LegsOf(g, n) /\ p.leg \in LegsOf(h, n))
        BY <2>4, <2>5, <2>7, OnePacket
      <3>5. LastPoint(g, n) = LastPoint(h, n)
        BY <2>4, <2>5, <3>1, <3>2, <3>3, <3>4
      <3>6. PacketCount(n) \in Nat
        BY CountBounds
      <3>7. g < h => LastPoint(g, n) <= FirstPoint(h)
        BY <2>4, <2>5, PacketsApart
      <3>8. h < g => LastPoint(h, n) <= FirstPoint(g)
        BY <2>4, <2>5, PacketsApart
      <3>9. g < h \/ h < g
        BY <2>4, <2>5, <2>7, <3>6
      <3> QED BY <2>4, <2>5, <3>3, <3>5, <3>7, <3>8, <3>9
    <2> QED BY <2>6, <2>7
  <1>3. ASSUME \A g \in Packet : clean[g], NEW i \in 1 .. Len(s), s[i].src = "provider"
        PROVE  Whole(s[i])
    <2>1a. PICK g \in Packet : \E a \in 1 .. Len(ss[g]) : s[i] = ss[g][a]
      BY <1>1 DEF Prefix
    <2>1. PICK a \in 1 .. Len(ss[g]) : s[i] = ss[g][a]
      BY <2>1a
    <2>2. Right(ss[g], FirstPoint(g), LastPoint(g, n) - 1, clean[g])
      BY OwnLeg
    <2> QED BY <1>3, <2>1, <2>2 DEF Right
  <1> QED BY <1>2, <1>3 DEF Priced

-----------------------------------------------------------------------------
(* The state of a route *)

Replies == {"none", "ok", "error", "400"}
Works == [pc : {"off", "ready", "routing", "done", "failed"}, steps : Seq(LegSteps),
          clean : BOOLEAN]

Routes == [pc : {"idle", "wait"}, n : Nat, cut : BOOLEAN, clean : BOOLEAN,
           reply : Replies, steps : Seq(LegSteps)]

Client ==
    /\ route \in Routes
    /\ route.pc = "wait" => route.n \in Lengths /\ route.n >= 2 /\ route.reply = "none"
    /\ cancels \in 0 .. MaxCancels

\* Packets of the route under way, each with what it has got.
Workers ==
    /\ work \in [Packet -> Works]
    /\ \A g \in Packet :
          /\ work[g].pc = "off" => work[g] = NoWork
          /\ work[g].pc = "off" <=> route.pc = "idle" \/ g > PacketCount(route.n)
          /\ work[g].pc = "ready" => work[g].steps = <<>> /\ work[g].clean
          /\ work[g].pc = "routing" => FirstPoint(g) < LastPoint(g, route.n)
          /\ work[g].pc = "failed" => route.cut
          /\ work[g].pc = "done" =>
                Right(work[g].steps, FirstPoint(g), LastPoint(g, route.n) - 1, work[g].clean)

Replied ==
    /\ route.reply = "error" => route.cut
    /\ route.reply = "ok" => /\ Ordered(route.steps, route.n, route.clean)
                             /\ Priced(route.steps, route.clean)

RouteInv == Client /\ Workers /\ Replied

LEMMA NoWorkTyped == NoWork \in Works /\ NoWork.pc = "off" /\ NoWork.clean /\ NoWork.steps = <<>>
  BY DEF NoWork, Works

LEMMA IdleTyped ==
  /\ Idle \in Routes
  /\ Idle.pc = "idle" /\ Idle.reply = "none"
  BY DEF Idle, Replies, Routes

LEMMA StartRight == Init => RouteInv
  <1> SUFFICES ASSUME Init PROVE RouteInv
    OBVIOUS
  <1>1. Client
    BY IdleTyped, PlannerAssumption DEF Init, Client
  <1>2. Workers
    BY NoWorkTyped, IdleTyped DEF Init, Workers
  <1>3. Replied
    BY IdleTyped DEF Init, Replied
  <1> QED BY <1>1, <1>2, <1>3 DEF RouteInv

LEMMA AskRight == ASSUME RouteInv, NEW n \in Lengths, Ask(n) PROVE RouteInv'
  <1>1. n \in Nat /\ cancels' = cancels /\ cancels \in 0 .. MaxCancels /\ route.pc = "idle"
    BY PlannerAssumption DEF Ask, RouteInv, Client
  <1>2. CASE n < 2
    <2>1. route' = [Idle EXCEPT !.n = n, !.reply = "400"] /\ work' = work
      BY <1>2 DEF Ask
    <2>2. /\ route' \in Routes
          /\ route'.pc = "idle" /\ route'.reply = "400"
      <3> DEFINE r == [Idle EXCEPT !.n = n, !.reply = "400"]
      <3>1. r \in Routes /\ r.pc = "idle" /\ r.reply = "400"
        BY <1>1, IdleTyped DEF Replies, Routes
      <3> QED BY <2>1, <3>1
    <2>3. Client' /\ Replied'
      BY <1>1, <2>2 DEF Client, Replied
    <2>4. \A g \in Packet : work[g] = NoWork
      BY <1>1 DEF RouteInv, Workers
    <2>5. Workers'
      BY <2>1, <2>2, <2>4, NoWorkTyped DEF RouteInv, Workers
    <2> QED BY <2>3, <2>5 DEF RouteInv
  <1>3. CASE ~(n < 2)
    <2> DEFINE w == [NoWork EXCEPT !.pc = "ready"]
    <2>1. /\ route' = [Idle EXCEPT !.pc = "wait", !.n = n]
          /\ work' = [g \in Packet |-> IF g <= PacketCount(n) THEN w ELSE NoWork]
      BY <1>3 DEF Ask
    <2>2. w \in Works /\ w.pc = "ready" /\ w.steps = <<>> /\ w.clean
      <3>1. NoWork \in Works /\ NoWork.steps = <<>> /\ NoWork.clean
        BY NoWorkTyped
      <3> QED BY <3>1 DEF Works
    <2> HIDE DEF w
    <2>3. /\ route' \in Routes
          /\ route'.pc = "wait" /\ route'.reply = "none" /\ route'.n = n
      <3> DEFINE r == [Idle EXCEPT !.pc = "wait", !.n = n]
      <3>1. r \in Routes /\ r.pc = "wait" /\ r.n = n /\ r.reply = "none"
        BY <1>1, IdleTyped DEF Routes
      <3> QED BY <2>1, <3>1
    <2>4. Client' /\ Replied'
      BY <1>1, <1>3, <2>3 DEF Client, Replied
    <2>5. PacketCount(n) \in Nat /\ \A g \in Packet : g \in Nat
      BY <1>1, <1>3, CountBounds, PlannerAssumption DEF Packet
    <2>6. work' \in [Packet -> Works]
      BY <2>1, <2>2, NoWorkTyped
    <2>7. ASSUME NEW g \in Packet
          PROVE  \/ g <= PacketCount(n) /\ work'[g] = w
                 \/ g > PacketCount(n) /\ work'[g] = NoWork
      BY <2>1, <2>5
    <2>8. Workers'
      <3>1. ASSUME NEW g \in Packet
            PROVE  /\ work'[g].pc = "off" => work'[g] = NoWork
                   /\ work'[g].pc = "off" <=> g > PacketCount(n)
                   /\ work'[g].pc = "ready" => work'[g].steps = <<>> /\ work'[g].clean
                   /\ work'[g].pc \in {"off", "ready"}
        <4>1. CASE g <= PacketCount(n) /\ work'[g] = w
          BY <2>2, <2>5, <4>1
        <4>2. CASE g > PacketCount(n) /\ work'[g] = NoWork
          BY <4>2, NoWorkTyped
        <4> QED BY <2>7, <4>1, <4>2
      <3> QED BY <2>3, <2>6, <3>1 DEF Workers
    <2> QED BY <2>4, <2>8 DEF RouteInv
  <1> QED BY <1>2, <1>3

\* A packet whose goroutine goes on; the others and the route stay as they are.
LEMMA OneWorks ==
  ASSUME RouteInv, NEW g \in Packet, NEW w \in Works,
         work' = [work EXCEPT ![g] = w], UNCHANGED <<route, cancels>>,
         work[g].pc # "off", w.pc \notin {"off", "ready"}, w.pc = "failed" => route.cut,
         w.pc = "routing" => FirstPoint(g) < LastPoint(g, route.n),
         w.pc = "done" =>
            Right(w.steps, FirstPoint(g), LastPoint(g, route.n) - 1, w.clean)
  PROVE  RouteInv'
  <1>1. Client' /\ Replied'
    BY DEF RouteInv, Client, Replied
  <1>2. work' \in [Packet -> Works]
    BY DEF RouteInv, Workers
  <1>3. ASSUME NEW h \in Packet
        PROVE  /\ work'[h].pc = "off" => work'[h] = NoWork
               /\ work'[h].pc = "off" <=> route.pc = "idle" \/ h > PacketCount(route.n)
               /\ work'[h].pc = "ready" => work'[h].steps = <<>> /\ work'[h].clean
               /\ work'[h].pc = "routing" => FirstPoint(h) < LastPoint(h, route.n)
               /\ work'[h].pc = "failed" => route.cut
               /\ work'[h].pc = "done" =>
                     Right(work'[h].steps, FirstPoint(h), LastPoint(h, route.n) - 1,
                           work'[h].clean)
    <2>1. CASE h = g
      <3>1. work'[h] = w
        BY <2>1 DEF RouteInv, Workers
      <3> QED BY <2>1, <3>1 DEF RouteInv, Workers
    <2>2. CASE h # g
      <3>1. work'[h] = work[h]
        BY <2>2 DEF RouteInv, Workers
      <3> QED BY <3>1 DEF RouteInv, Workers
    <2> QED BY <2>1, <2>2
  <1>4. Workers'
    BY <1>2, <1>3 DEF Workers
  <1> QED BY <1>1, <1>4 DEF RouteInv

\* The packets of a route under way.
LEMMA AtWork ==
  ASSUME RouteInv, NEW g \in Packet, work[g].pc # "off"
  PROVE  /\ route.pc = "wait" /\ route.n \in Nat /\ route.n >= 2
         /\ g \in 1 .. PacketCount(route.n)
         /\ FirstPoint(g) \in Nat \ {0} /\ LastPoint(g, route.n) \in Nat \ {0}
         /\ FirstPoint(g) <= LastPoint(g, route.n)
  <1>1. route.pc = "wait" /\ route.n \in Nat /\ route.n >= 2 /\ ~(g > PacketCount(route.n))
    BY DEF RouteInv, Client, Routes, Workers
  <1>2. g \in 1 .. PacketCount(route.n)
    <2>1. PacketCount(route.n) \in Nat /\ g \in Nat \ {0}
      BY <1>1, CountBounds, PlannerAssumption DEF Packet
    <2> QED BY <1>1, <2>1
  <1>3. /\ FirstPoint(g) \in Nat \ {0} /\ LastPoint(g, route.n) \in 1 .. route.n
        /\ FirstPoint(g) <= LastPoint(g, route.n)
    BY <1>1, <1>2, PacketsInOrder
  <1> QED BY <1>1, <1>2, <1>3

LEMMA EnterRight == ASSUME RouteInv, NEW g \in Packet, Enter(g) PROVE RouteInv'
  <1>1. /\ work[g] \in Works /\ work[g].pc = "ready" /\ UNCHANGED <<route, cancels>>
    BY DEF Enter, RouteInv, Workers
  <1>2. /\ route.n \in Nat /\ FirstPoint(g) \in Nat /\ LastPoint(g, route.n) \in Nat
        /\ FirstPoint(g) <= LastPoint(g, route.n)
    BY <1>1, AtWork
  <1>3. ASSUME NEW c \in {"failed", "done", "routing"}
        PROVE  [work[g] EXCEPT !.pc = c] \in Works /\ [work[g] EXCEPT !.pc = c].pc = c
    BY <1>1, <1>3 DEF Works
  <1>4. CASE route.cut
    <2> DEFINE w == [work[g] EXCEPT !.pc = "failed"]
    <2>1. work' = [work EXCEPT ![g] = w]
      BY <1>4 DEF Enter
    <2>2. w \in Works /\ w.pc = "failed"
      BY <1>3
    <2> HIDE DEF w
    <2> QED BY <1>1, <1>4, <2>1, <2>2, OneWorks
  <1>5. CASE ~route.cut /\ Points(g, route.n) < 2
    <2> DEFINE w == [work[g] EXCEPT !.pc = "done"]
    <2>1. work' = [work EXCEPT ![g] = w]
      BY <1>5 DEF Enter
    <2>2. w \in Works /\ w.pc = "done"
      BY <1>3
    <2>3. FirstPoint(g) = (LastPoint(g, route.n) - 1) + 1
      BY <1>2, <1>5 DEF Points
    <2>4. Right(w.steps, FirstPoint(g), LastPoint(g, route.n) - 1, w.clean)
      <3>1. w.steps = <<>> /\ w.clean = TRUE
        <4>1. work[g].steps = <<>> /\ work[g].clean = TRUE
          BY <1>1 DEF RouteInv, Workers, Works
        <4> QED BY <1>1, <4>1 DEF Works
      <3>2. Right(<<>>, FirstPoint(g), LastPoint(g, route.n) - 1, TRUE)
        <4>1. LastPoint(g, route.n) - 1 \in Int
          BY <1>2
        <4> QED BY <1>2, <2>3, <4>1, NothingRight
      <3> HIDE DEF w
      <3> QED BY <3>1, <3>2
    <2> HIDE DEF w
    <2> QED BY <1>1, <2>1, <2>2, <2>4, OneWorks
  <1>6. CASE ~route.cut /\ ~(Points(g, route.n) < 2)
    <2> DEFINE w == [work[g] EXCEPT !.pc = "routing"]
    <2>1. work' = [work EXCEPT ![g] = w]
      BY <1>6 DEF Enter
    <2>2. w \in Works /\ w.pc = "routing"
      BY <1>3
    <2>3. FirstPoint(g) < LastPoint(g, route.n)
      BY <1>2, <1>6 DEF Points
    <2> HIDE DEF w
    <2> QED BY <1>1, <2>1, <2>2, <2>3, OneWorks
  <1> QED BY <1>4, <1>5, <1>6

LEMMA CollectRight == ASSUME RouteInv, NEW g \in Packet, Collect(g) PROVE RouteInv'
  <1> DEFINE lo == FirstPoint(g)
             hi == LastPoint(g, route.n) - 1
             Got(steps, clean) == [pc |-> "done", steps |-> steps, clean |-> clean]
  <1>1. /\ work \in [Packet -> Works] /\ work[g].pc = "routing" /\ UNCHANGED <<route, cancels>>
    BY DEF Collect, RouteInv, Workers
  <1>2. lo \in Nat \ {0} /\ hi \in Nat /\ lo <= hi + 1
    BY <1>1, AtWork
  <1>3. ASSUME NEW steps, NEW clean \in BOOLEAN, Right(steps, lo, hi, clean),
               Done(g, steps, clean)
        PROVE  RouteInv'
    <2> DEFINE w == Got(steps, clean)
    <2>1. w \in Works /\ w.pc = "done" /\ w.steps = steps /\ w.clean = clean
      BY <1>3 DEF Works, Right
    <2>2. work' = [work EXCEPT ![g] = w]
      <3>1. ASSUME NEW h \in Packet, h # g
            PROVE  work[h] = [pc |-> work[h].pc, steps |-> work[h].steps, clean |-> work[h].clean]
        BY <1>1 DEF Works
      <3> QED BY <1>1, <1>3, <3>1 DEF Done, Placed
    <2>3. Right(w.steps, lo, hi, w.clean)
      BY <1>3, <2>1
    <2> HIDE DEF w
    <2> QED BY <1>1, <2>1, <2>2, <2>3, OneWorks
  <1>4. lo <= hi
    <2>1. lo < LastPoint(g, route.n)
      BY <1>1 DEF RouteInv, Workers
    <2>2. LastPoint(g, route.n) \in Nat
      BY <1>1, AtWork
    <2> QED BY <1>2, <2>1, <2>2
  <1>5. ASSUME NEW parts \in [lo .. hi -> 1 .. MaxParts], NEW marked, NEW beyond \in BOOLEAN,
               Done(g, ToResult(Response(lo, hi, parts, marked, beyond), lo, hi), marked = lo .. hi)
        PROVE  RouteInv'
    <2> DEFINE steps == ToResult(Response(lo, hi, parts, marked, beyond), lo, hi)
               clean == (marked = lo .. hi)
    <2>1. Right(steps, lo, hi, clean)
      BY <1>2, <1>4, ResponseRight
    <2>2. Done(g, steps, clean) /\ clean \in BOOLEAN
      BY <1>5
    <2> HIDE DEF steps, clean, lo, hi
    <2> QED BY <1>3, <2>1, <2>2
  <1>6. CASE Estimated(g, lo, hi)
    <2>1. Right(Estimates(lo, hi), lo, hi, TRUE)
      BY <1>2, <1>4, EstimatesRight
    <2> HIDE DEF lo, hi
    <2> QED BY <1>3, <1>6, <2>1 DEF Estimated
  <1>7. \/ Estimated(g, lo, hi)
        \/ \E parts \in [lo .. hi -> 1 .. MaxParts], marked \in SUBSET (lo .. hi),
              beyond \in BOOLEAN :
              Done(g, ToResult(Response(lo, hi, parts, marked, beyond), lo, hi),
                   marked = lo .. hi)
    <2>1. CASE Estimated(g, lo, hi)
      BY <2>1
    <2>2. CASE ~Estimated(g, lo, hi)
      <3>1. PICK r \in Returns : r.span = <<lo, hi>> /\
               \E q \in r.results : Done(g, q.steps, q.clean)
        BY <2>2 DEF Collect
      <3>2. r.results = Results(lo, hi)
        <4>1. PICK s \in Spans : r = [span |-> s, results |-> Results(s[1], s[2])]
          BY <3>1 DEF Returns
        <4>2. s = <<lo, hi>> /\ r.results = Results(s[1], s[2])
          BY <3>1, <4>1
        <4> QED BY <4>2
      <3> HIDE DEF lo, hi
      <3>3. PICK q \in Results(lo, hi) : Done(g, q.steps, q.clean)
        BY <3>1, <3>2
      <3> QED BY <3>3 DEF Results
    <2> QED BY <2>1, <2>2
  <1> HIDE DEF lo, hi
  <1> QED BY <1>5, <1>6, <1>7

LEMMA JoinRight == ASSUME RouteInv, Join PROVE RouteInv'
  <1>1. /\ route \in Routes /\ route.pc = "wait" /\ route.n \in Lengths /\ route.n >= 2
        /\ work \in [Packet -> Works] /\ work' = [g \in Packet |-> NoWork]
        /\ cancels' = cancels /\ cancels \in 0 .. MaxCancels
    BY DEF Join, RouteInv, Client, Workers
  <1>2. route.n \in Nat /\ PacketCount(route.n) <= MaxPackets
    BY <1>1, PlannerAssumption
  <1>3. ASSUME NEW code \in {"error", "ok"}, NEW steps \in Seq(LegSteps), NEW clean \in BOOLEAN,
               Answer(code, steps, clean)
        PROVE  /\ Client' /\ Workers' /\ route'.reply = code /\ route'.cut = route.cut
               /\ route'.steps = steps /\ route'.clean = clean /\ route'.n = route.n
    <2>1. /\ route' \in Routes /\ route'.pc = "idle" /\ route'.reply = code
          /\ route'.cut = route.cut /\ route'.steps = steps /\ route'.clean = clean
          /\ route'.n = route.n
      BY <1>1, <1>3 DEF Answer, Routes, Replies
    <2>2. Client'
      BY <1>1, <2>1 DEF Client
    <2>3. Workers'
      BY <1>1, <2>1, NoWorkTyped DEF Workers
    <2> QED BY <2>1, <2>2, <2>3
  <1>4. CASE GroupFailed
    <2>1. Answer("error", <<>>, TRUE)
      BY <1>4 DEF Join
    <2>2. Client' /\ Workers' /\ route'.reply = "error" /\ route'.cut = route.cut
      <3>1. <<>> \in Seq(LegSteps)
        OBVIOUS
      <3> QED BY <1>3, <2>1, <3>1
    <2>3. route.cut
      BY <1>4 DEF GroupFailed, RouteInv, Workers
    <2> QED BY <2>2, <2>3 DEF RouteInv, Replied
  <1>5. CASE ~GroupFailed
    <2> DEFINE ss == [g \in Packet |-> work[g].steps]
               clean == [g \in Packet |-> work[g].clean]
               all == \A g \in Packet : work[g].clean
               s == FlattenSeq(ss)
    <2>1. Contributions(ss, clean, route.n)
      <3>1. ss \in [Packet -> Seq(LegSteps)] /\ clean \in [Packet -> BOOLEAN]
        BY <1>1 DEF Works
      <3>2. ASSUME NEW g \in Packet
            PROVE  IF g <= PacketCount(route.n)
                   THEN Right(ss[g], FirstPoint(g), LastPoint(g, route.n) - 1, clean[g])
                   ELSE ss[g] = <<>>
        <4>1. ss[g] = work[g].steps /\ clean[g] = work[g].clean
          OBVIOUS
        <4>2. work[g].pc \in {"off", "done"}
          BY <1>5 DEF Join, GroupFailed
        <4>3. PacketCount(route.n) \in Nat /\ g \in Nat
          BY <1>1, <1>2, CountBounds, PlannerAssumption DEF Packet
        <4>4. CASE g <= PacketCount(route.n)
          <5>1. work[g].pc = "done"
            BY <1>1, <4>2, <4>3, <4>4 DEF RouteInv, Workers
          <5> QED BY <4>1, <4>4, <5>1 DEF RouteInv, Workers
        <4>5. CASE ~(g <= PacketCount(route.n))
          <5>1. work[g] = NoWork
            BY <4>3, <4>5 DEF RouteInv, Workers
          <5> QED BY <4>1, <4>5, <5>1, NoWorkTyped
        <4> QED BY <4>4, <4>5
      <3> HIDE DEF ss, clean
      <3> QED BY <3>1, <3>2 DEF Contributions
    <2>2. Answer("ok", s, all)
      BY <1>5 DEF Join
    <2>3. all <=> \A g \in Packet : clean[g]
      OBVIOUS
    <2>4. all \in BOOLEAN
      OBVIOUS
    <2> HIDE DEF ss, clean, all
    <2>5. Prefix(s, MaxPackets, ss, clean, route.n)
      BY <1>1, <1>2, <2>1, AllJoined
    <2> HIDE DEF s
    <2>6. Ordered(s, route.n, \A g \in Packet : clean[g]) /\ Priced(s, \A g \in Packet : clean[g])
      BY <1>1, <1>2, <2>1, <2>5, AnswerOrdered, AnswerPriced
    <2>7. Ordered(s, route.n, all) /\ Priced(s, all)
      BY <2>3, <2>6 DEF Ordered, Priced
    <2>8. s \in Seq(LegSteps)
      BY <2>5 DEF Prefix
    <2>9. /\ Client' /\ Workers' /\ route'.reply = "ok"
          /\ route'.steps = s /\ route'.clean = all /\ route'.n = route.n
      BY <1>3, <2>2, <2>4, <2>8
    <2> QED BY <2>7, <2>9 DEF RouteInv, Replied
  <1> QED BY <1>4, <1>5

LEMMA CancelRight == ASSUME RouteInv, Cancel PROVE RouteInv'
  <1>1. /\ route' = [route EXCEPT !.cut = TRUE] /\ route.pc = "wait" /\ work' = work
        /\ cancels' = cancels + 1 /\ cancels < MaxCancels
        /\ route \in Routes /\ cancels \in 0 .. MaxCancels /\ MaxCancels \in Nat
    BY PlannerAssumption DEF Cancel, RouteInv, Client
  <1>2. /\ route' \in Routes /\ route'.pc = route.pc /\ route'.n = route.n /\ route'.cut
        /\ route'.reply = route.reply
    BY <1>1 DEF Routes
  <1>3. Client' /\ Replied'
    BY <1>1, <1>2 DEF RouteInv, Client, Replied
  <1>4. Workers'
    BY <1>1, <1>2 DEF RouteInv, Workers
  <1> QED BY <1>3, <1>4 DEF RouteInv

LEMMA RouteInvariant == Spec => []RouteInv
  <1>1. RouteInv /\ [Next]_vars => RouteInv'
    <2> SUFFICES ASSUME RouteInv, [Next]_vars PROVE RouteInv'
      OBVIOUS
    <2>1. CASE UNCHANGED <<route, work, cancels>>
      BY <2>1 DEF RouteInv, Client, Workers, Replied
    <2>2. ASSUME NEW g \in Packet, Call(g) PROVE UNCHANGED <<route, work, cancels>>
      BY <2>2 DEF Call
    <2>3. ASSUME NEW i \in Pool!Item, Opens(i) \/ Fades(i) \/ Forgets(i)
          PROVE  UNCHANGED <<route, work, cancels>>
      BY <2>3 DEF Opens, Fades, Forgets
    <2>4. CASE UNCHANGED vars
      BY <2>1, <2>4 DEF vars
    <2> QED BY <2>1, <2>2, <2>3, <2>4, AskRight, EnterRight, CollectRight, JoinRight, CancelRight
            DEF Next, Step
  <1> QED BY <1>1, StartRight, PTL DEF Spec

\* A route fails only if its client is gone: a packet fails only at its first
\* look at a cancelled context, and the keys' failures end in estimates.
THEOREM OnlyCutRoutesFail == Spec => []FailsOnlyWhenCut
  <1>1. RouteInv => FailsOnlyWhenCut
    BY DEF RouteInv, Replied, FailsOnlyWhenCut
  <1> QED BY <1>1, RouteInvariant, PTL

\* Even if the provider leaves arrival marks out, no path step is paid twice.
THEOREM PaysEachPartOnce == Spec => []NothingPaidTwice
  <1>1. RouteInv => NothingPaidTwice
    <2> SUFFICES ASSUME RouteInv, route.reply = "ok" PROVE NothingPaidTwice
      BY DEF NothingPaidTwice
    <2>1. route.steps \in Seq(LegSteps)
      BY DEF RouteInv, Client, Routes
    <2>2. DOMAIN route.steps = 1 .. Len(route.steps)
      BY <2>1
    <2> QED BY <2>2 DEF RouteInv, Replied, Priced, NothingPaidTwice
  <1> QED BY <1>1, RouteInvariant, PTL

\* With all marks there each leg costs the path steps driven for it.
THEOREM LegsPriced == Spec => []PricedByLeg
  <1>1. RouteInv => PricedByLeg
    <2> SUFFICES ASSUME RouteInv, route.reply = "ok", route.clean PROVE PricedByLeg
      BY DEF PricedByLeg
    <2>1. route.steps \in Seq(LegSteps)
      BY DEF RouteInv, Client, Routes
    <2>2. DOMAIN route.steps = 1 .. Len(route.steps)
      BY <2>1
    <2> QED BY <2>2 DEF RouteInv, Replied, Priced, PricedByLeg, Whole
  <1> QED BY <1>1, RouteInvariant, PTL

\* The answer names the legs of the route in its order.
THEOREM LegsKeepOrder == Spec => []LegsInOrder
  <1>1. RouteInv => LegsInOrder
    <2> SUFFICES ASSUME RouteInv, route.reply = "ok" PROVE LegsInOrder
      BY DEF LegsInOrder
    <2> DEFINE s == route.steps
    <2>1. s \in Seq(LegSteps) /\ route.n \in Nat
      BY DEF RouteInv, Client, Routes
    <2>2. DOMAIN s = 1 .. Len(s) /\ DOMAIN Legs = 1 .. Len(s)
          /\ \A i \in 1 .. Len(s) : Legs[i] = s[i].leg
      BY <2>1 DEF Legs
    <2>3. Ordered(s, route.n, route.clean)
      BY DEF RouteInv, Replied
    <2> HIDE DEF s
    <2>4. \A i, k \in DOMAIN Legs : i < k => Legs[i] < Legs[k]
      BY <2>2, <2>3 DEF Ordered
    <2>5. ASSUME route.clean PROVE Legs = [k \in 1 .. route.n - 1 |-> k]
      <3>1. Len(s) = route.n - 1 /\ \A i \in 1 .. Len(s) : s[i].leg = i
        BY <2>3, <2>5 DEF Ordered
      <3>2. Legs = [i \in 1 .. route.n - 1 |-> s[i].leg]
        BY <2>2, <3>1 DEF Legs, s
      <3> QED BY <3>1, <3>2
    <2>6. ASSUME NEW g \in 1 .. PacketCount(route.n), NEW k \in LegsOf(g, route.n),
                 k \in ToSet(Legs)
          PROVE  FirstPoint(g) .. k \subseteq ToSet(Legs)
      <3>1. ToSet(Legs) = {s[i].leg : i \in 1 .. Len(s)}
        BY <2>2 DEF ToSet
      <3>2. PICK i \in 1 .. Len(s) : s[i].leg = k
        BY <2>6, <3>1
      <3> QED BY <2>3, <2>6, <3>1, <3>2 DEF Ordered
    <2> QED BY <2>4, <2>5, <2>6 DEF LegsInOrder
  <1> QED BY <1>1, RouteInvariant, PTL

\* Every variable keeps its shape, the pool's counters their bounds: the packets
\* of a route use the pool like any other callers of Route.
THEOREM TypeCorrect ==
  ASSUME NEW W \in Nat, PoolFacts!ClaimsWide(W)
  PROVE  Spec => []TypeOK
  <1>1. RouteInv /\ Pool!TypeOK => TypeOK
    BY DEF RouteInv, Client, Routes, Replies, Workers, Works, TypeOK
  <1>2. Spec => []Pool!TypeOK
    BY PoolTyped
  <1> QED BY <1>1, <1>2, RouteInvariant, PTL
=============================================================================
