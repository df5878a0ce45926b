----------------------------- MODULE RoutePlanner ------------------------------
(***************************************************************************)
(* POST /v1/route: Planner.RouteWaypoints (src/internal/planner) cuts a    *)
(* route into packets, sends them to the provider in parallel goroutines   *)
(* of one errgroup, and joins their steps. Each goroutine runs one         *)
(* AmapProvider.Route, so that the packets of a route compete for the keys *)
(* of one pool (KeyPool); toResult turns an answer of the provider, a list *)
(* of path steps with arrival marks, into one step per leg.                *)
(*                                                                         *)
(* Points are the positions 1..n of a route, leg k leads from k to k + 1.  *)
(***************************************************************************)
EXTENDS Integers, Sequences, FiniteSets, SequencesExt

CONSTANTS
    Items, Broken, Flaky, FailLimit, FullWeights, ProbeWeights, MaxCredit, MaxWait,  \* KeyPool
    BatchSize,     \* Planner.BatchSize
    Lengths,       \* the numbers of points clients ask for
    MaxPackets,    \* bound: routes of more packets are not asked for
    MaxParts,      \* bound: path steps of one leg in a response
    MaxCancels     \* bound: how many clients disconnect

Packet == 1 .. MaxPackets

VARIABLES
    good, hard, fails, closed, credit, call, wait,   \* the pool; call[g] is g's Route
    route,    \* the local state of RouteWaypoints, and the last answer
    work,     \* work[g]: the goroutine of packet g
    cancels   \* how many clients disconnected

Pool == INSTANCE KeyPool WITH Caller <- Packet, Impatient <- Packet

pool == <<good, hard, fails, closed, credit, call, wait>>
vars == <<pool, route, work, cancels>>

-----------------------------------------------------------------------------
(* Packets *)

PacketCount(n) == (n + BatchSize - 1) \div BatchSize

\* Mutated form: the packets overlap by a leg.
FirstOnceMore(g) == IF g = 1 THEN 1 ELSE (g - 1) * BatchSize - 1

\* WaypointsPacket: a packet starts at the last point of the one before.
FirstPoint(g) == IF g = 1 THEN 1 ELSE (g - 1) * BatchSize
LastPoint(g, n) == IF g * BatchSize > n THEN n ELSE g * BatchSize

Points(g, n) == LastPoint(g, n) - FirstPoint(g) + 1
LegsOf(g, n) == FirstPoint(g) .. LastPoint(g, n) - 1

ASSUME KeysAssumption == Pool!PoolAssumption

ASSUME PlannerAssumption ==
    /\ BatchSize \in Nat \ {0}
    /\ Lengths \subseteq Nat
    /\ MaxPackets \in Nat \ {0} /\ MaxParts \in Nat \ {0} /\ MaxCancels \in Nat
    /\ \A n \in Lengths : PacketCount(n) <= MaxPackets

-----------------------------------------------------------------------------
(* Responses of the provider *)

\* A path step: part "part" of the "parts" into which the provider divides
\* leg "leg"; mark says that it carries the arrival mark.
PathStep(leg, part, parts, mark) ==
    [leg |-> leg, part |-> part, parts |-> parts, mark |-> mark]

\* A response to legs lo..hi that divides leg k into parts[k] path steps and
\* marks the arrival of the legs in marked; beyond says that a path step
\* (of no leg, 0) follows the last arrival. That there is at most one is taken
\* for granted of the provider: toResult drops the first and would add a second
\* one to the last leg.
Response(lo, hi, parts, marked, beyond) ==
    FlattenSeq([i \in 1 .. hi - lo + 1 |->
        LET k == lo + i - 1
        IN  [p \in 1 .. parts[k] |-> PathStep(k, p, parts[k], p = parts[k] /\ k \in marked)]])
    \o (IF beyond THEN <<PathStep(0, hi, 1, FALSE)>> ELSE <<>>)

\* A leg's step: what the path steps in "of" add up to.
LegStep(leg, of, src) == [leg |-> leg, of |-> of, src |-> src]

\* Mutated form: a path step always starts a leg.
NeverContinues(acc) == FALSE

\* checkPoint = 0: the last path step did not arrive, so this one goes on.
Continues(acc) == ~acc.arrived /\ acc.steps # <<>>

\* One round of toResult's loop; what exceeds the legs asked for is dropped.
Absorb(acc, p, lo, hi) ==
    [steps |-> IF Continues(acc)
               THEN [acc.steps EXCEPT ![Len(acc.steps)].of = @ \cup {p}]
               ELSE IF Len(acc.steps) < hi - lo + 1
               THEN Append(acc.steps, LegStep(lo + Len(acc.steps), {p}, "provider"))
               ELSE acc.steps,
     arrived |-> p.mark]

ToResult(path, lo, hi) ==
    LET after[i \in 0 .. Len(path)] ==
            IF i = 0 THEN [steps |-> <<>>, arrived |-> TRUE]
            ELSE Absorb(after[i - 1], path[i], lo, hi)
    IN  after[Len(path)].steps

\* The legs lo..hi of a packet of a route that is asked for.
Spans == {s \in {<<FirstPoint(g), LastPoint(g, n) - 1>> : g \in Packet, n \in Lengths} :
              s[1] <= s[2]}

\* What Route makes of the responses there may be for lo..hi (some marks may be
\* missing, some path steps exceed the route), and whether all marks were there.
Results(lo, hi) ==
    {[steps |-> ToResult(Response(lo, hi, parts, marked, beyond), lo, hi),
      clean |-> marked = lo .. hi] :
        parts \in [lo .. hi -> 1 .. MaxParts], marked \in SUBSET (lo .. hi), beyond \in BOOLEAN}

Returns == {[span |-> s, results |-> Results(s[1], s[2])] : s \in Spans}

\* fallbackRoute: an estimate for each leg.
Estimates(lo, hi) == [i \in 1 .. hi - lo + 1 |-> LegStep(lo + i - 1, {}, "fallback")]

-----------------------------------------------------------------------------
(* One route at a time *)

NoWork == [pc |-> "off", steps |-> <<>>, clean |-> TRUE]

\* clean is a history variable: every response carried all its marks.
Idle == [pc |-> "idle", n |-> 0, cut |-> FALSE, clean |-> TRUE, reply |-> "none", steps |-> <<>>]

Answer(code, steps, clean) ==
    route' = [route EXCEPT !.pc = "idle", !.reply = code, !.steps = steps, !.clean = clean]

\* routeHandler refuses less than two points; otherwise the goroutines start.
Ask(n) ==
    /\ route.pc = "idle"
    /\ IF n < 2
       THEN /\ route' = [Idle EXCEPT !.n = n, !.reply = "400"]
            /\ UNCHANGED work
       ELSE /\ route' = [Idle EXCEPT !.pc = "wait", !.n = n]
            /\ work' = [g \in Packet |-> IF g <= PacketCount(n)
                                         THEN [NoWork EXCEPT !.pc = "ready"] ELSE NoWork]
    /\ UNCHANGED <<pool, cancels>>

\* A goroutine looks at the context before it calls Route, which has nothing
\* to do for a packet of one point.
Enter(g) ==
    /\ work[g].pc = "ready"
    /\ IF route.cut
       THEN work' = [work EXCEPT ![g].pc = "failed"] /\ UNCHANGED pool
       ELSE IF Points(g, route.n) < 2
       THEN work' = [work EXCEPT ![g].pc = "done"] /\ UNCHANGED pool
       ELSE work' = [work EXCEPT ![g].pc = "routing"] /\ Pool!Begin(g)
    /\ UNCHANGED <<route, cancels>>

\* Route's loop over the keys.
Call(g) == Pool!Step(g) /\ UNCHANGED <<route, work, cancels>>

\* Mutated form: goroutines append their steps in the order they finish.
PlacedWhenDone(g, steps) ==
    LET n == Cardinality({k \in Packet : work[k].pc = "done"}) + 1
    IN  [k \in Packet |-> IF k = n THEN steps ELSE work[k].steps]

\* results[i] = res.Steps: each goroutine has its own place.
Placed(g, steps) == [k \in Packet |-> IF k = g THEN steps ELSE work[k].steps]

Done(g, steps, clean) ==
    work' = [k \in Packet |-> [pc |-> IF k = g THEN "done" ELSE work[k].pc,
                               steps |-> Placed(g, steps)[k],
                               clean |-> IF k = g THEN clean ELSE work[k].clean]]

\* Mutated form: a packet without road data fails.
EstimateRefused(g, lo, hi) == work' = [work EXCEPT ![g].pc = "failed"]

\* ErrAllKeysFailed does not reach the planner: estimates are an answer.
Estimated(g, lo, hi) == Done(g, Estimates(lo, hi), TRUE)

\* Route has returned: with what it made of the provider's response or with
\* estimates.
Collect(g) ==
    LET lo == FirstPoint(g)
        hi == LastPoint(g, route.n) - 1
    IN
    /\ work[g].pc = "routing" /\ call[g].pc = "idle"
    /\ \/ /\ call[g].reply = "provider"
          /\ \E r \in Returns : r.span = <<lo, hi>> /\
                \E q \in r.results : Done(g, q.steps, q.clean)
       \/ /\ call[g].reply = "fallback"
          /\ Estimated(g, lo, hi)
    /\ UNCHANGED <<pool, route, cancels>>

\* Some goroutine returned an error.
GroupFailed == \E g \in Packet : work[g].pc = "failed"

\* g.Wait, and the steps joined in the order of the packets.
Join ==
    /\ route.pc = "wait"
    /\ \A g \in Packet : work[g].pc \in {"off", "done", "failed"}
    /\ IF GroupFailed THEN Answer("error", <<>>, TRUE)
       ELSE Answer("ok", FlattenSeq([g \in Packet |-> work[g].steps]),
                   \A g \in Packet : work[g].clean)
    /\ work' = [g \in Packet |-> NoWork]
    /\ UNCHANGED <<pool, cancels>>

\* The client disconnects: the context of the request, the group's and the
\* HTTP requests' are cancelled together.
Cancel ==
    /\ route.pc = "wait" /\ ~route.cut
    /\ cancels < MaxCancels
    /\ cancels' = cancels + 1
    /\ route' = [route EXCEPT !.cut = TRUE]
    /\ Pool!Cut({g \in Packet : call[g].pc # "idle"})
    /\ UNCHANGED work

\* Time passes for the pool.
Opens(i) == Pool!GateOpens(i) /\ UNCHANGED <<route, work, cancels>>
Fades(i) == Pool!GoodFades(i) /\ UNCHANGED <<route, work, cancels>>
Forgets(i) == (Pool!HardFades(i) \/ Pool!FailsFade(i)) /\ UNCHANGED <<route, work, cancels>>

Sound == {i \in Pool!Item : Items[i] \notin Broken}

Init == Pool!Init /\ route = Idle /\ work = [g \in Packet |-> NoWork] /\ cancels = 0

Step == Join \/ \E g \in Packet : Enter(g) \/ Call(g) \/ Collect(g)

Next ==
    \/ Step
    \/ Cancel
    \/ \E i \in Pool!Item : Opens(i) \/ Fades(i) \/ Forgets(i)
    \/ \E n \in Lengths : Ask(n)

\* Some goroutine that can go on does, HTTP requests end (TimeoutSec), clients
\* keep asking, and time opens the gate of a sound key that is left alone and
\* wears its failures off.
Fairness ==
    /\ WF_vars(Step)
    /\ WF_vars(\E n \in Lengths : n >= 2 /\ Ask(n))
    /\ \A i \in Sound : WF_vars(Opens(i)) /\ WF_vars(Forgets(i))

Spec == Init /\ [][Next]_vars /\ Fairness

-----------------------------------------------------------------------------
(* Properties *)

TypeOK ==
    /\ Pool!TypeOK
    /\ route.pc \in {"idle", "wait"} /\ route.cut \in BOOLEAN
    /\ route.reply \in {"none", "ok", "error", "400"}
    /\ \A g \in Packet : work[g].pc \in {"off", "ready", "routing", "done", "failed"}
    /\ cancels \in 0 .. MaxCancels

Legs == [i \in DOMAIN route.steps |-> route.steps[i].leg]

\* The answer names the legs of the route in its order, none of them twice, in
\* whatever order the packets finish; of each packet it has the first ones, and
\* all of them unless the provider left arrival marks out.
LegsInOrder ==
    route.reply = "ok" =>
        /\ \A i, k \in DOMAIN Legs : i < k => Legs[i] < Legs[k]
        /\ route.clean => Legs = [k \in 1 .. route.n - 1 |-> k]
        /\ \A g \in 1 .. PacketCount(route.n) : \A k \in LegsOf(g, route.n) :
              k \in ToSet(Legs) => FirstPoint(g) .. k \subseteq ToSet(Legs)

\* With all marks present, and at most one path step after the last arrival, each
\* leg costs exactly the path steps the provider drove for it, wherever packets
\* were cut and however it divided the legs.
PricedByLeg ==
    route.reply = "ok" /\ route.clean =>
        \A i \in DOMAIN route.steps :
            LET s == route.steps[i]
            IN  s.src = "provider" =>
                    /\ \A p \in s.of : p.leg = s.leg
                    /\ \E p \in s.of : Cardinality(s.of) = p.parts

\* Even if marks are missing no path step is paid for twice.
NothingPaidTwice ==
    route.reply = "ok" =>
        \A i, k \in DOMAIN route.steps :
            i # k => route.steps[i].of \cap route.steps[k].of = {}

\* A route fails only if its client is gone: keys that fail end in estimates.
FailsOnlyWhenCut == route.reply = "error" => route.cut

\* Every route asked for is answered, although its packets compete for keys.
RouteReturns == route.pc = "wait" ~> route.pc = "idle"

\* With a sound key road data keeps coming: no pattern of weights, failures and
\* parallel packets locks the sound key out.
RoadDataFlows == []<>(\E g \in Packet : work[g].pc = "routing" /\ call[g].reply = "provider")
=============================================================================
