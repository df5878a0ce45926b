------------------------------- MODULE Walks -------------------------------
(***************************************************************************)
(* Walks over the points of a request, as the arc-cover planner hands them *)
(* to the engine: sequences of arcs, each starting where the one before it *)
(* ended.                                                                  *)
(***************************************************************************)
EXTENDS Naturals, Sequences, Functions

\* The directed arcs between n points, and those between different points.
Cells(n) == (1 .. n) \X (1 .. n)
Arcs(n)  == {a \in Cells(n) : a[1] # a[2]}

Contiguous(walk) == \A k \in 1 .. Len(walk) - 1 : walk[k][2] = walk[k + 1][1]

\* One walk fits in one provider task.
Fits(walk, maxLegs) == Len(walk) \in 1 .. maxLegs /\ Contiguous(walk)

\* What the engine relies on a plan for: walks that fit, over the request's
\* points, that together contain every missing arc.
Covers(plan, n, miss, maxLegs) ==
    /\ plan \in Seq(Seq(Cells(n)))
    /\ \A k \in DOMAIN plan : Fits(plan[k], maxLegs)
    /\ \A a \in miss : \E k \in DOMAIN plan : a \in Range(plan[k])
=============================================================================
