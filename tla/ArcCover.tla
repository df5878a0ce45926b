------------------------------ MODULE ArcCover ------------------------------
(***************************************************************************)
(* What an ArcCoverPlanner (src/internal/arccover/types.go) promises: a    *)
(* list of walks, each of at most maxLegs legs, in which every required    *)
(* arc is bought exactly once, by one of its legs. A walk that buys        *)
(* nothing is not planned.                                                 *)
(***************************************************************************)
EXTENDS Walks

CONSTANTS N    \* number of points

VARIABLES
    required,  \* the arcs to cover
    maxLegs,
    todo,      \* the required arcs that no walk buys yet
    plan       \* the walks planned so far

vars == <<required, maxLegs, todo, plan>>

Init ==
    /\ required \subseteq Arcs(N) /\ required # {}
    /\ maxLegs \in Nat \ {0}
    /\ todo = required
    /\ plan = <<>>

\* The next walk, and the arcs it buys.
AddWalk ==
    /\ Len(plan') = Len(plan) + 1
    /\ plan = SubSeq(plan', 1, Len(plan))
    /\ LET walk   == plan'[Len(plan')]
           bought == todo \ todo'
       IN  /\ Fits(walk, maxLegs)
           /\ bought # {} /\ bought \subseteq Range(walk)
    /\ todo' \subseteq todo
    /\ UNCHANGED <<required, maxLegs>>

Safety == Init /\ [][AddWalk]_vars

Spec == Safety /\ <>(todo = {})
=============================================================================
