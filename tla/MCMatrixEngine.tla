--------------------------- MODULE MCMatrixEngine ---------------------------
(***************************************************************************)
(* Instances of MatrixEngine for TLC: which requests run, over which       *)
(* points, and a small planner that satisfies PlanContract.                *)
(***************************************************************************)
EXTENDS MatrixEngine, FiniteSetsExt

CONSTANTS r1, r2, A, B, C

\* Closed tours that contain every arc over two and over three points.
Tours(n) ==
    IF n = 2 THEN << << <<1, 2>>, <<2, 1>> >> >>
    ELSE << << <<1, 2>>, <<2, 3>>, <<3, 1>> >>, << <<1, 3>>, <<3, 2>>, <<2, 1>> >> >>

\* From the first missing arc of a tour to its last: what lies between and is
\* not missing is a bridge.
Trim(tour, miss) ==
    LET hit == {k \in DOMAIN tour : tour[k] \in miss}
    IN  SubSeq(tour, Min(hit), Max(hit))

MCPlan(n, miss) ==
    LET used == SelectSeq(Tours(n), LAMBDA tour : \E k \in DOMAIN tour : tour[k] \in miss)
    IN  [k \in DOMAIN used |-> Trim(used[k], miss)]

\* Every place in a cell of its own and near no other.
OwnCells  == [p \in Place |-> p]
FarApart  == {<<p, p>> : p \in Place}
\* C is within the radius of A.
CNearA    == FarApart \cup {<<A, C>>, <<C, A>>}

\* Two clients that share a point, in opposite order; their other points are
\* neighbours.
Opposed   == [r \in Request |-> IF r = r1 THEN <<A, B>> ELSE <<B, C>>]
Triangle  == [r \in Request |-> <<A, B, C>>]
\* The same point twice; the other request has too few points.
Doubled   == [r \in {r1, r2} |-> IF r = r1 THEN <<A, B, A>> ELSE <<A>>]
Hour0     == [r \in Request |-> 0]

\* The service has restarted: an earlier life left the strict request's first
\* pair in MySQL, Redis has lost it, and the other client has just called.
RestartedInit ==
    /\ hour = 0 /\ crashes = 0
    /\ archive = {[o |-> A, d |-> B, slot |-> 0, src |-> "provider", late |-> FALSE]}
    /\ redis = {} /\ queue = <<>>
    /\ job = [r \in Request |-> IF r = r1 THEN [Fresh(r, 0) EXCEPT !.pc = "idle"]
                              ELSE Fresh(r, 0)]

RestartedSpec == RestartedInit /\ [][Next]_vars
=============================================================================
