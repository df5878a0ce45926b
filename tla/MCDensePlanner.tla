--------------------------- MODULE MCDensePlanner ---------------------------
(***************************************************************************)
(* Inputs of the planner for TLC.                                          *)
(***************************************************************************)
EXTENDS DensePlanner

\* Every set of up to six arcs between the points.
UpToSix == {S \in SUBSET Arcs(N) : Cardinality(S) <= 6}

\* Thirteen arcs between five points.
Thirteen == {Arcs(N) \ {<<1, 3>>, <<1, 4>>, <<2, 4>>, <<3, 2>>, <<4, 2>>, <<4, 3>>, <<4, 5>>}}
=============================================================================
