---------------------------- MODULE MCEdgeStores -----------------------------
(***************************************************************************)
(* Two clients and three places for TLC; B1 and B2 lie in one cell.        *)
(***************************************************************************)
EXTENDS EdgeStores

CONSTANTS A, B1, B2, c1, c2

OneCell == [p \in {A, B1, B2} |-> IF p = A THEN A ELSE B1]

Map ==
    LET Far(p, q) == IF A \in {p, q} THEN (IF B1 \in {p, q} THEN 900 ELSE 910) ELSE 15
    IN  [p, q \in {A, B1, B2} |-> IF p = q THEN 0 ELSE Far(p, q)]

AskFor(o, d, ctx, slot, strict, wide) ==
    [o |-> o, d |-> d, ctx |-> ctx, slot |-> slot, strict |-> strict, wide |-> wide]

\* Monday 22:00.
Monday22 == 46

\* A pair one way for the current hour, with a negative method; with another one
\* and a width of 1 m its neighbour the other way for a bare hour; the pair again
\* by another tenant with a strict slot, and two places in one cell.
Neighbours ==
    c1 :> {AskFor(A, B1, <<"t", -1, 0>>, NoSlot, FALSE, 200)}
    @@ c2 :> {AskFor(B2, A, <<"t", -2, 0>>, [day |-> NoDay, hour |-> 22], FALSE, 1),
              AskFor(A, B1, <<"u", -1, 0>>, [day |-> 1, hour |-> 23], TRUE, 200),
              AskFor(B1, B2, <<"u", -1, 0>>, NoSlot, TRUE, 200)}

\* The premise of ArchiveKeeps.
ASSUME BuyersDiffer == OneBuyer
=============================================================================
