--------------------------- MODULE MCPrintBoard ---------------------------
(* Model-checking instances of PrintBoard: two cards of one order.          *)
EXTENDS PrintBoard, TLC

CONSTANTS o1, c1, c2, pla, petg

MCOrderOf == (c1 :> o1) @@ (c2 :> o1)

\* Two multi-material cards that draw in opposite orders.
CrossedLines ==
    (c1 :> << [material |-> pla, qty |-> 2], [material |-> petg, qty |-> 1] >>)
    @@ (c2 :> << [material |-> petg, qty |-> 1], [material |-> pla, qty |-> 1] >>)

\* One draw per card, of the same material.
PlainLines ==
    (c1 :> << [material |-> pla, qty |-> 2] >>)
    @@ (c2 :> << [material |-> pla, qty |-> 1] >>)

\* pla comes in two lots; both run short.
MCLotMaterial == << pla, petg, pla >>
MCLotQty      == << 2, 1, 1 >>

Symmetry == Permutations(Requests)
=============================================================================
