------------------------------ MODULE MCTickFrame ------------------------------
(***************************************************************************)
(* An image of 16 x 16 pixels with grids of 2 x 2, 1 x 1 and 1 x 1 cells.  *)
(* Boxes appear in three cells, whose large boxes overlap in a chain: the  *)
(* middle one overlaps the others by 0.49, which overlap each other by     *)
(* 0.448, just below threshold_nms.                                        *)
(***************************************************************************)
EXTENDS TickFrame, TLC

CONSTANTS w1, w2

MCHeads == <<<<2, 2>>, <<1, 1>>, <<1, 1>>>>

MCZp == -128

Left == <<1, 0, 0>>
Right == <<1, 0, 1>>
Middle == <<2, 0, 0>>

Silent == [box |-> [k \in 0 .. 3 |-> BoxZp], score |-> ScoreZp, sum |-> SumZp]

\* Distances of so many pixels to all sides.
Cell(cell, pixels, score, sum) ==
    [box |-> [k \in 0 .. 3 |-> BoxZp + (pixels * BoxCounts) \div Stride(cell)],
     score |-> score, sum |-> sum]

\* The threshold lies between the counts -26 and -25, and is truncated to -25.
Choices(cell) ==
    {Silent, Cell(cell, 10, 60, SumZp), Cell(cell, 10, -25, 0), Cell(cell, 10, -24, 0),
     Cell(cell, 2, -24, 0), Cell(cell, 10, 60, 0)}

Image(f) == [cell \in Cells |-> IF cell \in DOMAIN f THEN f[cell] ELSE Silent]

\* What the first worker sees: every choice for the three cells.  The second
\* one sees one box, or none.
MCFrames ==
    [w \in Workers |->
        IF w = w1
        THEN {Image(Left :> p @@ Middle :> q @@ Right :> r) :
                  p \in Choices(Left), q \in Choices(Middle), r \in Choices(Right)}
        ELSE {Image(<< >>), Image(Left :> Cell(Left, 2, 60, 0))}]

\* Quarters of a pixel, up to 15: an angle is bounded.
MCAngle(a, d) ==
    LET quarters == d \div (5 * Sub)
    IN  IF quarters < -15 THEN -15 ELSE IF quarters > 15 THEN 15 ELSE quarters
================================================================================
