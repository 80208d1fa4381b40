---------------------------------- MODULE Yolo ----------------------------------
(***************************************************************************)
(* core/model/yolo: what YoloV6 makes of the quantised tensors that an     *)
(* inference has left.  A tensor's numbers are 8-bit counts q, which stand *)
(* for (q - zero point) * scale.  Floats are exact here, each in a unit of *)
(* its own: thresholds in hundredths of a count of the tensor they are     *)
(* compared with, coordinates in 1 / Sub of a pixel.                       *)
(*                                                                         *)
(* The model has the outputs the code expects: three heads of a box tensor *)
(* with four channels (others abort), a score and a score_sum tensor       *)
(* (without the latter ProcessData() dereferences null).                   *)
(***************************************************************************)
EXTENDS Integers, FiniteSets

CONSTANTS
    Heads,         \* <<grid_h, grid_w>> of each head
    ImageSize,     \* the width and height of the input tensor
    Threshold,     \* threshold / scale of the score tensors, in hundredths
    SumNoise,      \* sum_noise / scale of the score_sum tensors, in hundredths
    ScoreZp, SumZp, BoxZp,  \* the zero points
    BoxCounts      \* 1 / scale of the box tensors: counts per grid cell

ASSUME HeadsAssumption ==
    /\ ImageSize \in Nat
    /\ \A h \in DOMAIN Heads : Heads[h][1] \in Nat \ {0} /\ Heads[h][2] \in Nat \ {0}
ASSUME QuantisationAssumption ==
    /\ Threshold \in Nat /\ SumNoise \in Nat
    /\ {ScoreZp, SumZp, BoxZp} \subseteq -128 .. 127
    /\ BoxCounts \in Nat \ {0}

Int8 == -128 .. 127

\* One pixel, in the unit of the coordinates.
Sub == 2 * BoxCounts

\* The cells of all grids: head, row i, column j.
Cells == UNION {{<<h, i, j>> : i \in 0 .. (Heads[h][1] - 1), j \in 0 .. (Heads[h][2] - 1)} :
                h \in DOMAIN Heads}

\* What the output tensors hold: four distances, a score and a sum for each cell.
Outputs == [Cells -> [box : [0 .. 3 -> Int8], score : Int8, sum : Int8]]

-------------------------------------------------------------------------------
(* Quantisation.                                                           *)

\* The conversion of a float to an integer, from hundredths: towards zero.
Truncate(x) == IF x >= 0 THEN x \div 100 ELSE -((-x) \div 100)

Clamp(x) == IF x <= -12800 THEN -128 ELSE IF x >= 12700 THEN 127 ELSE Truncate(x)

F32ToAffine(x, zp) == Clamp(x + 100 * zp)

zero_i8 == F32ToAffine(0, ScoreZp)
threshold_i8 == F32ToAffine(Threshold, ScoreZp)
sum_noise_i8 == F32ToAffine(SumNoise, SumZp)

\* Whether ProcessData() makes a box of a cell.
HasBox(o) ==
    /\ o.sum >= sum_noise_i8
    /\ o.score > threshold_i8 /\ o.score > zero_i8

Stride(cell) == ImageSize \div Heads[cell[1]][1]

\* The box of a cell: distances from the cell's centre to the four sides.
\* The class is the only one.
BoxOf(cell, o) ==
    LET i == cell[2]
        j == cell[3]
        d(k) == 2 * (o.box[k] - BoxZp)
        c(n) == BoxCounts * (2 * n + 1)
    IN  [class_id |-> 0, score |-> o.score,
         x1 |-> (c(j) - d(0)) * Stride(cell), y1 |-> (c(i) - d(1)) * Stride(cell),
         x2 |-> (c(j) + d(2)) * Stride(cell), y2 |-> (c(i) + d(3)) * Stride(cell)]

\* The cells whose boxes PostProcess() collects.
Candidates(out) == {cell \in Cells : HasBox(out[cell])}

\* std::sort by descending score leaves equal scores in any order.
Sorted(boxes) == \A k, l \in DOMAIN boxes : k < l => boxes[k].score >= boxes[l].score

-------------------------------------------------------------------------------
(* Overlaps.  Boxes include their last pixel; one whose sides have changed *)
(* places has a width below one pixel, and maybe a negative one.           *)

Least(a, b) == IF a <= b THEN a ELSE b
Greatest(a, b) == IF a >= b THEN a ELSE b

Area(b) == (b.x2 - b.x1 + Sub) * (b.y2 - b.y1 + Sub)

Intersection(b, c) ==
    Greatest(0, Least(b.x2, c.x2) - Greatest(b.x1, c.x1) + Sub)
        * Greatest(0, Least(b.y2, c.y2) - Greatest(b.y1, c.y1) + Sub)

Union(b, c) == Area(b) + Area(c) - Intersection(b, c)

\* CalculateOverlap() >= threshold_nms, which is 0.45.
Overlap(b, c) == Union(b, c) > 0 /\ 100 * Intersection(b, c) >= 45 * Union(b, c)

-------------------------------------------------------------------------------
(* One round of the outer loop of DoNonMaxSuppression().                   *)

\* Mutant of SuppressBy: boxes that are suppressed themselves suppress others.
SuppressByAny(boxes, i) ==
    [j \in DOMAIN boxes |->
        IF j > i /\ boxes[j].class_id >= 0 /\ Overlap(boxes[i], boxes[j])
        THEN [boxes[j] EXCEPT !.class_id = -1] ELSE boxes[j]]

SuppressBy(boxes, i) ==
    [j \in DOMAIN boxes |->
        IF /\ boxes[i].class_id >= 0
           /\ j > i /\ boxes[j].class_id = boxes[i].class_id
           /\ Overlap(boxes[i], boxes[j])
        THEN [boxes[j] EXCEPT !.class_id = -1] ELSE boxes[j]]

\* box.score >= threshold, for the dequantised score.
AboveThreshold(box) == 100 * (box.score - ScoreZp) >= Threshold

\* The places of the boxes that Detect() hands out.
Reported(boxes) ==
    {k \in DOMAIN boxes : boxes[k].class_id >= 0 /\ AboveThreshold(boxes[k])}

===============================================================================
