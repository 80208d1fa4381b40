---------------------------- MODULE TickFrameProofs ----------------------------
(* Proofs about TickFrame, for any number of workers, any grids, thresholds   *)
(* above zero and quantisations, and any outputs of the networks.            *)
EXTENDS TickFrame, FiniteSetTheorems, SequenceTheorems, WellFoundedInduction, TLAPS

-------------------------------------------------------------------------------
(* Quantisation.                                                           *)

\* Truncation goes to a neighbour.
LEMMA TruncateBounds ==
    ASSUME NEW x \in Int
    PROVE  /\ Truncate(x) \in Int
           /\ 100 * Truncate(x) < x + 100 /\ 100 * Truncate(x) > x - 100
BY DEF Truncate

\* So what is above a real number by one count is above its 8-bit form.
LEMMA AffineBounds ==
    ASSUME NEW x \in Nat, NEW zp \in Int8, NEW q \in Int8
    PROVE  /\ F32ToAffine(x, zp) \in Int8
           /\ 100 * (q - zp) >= x + 100 => q > F32ToAffine(x, zp)
           /\ 100 * (q - zp) >= x => q >= F32ToAffine(x, zp)
<1> DEFINE y == x + 100 * zp
           t == Truncate(y)
<1>1. /\ x \in Int /\ x >= 0 /\ zp \in Int /\ -128 <= zp /\ zp <= 127
      /\ q \in Int /\ -128 <= q /\ q <= 127 /\ y \in Int
  BY DEF Int8
<1>2. y >= -12800
  BY <1>1
<1> HIDE DEF t
<1>3. t \in Int /\ 100 * t < y + 100 /\ 100 * t > y - 100
  BY <1>1, TruncateBounds DEF t
<1>4. F32ToAffine(x, zp) = IF y <= -12800 THEN -128 ELSE IF y >= 12700 THEN 127 ELSE t
  BY DEF F32ToAffine, Clamp, t
<1>5. CASE y <= -12800
  BY <1>1, <1>2, <1>4, <1>5 DEF Int8
<1>6. CASE ~(y <= -12800) /\ y >= 12700
  BY <1>1, <1>4, <1>6 DEF Int8
<1>7. CASE ~(y <= -12800) /\ ~(y >= 12700)
  BY <1>1, <1>3, <1>4, <1>7 DEF Int8
<1> QED BY <1>5, <1>6, <1>7

\* ProcessData() makes a box of every confident cell.
LEMMA ConfidentHasBox ==
    ASSUME NEW o, o.score \in Int8, o.sum \in Int8, Confident(o)
    PROVE  HasBox(o) /\ 100 * (o.score - ScoreZp) >= Threshold
<1>1. /\ ScoreZp \in Int8 /\ SumZp \in Int8 /\ Threshold \in Nat /\ SumNoise \in Nat
      /\ ScoreZp \in Int /\ Threshold >= 0
  BY QuantisationAssumption DEF Int8
<1>2. /\ 100 * (o.score - ScoreZp) >= Threshold + 100
      /\ 100 * (o.sum - SumZp) >= SumNoise
  BY DEF Confident
<1>3. o.score > threshold_i8 /\ o.sum >= sum_noise_i8
  BY <1>1, <1>2, AffineBounds DEF threshold_i8, sum_noise_i8
<1>4. o.score \in Int
  BY DEF Int8
<1>5. 100 * (o.score - ScoreZp) >= 0 + 100 /\ 0 \in Nat
  BY <1>1, <1>2, <1>4
<1>6. o.score > zero_i8
  BY <1>1, <1>5, AffineBounds DEF zero_i8
<1> QED BY <1>1, <1>2, <1>3, <1>4, <1>6 DEF HasBox

-------------------------------------------------------------------------------
(* Boxes.                                                                  *)

LEMMA BoxFacts ==
    ASSUME NEW cell \in Cells, NEW out \in Outputs
    PROVE  /\ BoxOf(cell, out[cell]) \in Boxes
           /\ BoxOf(cell, out[cell]).class_id = 0
           /\ BoxOf(cell, out[cell]).score = out[cell].score
           /\ out[cell].score \in Int8 /\ out[cell].sum \in Int8
<1> DEFINE o == out[cell]
<1>1. o \in [box : [0 .. 3 -> Int8], score : Int8, sum : Int8]
  BY DEF Outputs
<1>2. PICK h \in DOMAIN Heads :
        cell \in {<<h, i, j>> : i \in 0 .. (Heads[h][1] - 1), j \in 0 .. (Heads[h][2] - 1)}
  BY DEF Cells
<1>3. PICK i \in 0 .. (Heads[h][1] - 1), j \in 0 .. (Heads[h][2] - 1) : cell = <<h, i, j>>
  BY <1>2
<1>4. cell[1] = h /\ cell[2] = i /\ cell[3] = j /\ i \in Int /\ j \in Int
  BY <1>3, HeadsAssumption
<1>5. Stride(cell) \in Int
  BY <1>4, HeadsAssumption DEF Stride
<1>6. \A k \in 0 .. 3 : o.box[k] \in Int
  BY <1>1 DEF Int8
<1>7. BoxZp \in Int /\ BoxCounts \in Int
  BY QuantisationAssumption
<1> DEFINE d(k) == 2 * (o.box[k] - BoxZp)
           c(n) == BoxCounts * (2 * n + 1)
<1>8. d(0) \in Int /\ d(1) \in Int /\ d(2) \in Int /\ d(3) \in Int
  BY <1>6, <1>7
<1>9. c(i) \in Int /\ c(j) \in Int
  BY <1>4, <1>7
<1>10. BoxOf(cell, o) =
        [class_id |-> 0, score |-> o.score,
         x1 |-> (c(j) - d(0)) * Stride(cell), y1 |-> (c(i) - d(1)) * Stride(cell),
         x2 |-> (c(j) + d(2)) * Stride(cell), y2 |-> (c(i) + d(3)) * Stride(cell)]
  BY <1>4 DEF BoxOf
<1> HIDE DEF d, c
<1>11. /\ (c(j) - d(0)) * Stride(cell) \in Int /\ (c(i) - d(1)) * Stride(cell) \in Int
       /\ (c(j) + d(2)) * Stride(cell) \in Int /\ (c(i) + d(3)) * Stride(cell) \in Int
  BY <1>5, <1>8, <1>9
<1> QED BY <1>1, <1>10, <1>11 DEF Boxes

\* The same box, up to its class.
Same(b, c) ==
    b.score = c.score /\ b.x1 = c.x1 /\ b.y1 = c.y1 /\ b.x2 = c.x2 /\ b.y2 = c.y2

\* Overlapping is symmetric, and no matter of class.
LEMMA OverlapSymmetric ==
    ASSUME NEW b \in Boxes, NEW c \in Boxes
    PROVE  Overlap(b, c) <=> Overlap(c, b)
<1>1. /\ b.x1 \in Int /\ b.y1 \in Int /\ b.x2 \in Int /\ b.y2 \in Int
      /\ c.x1 \in Int /\ c.y1 \in Int /\ c.x2 \in Int /\ c.y2 \in Int /\ Sub \in Int
  BY QuantisationAssumption DEF Boxes, Sub
<1>2. /\ Least(b.x2, c.x2) = Least(c.x2, b.x2) /\ Least(b.y2, c.y2) = Least(c.y2, b.y2)
      /\ Greatest(b.x1, c.x1) = Greatest(c.x1, b.x1)
      /\ Greatest(b.y1, c.y1) = Greatest(c.y1, b.y1)
  BY <1>1 DEF Least, Greatest
<1>3. Intersection(b, c) = Intersection(c, b)
  BY <1>2 DEF Intersection
<1>4. Area(b) \in Int /\ Area(c) \in Int
  BY <1>1 DEF Area
<1>5. Intersection(b, c) \in Int
  <2>1. /\ Least(b.x2, c.x2) - Greatest(b.x1, c.x1) + Sub \in Int
        /\ Least(b.y2, c.y2) - Greatest(b.y1, c.y1) + Sub \in Int
    BY <1>1 DEF Least, Greatest
  <2>2. /\ Greatest(0, Least(b.x2, c.x2) - Greatest(b.x1, c.x1) + Sub) \in Int
        /\ Greatest(0, Least(b.y2, c.y2) - Greatest(b.y1, c.y1) + Sub) \in Int
    BY ONLY <2>1 DEF Greatest
  <2> QED BY <2>2 DEF Intersection
<1>6. Union(b, c) = Union(c, b)
  BY <1>3, <1>4, <1>5 DEF Union
<1> QED BY <1>3, <1>6, Zenon DEF Overlap

LEMMA OverlapOfSame ==
    ASSUME NEW b, NEW c, NEW b2, NEW c2, Same(b, b2), Same(c, c2)
    PROVE  Overlap(b, c) <=> Overlap(b2, c2)
<1>1. Area(b) = Area(b2) /\ Area(c) = Area(c2)
  BY DEF Same, Area
<1>2. Intersection(b, c) = Intersection(b2, c2)
  BY DEF Same, Intersection
<1> QED BY <1>1, <1>2, Zenon DEF Overlap, Union


-------------------------------------------------------------------------------
(* Non-maximum suppression.                                                *)

\* The list holds the candidates of the image, each as often as it should.
Traced(bs, out) ==
    /\ out \in Outputs
    /\ \A k \in DOMAIN bs : \E cell \in Cells :
           HasBox(out[cell]) /\ Same(bs[k], BoxOf(cell, out[cell]))
    /\ \A cell \in Cells : HasBox(out[cell]) =>
           \E k \in DOMAIN bs : Same(bs[k], BoxOf(cell, out[cell]))

\* What the first i - 1 rounds of the loop have achieved.
Greedy(bs, i) ==
    /\ \A k, l \in DOMAIN bs : k < l => bs[k].score >= bs[l].score
    /\ \A k, l \in DOMAIN bs :
           k < i /\ k < l /\ bs[k].class_id = 0 /\ bs[l].class_id = 0
               => ~Overlap(bs[k], bs[l])
    /\ \A l \in DOMAIN bs : bs[l].class_id = -1 =>
           \E k \in DOMAIN bs :
               k < l /\ k < i /\ bs[k].class_id = 0 /\ Overlap(bs[k], bs[l])

LEMMA SuppressFacts ==
    ASSUME NEW bs \in Seq(Boxes), NEW i \in DOMAIN bs
    PROVE  /\ SuppressBy(bs, i) \in Seq(Boxes)
           /\ Len(SuppressBy(bs, i)) = Len(bs)
           /\ DOMAIN SuppressBy(bs, i) = DOMAIN bs
           /\ \A j \in DOMAIN bs :
                /\ Same(SuppressBy(bs, i)[j], bs[j])
                /\ SuppressBy(bs, i)[j].class_id =
                     IF /\ bs[i].class_id = 0 /\ bs[j].class_id = 0
                        /\ j > i /\ Overlap(bs[i], bs[j])
                     THEN -1 ELSE bs[j].class_id
<1> DEFINE new == SuppressBy(bs, i)
<1>1. Len(bs) \in Nat /\ DOMAIN bs = 1 .. Len(bs) /\ \A j \in DOMAIN bs : bs[j] \in Boxes
  BY LenProperties
<1>2. ASSUME NEW j \in DOMAIN bs
      PROVE  /\ new[j] \in Boxes /\ Same(new[j], bs[j])
             /\ new[j].class_id = IF /\ bs[i].class_id = 0 /\ bs[j].class_id = 0
                                     /\ j > i /\ Overlap(bs[i], bs[j])
                                  THEN -1 ELSE bs[j].class_id
  <2>1. bs[j] \in Boxes /\ bs[i].class_id \in {0, -1} /\ bs[j].class_id \in {0, -1}
    BY <1>1 DEF Boxes
  <2>2. bs[i].class_id >= 0 <=> bs[i].class_id = 0
    BY <2>1
  <2>3. (bs[i].class_id >= 0 /\ j > i /\ bs[j].class_id = bs[i].class_id
            /\ Overlap(bs[i], bs[j]))
        <=> (bs[i].class_id = 0 /\ bs[j].class_id = 0 /\ j > i /\ Overlap(bs[i], bs[j]))
    BY <2>1, <2>2
  <2>4. new[j] = IF bs[i].class_id = 0 /\ bs[j].class_id = 0 /\ j > i /\ Overlap(bs[i], bs[j])
                 THEN [bs[j] EXCEPT !.class_id = -1] ELSE bs[j]
    BY <2>3 DEF SuppressBy
  <2> QED BY <2>1, <2>4 DEF Boxes, Same
<1>3. DOMAIN new = 1 .. Len(bs)
  BY <1>1 DEF SuppressBy
<1>4. new = [j \in 1 .. Len(bs) |-> new[j]]
  BY <1>1 DEF SuppressBy
<1> HIDE DEF new
<1>5. new \in [1 .. Len(bs) -> Boxes]
  BY <1>1, <1>2, <1>4
<1>6. new \in Seq(Boxes)
  BY <1>1, <1>5, SeqDef
<1>7. Len(new) \in Nat /\ 1 .. Len(new) = 1 .. Len(bs)
  BY <1>3, <1>6, LenProperties
<1>8. Len(new) = Len(bs)
  BY <1>1, <1>7
<1> QED BY <1>1, <1>2, <1>3, <1>6, <1>8 DEF new

\* Only boxes that are not suppressed suppress, and a round never undoes what
\* the rounds before it have achieved.
LEMMA SuppressIsGreedy ==
    ASSUME NEW bs \in Seq(Boxes), NEW i \in DOMAIN bs, Greedy(bs, i)
    PROVE  Greedy(SuppressBy(bs, i), i + 1)
<1> DEFINE new == SuppressBy(bs, i)
<1>1. /\ DOMAIN new = DOMAIN bs
      /\ \A j \in DOMAIN bs : Same(new[j], bs[j])
      /\ \A j \in DOMAIN bs :
            new[j].class_id = IF /\ bs[i].class_id = 0 /\ bs[j].class_id = 0
                                 /\ j > i /\ Overlap(bs[i], bs[j])
                              THEN -1 ELSE bs[j].class_id
  BY SuppressFacts
<1> HIDE DEF new
<1>2. DOMAIN bs \subseteq Int /\ i \in Int
  BY LenProperties
<1>3. \A j \in DOMAIN bs : bs[j].class_id \in {0, -1}
  <2>1. \A j \in DOMAIN bs : bs[j] \in Boxes
    BY LenProperties
  <2> QED BY <2>1 DEF Boxes
<1>4. \A k, l \in DOMAIN bs : Overlap(new[k], new[l]) <=> Overlap(bs[k], bs[l])
  BY <1>1, OverlapOfSame
<1>5. ASSUME NEW k \in DOMAIN bs, NEW l \in DOMAIN bs, k < l
      PROVE  new[k].score >= new[l].score
  BY <1>1, <1>5 DEF Same, Greedy
<1>6. ASSUME NEW k \in DOMAIN bs, NEW l \in DOMAIN bs, k < i + 1, k < l,
             new[k].class_id = 0, new[l].class_id = 0
      PROVE  ~Overlap(new[k], new[l])
  <2>1. bs[k].class_id = 0 /\ bs[l].class_id = 0
    BY <1>1, <1>3, <1>6
  <2>2. CASE k < i
    BY <1>4, <1>6, <2>1, <2>2 DEF Greedy
  <2>3. CASE k = i
    BY <1>1, <1>2, <1>4, <1>6, <2>1, <2>3
  <2> QED BY <1>2, <1>6, <2>2, <2>3
<1>7. ASSUME NEW l \in DOMAIN bs, new[l].class_id = -1
      PROVE  \E k \in DOMAIN bs :
                k < l /\ k < i + 1 /\ new[k].class_id = 0 /\ Overlap(new[k], new[l])
  <2>1. CASE bs[l].class_id = -1
    <3>1. PICK k \in DOMAIN bs :
             k < l /\ k < i /\ bs[k].class_id = 0 /\ Overlap(bs[k], bs[l])
      BY <2>1 DEF Greedy
    <3>2. k < i + 1 /\ ~(k > i)
      BY <1>2, <3>1
    <3>3. new[k].class_id = 0
      BY <1>1, <3>1, <3>2
    <3> QED BY <1>4, <3>1, <3>2, <3>3
  <2>2. CASE bs[l].class_id # -1
    <3>1. bs[i].class_id = 0 /\ l > i /\ Overlap(bs[i], bs[l])
      BY <1>1, <1>7, <2>2
    <3>2. new[i].class_id = 0
      BY <1>1, <1>2, <3>1
    <3>3. i < l /\ i < i + 1
      BY <1>2, <3>1
    <3> QED BY <1>4, <3>1, <3>2, <3>3
  <2> QED BY <2>1, <2>2
<1> QED BY <1>1, <1>5, <1>6, <1>7 DEF Greedy, new

LEMMA SuppressIsTraced ==
    ASSUME NEW bs \in Seq(Boxes), NEW i \in DOMAIN bs, NEW out, Traced(bs, out)
    PROVE  Traced(SuppressBy(bs, i), out)
<1> DEFINE new == SuppressBy(bs, i)
<1>1. /\ DOMAIN new = DOMAIN bs
      /\ \A j \in DOMAIN bs : Same(new[j], bs[j])
  BY SuppressFacts
<1> HIDE DEF new
<1>2. ASSUME NEW k \in DOMAIN bs
      PROVE  \E cell \in Cells : HasBox(out[cell]) /\ Same(new[k], BoxOf(cell, out[cell]))
  <2>1. PICK cell \in Cells : HasBox(out[cell]) /\ Same(bs[k], BoxOf(cell, out[cell]))
    BY DEF Traced
  <2>2. Same(new[k], BoxOf(cell, out[cell]))
    BY <1>1, <2>1 DEF Same
  <2> QED BY <2>1, <2>2
<1>3. ASSUME NEW cell \in Cells, HasBox(out[cell])
      PROVE  \E k \in DOMAIN bs : Same(new[k], BoxOf(cell, out[cell]))
  <2>1. PICK k \in DOMAIN bs : Same(bs[k], BoxOf(cell, out[cell]))
    BY <1>3 DEF Traced
  <2>2. Same(new[k], BoxOf(cell, out[cell]))
    BY <1>1, <2>1 DEF Same
  <2> QED BY <2>2
<1> QED BY <1>1, <1>2, <1>3 DEF Traced, new

\* When the loop has ended, the boxes that are left above the threshold are
\* what NonMaxSuppressed asks for.
LEMMA GreedyIsEnough ==
    ASSUME NEW bs \in Seq(Boxes), NEW out, Traced(bs, out),
           NEW i \in Nat, i > Len(bs), Greedy(bs, i)
    PROVE  /\ \A k \in Reported(bs) : \E cell \in Cells : bs[k] = BoxOf(cell, out[cell])
           /\ \A k, l \in Reported(bs) : k # l => ~Overlap(bs[k], bs[l])
           /\ \A cell \in Cells :
                Confident(out[cell]) =>
                    \E k \in Reported(bs) :
                       \/ bs[k] = BoxOf(cell, out[cell])
                       \/ /\ bs[k].score >= BoxOf(cell, out[cell]).score
                          /\ Overlap(bs[k], BoxOf(cell, out[cell]))
<1>1. /\ Len(bs) \in Nat /\ DOMAIN bs = 1 .. Len(bs) /\ DOMAIN bs \subseteq Int
      /\ \A k \in DOMAIN bs : bs[k] \in Boxes
  BY LenProperties
<1>2. \A k \in DOMAIN bs : k < i
  BY <1>1
<1>3. out \in Outputs
  BY DEF Traced
<1>4. \A k \in DOMAIN bs : bs[k].class_id \in {0, -1} /\ bs[k].score \in Int8
  BY <1>1 DEF Boxes
<1>5. \A k \in DOMAIN bs : k \in Reported(bs) <=> bs[k].class_id = 0 /\ AboveThreshold(bs[k])
  BY <1>4 DEF Reported
<1>6. Reported(bs) \subseteq DOMAIN bs
  BY DEF Reported
<1>7. ASSUME NEW k \in DOMAIN bs, bs[k].class_id = 0, NEW cell \in Cells,
             Same(bs[k], BoxOf(cell, out[cell]))
      PROVE  bs[k] = BoxOf(cell, out[cell])
  <2> DEFINE b == BoxOf(cell, out[cell])
             c == bs[k]
  <2>1. b \in Boxes /\ b.class_id = 0
    BY <1>3, BoxFacts
  <2>2. c \in Boxes /\ c.class_id = 0 /\ Same(c, b)
    BY <1>1, <1>7
  <2> HIDE DEF b, c
  <2>3. /\ b.class_id = c.class_id /\ b.score = c.score
        /\ b.x1 = c.x1 /\ b.y1 = c.y1 /\ b.x2 = c.x2 /\ b.y2 = c.y2
    BY <2>1, <2>2 DEF Same
  <2>4. /\ b = [class_id |-> b.class_id, score |-> b.score, x1 |-> b.x1, y1 |-> b.y1,
               x2 |-> b.x2, y2 |-> b.y2]
        /\ c = [class_id |-> c.class_id, score |-> c.score, x1 |-> c.x1, y1 |-> c.y1,
               x2 |-> c.x2, y2 |-> c.y2]
    BY <2>1, <2>2 DEF Boxes
  <2>5. c = b
    BY <2>3, <2>4
  <2> QED BY <2>5 DEF b, c
<1>8. ASSUME NEW k \in Reported(bs)
      PROVE  \E cell \in Cells : bs[k] = BoxOf(cell, out[cell])
  <2>1. k \in DOMAIN bs /\ bs[k].class_id = 0
    BY <1>5, <1>6
  <2>2. PICK cell \in Cells : Same(bs[k], BoxOf(cell, out[cell]))
    BY <2>1 DEF Traced
  <2> QED BY <1>7, <2>1, <2>2
<1>9. ASSUME NEW k \in Reported(bs), NEW l \in Reported(bs), k # l
      PROVE  ~Overlap(bs[k], bs[l])
  <2>1. /\ k \in DOMAIN bs /\ l \in DOMAIN bs
        /\ bs[k].class_id = 0 /\ bs[l].class_id = 0 /\ k < i /\ l < i
    BY <1>2, <1>5, <1>6
  <2>2. CASE k < l
    BY <2>1, <2>2 DEF Greedy
  <2>3. CASE l < k
    <3>1. ~Overlap(bs[l], bs[k])
      BY <2>1, <2>3 DEF Greedy
    <3> QED BY <1>1, <2>1, <3>1, OverlapSymmetric
  <2> QED BY <1>1, <1>9, <2>1, <2>2, <2>3
<1>10. ASSUME NEW cell \in Cells, Confident(out[cell])
       PROVE  \E k \in Reported(bs) :
                 \/ bs[k] = BoxOf(cell, out[cell])
                 \/ /\ bs[k].score >= BoxOf(cell, out[cell]).score
                    /\ Overlap(bs[k], BoxOf(cell, out[cell]))
  <2> DEFINE o == out[cell]
             b == BoxOf(cell, out[cell])
  <2>1. b \in Boxes /\ b.score = o.score /\ o.score \in Int8 /\ o.sum \in Int8
    BY <1>3, BoxFacts
  <2>2. HasBox(o) /\ 100 * (o.score - ScoreZp) >= Threshold
    BY <1>10, <2>1, ConfidentHasBox
  <2>3. PICK l \in DOMAIN bs : Same(bs[l], b)
    BY <2>2 DEF Traced
  <2>4. bs[l].score = o.score
    BY <2>1, <2>3 DEF Same
  <2> HIDE DEF o, b
  <2>5. CASE bs[l].class_id = 0
    <3>1. l \in Reported(bs)
      BY <1>5, <2>2, <2>4, <2>5 DEF AboveThreshold
    <3>2. bs[l] = b
      BY <1>7, <2>3, <2>5 DEF b
    <3> QED BY <3>1, <3>2 DEF b
  <2>6. CASE bs[l].class_id = -1
    <3>1. PICK k \in DOMAIN bs : k < l /\ bs[k].class_id = 0 /\ Overlap(bs[k], bs[l])
      BY <2>6 DEF Greedy
    <3>2. bs[k].score >= bs[l].score
      BY <3>1 DEF Greedy
    <3>3. bs[k].score \in Int /\ o.score \in Int /\ ScoreZp \in Int /\ Threshold \in Int
      <4>1. bs[k].score \in Int8 /\ o.score \in Int8
        BY <1>4, <2>1
      <4>2. ScoreZp \in Int8 /\ Threshold \in Int
        BY QuantisationAssumption DEF Int8
      <4>3. Int8 \subseteq Int
        BY DEF Int8
      <4> QED BY <4>1, <4>2, <4>3
    <3>4. 100 * (bs[k].score - ScoreZp) >= Threshold
      BY <2>2, <2>4, <3>2, <3>3
    <3>5. k \in Reported(bs)
      BY <1>5, <3>1, <3>4 DEF AboveThreshold
    <3>6. Same(bs[k], bs[k])
      BY DEF Same
    <3>7. Overlap(bs[k], b)
      BY <2>3, <3>1, <3>6, OverlapOfSame
    <3>8. bs[k].score >= b.score
      BY <2>1, <2>4, <3>2
    <3> QED BY <3>5, <3>7, <3>8 DEF b
  <2> QED BY <1>4, <2>5, <2>6
<1> QED BY <1>8, <1>9, <1>10

-------------------------------------------------------------------------------
(* The invariant.                                                          *)

LEMMA ListIsGreedy ==
    ASSUME NEW out \in Outputs, NEW n \in Nat, NEW order \in [1 .. n -> Candidates(out)],
           Candidates(out) = {order[k] : k \in 1 .. n},
           NEW list, list = [k \in 1 .. n |-> BoxOf(order[k], out[order[k]])],
           Sorted(list)
    PROVE  list \in Seq(Boxes) /\ Traced(list, out) /\ Greedy(list, 1)
<1>1. \A k \in 1 .. n : order[k] \in Cells /\ HasBox(out[order[k]])
  BY DEF Candidates
<1>2. \A k \in 1 .. n : list[k] = BoxOf(order[k], out[order[k]])
  OBVIOUS
<1>3. \A k \in 1 .. n : list[k] \in Boxes /\ list[k].class_id = 0
  BY <1>1, <1>2, BoxFacts
<1>4. list \in [1 .. n -> Boxes]
  BY <1>3
<1>5. list \in Seq(Boxes) /\ DOMAIN list = 1 .. n
  BY <1>4, SeqDef
<1>6. \A k \in 1 .. n : Same(list[k], BoxOf(order[k], out[order[k]]))
  BY <1>2 DEF Same
<1>7. Traced(list, out)
  <2>1. \A k \in DOMAIN list : \E cell \in Cells :
            HasBox(out[cell]) /\ Same(list[k], BoxOf(cell, out[cell]))
    BY <1>1, <1>5, <1>6
  <2>2. ASSUME NEW cell \in Cells, HasBox(out[cell])
        PROVE  \E k \in DOMAIN list : Same(list[k], BoxOf(cell, out[cell]))
    <3>1. cell \in Candidates(out)
      BY <2>2 DEF Candidates
    <3>2. PICK k \in 1 .. n : cell = order[k]
      BY <3>1
    <3> QED BY <1>5, <1>6, <3>2
  <2> QED BY <2>1, <2>2 DEF Traced
<1>8. Greedy(list, 1)
  <2>1. \A k \in DOMAIN list : ~(k < 1)
    BY <1>5
  <2>2. \A k \in DOMAIN list : list[k].class_id # -1
    BY <1>3, <1>5
  <2> QED BY <2>1, <2>2 DEF Greedy, Sorted
<1> QED BY <1>5, <1>7, <1>8

-------------------------------------------------------------------------------
(* The target.                                                             *)

LEMMA LeastNatural ==
    ASSUME NEW S, S \subseteq Nat, S # {}
    PROVE  \E m \in S : \A n \in S : m <= n
<1> DEFINE R == {ss \in Nat \X Nat : ss[1] < ss[2]}
<1>1. IsWellFoundedOn(R, Nat)
  BY NatLessThanWellFounded DEF OpToRel
<1> HIDE DEF R
<1>2. PICK m \in S : \A n \in S : ~(<<n, m>> \in R)
  BY <1>1, WFMin
<1>3. ASSUME NEW n \in S
      PROVE  m <= n
  <2>1. m \in Nat /\ n \in Nat /\ <<n, m>> \in Nat \X Nat
    OBVIOUS
  <2>2. ~(n < m)
    BY <1>2, <2>1 DEF R
  <2> QED BY <2>1, <2>2
<1> QED BY <1>3

LEMMA DistanceType ==
    ASSUME NEW b \in Boxes
    PROVE  Distance2(b) \in Nat
<1>1. b.x1 \in Int /\ b.x2 \in Int /\ b.y1 \in Int /\ b.y2 \in Int
  BY DEF Boxes
<1>2. ImageSize * Sub \in Int
  BY HeadsAssumption, QuantisationAssumption DEF Sub
<1> DEFINE c == ImageSize * Sub
<1>3. /\ 10 * (b.x1 + b.x2) - 10 * c \in Int
      /\ 20 * b.y1 + 3 * (b.y2 - b.y1) - 10 * c \in Int
  <2> HIDE DEF c
  <2>1. c \in Int
    BY <1>2 DEF c
  <2> QED BY <1>1, <2>1
<1>4. 10 * ImageSize * Sub = 10 * c /\ ImageSize \in Int /\ Sub \in Int
  BY HeadsAssumption, QuantisationAssumption DEF Sub
<1> HIDE DEF c
<1>5. Target(b).x \in Int /\ Target(b).y \in Int
  BY <1>3, <1>4 DEF Target
<1>6. ASSUME NEW n \in Int
      PROVE  n * n \in Nat
  OBVIOUS
<1>7. Target(b).x * Target(b).x \in Nat /\ Target(b).y * Target(b).y \in Nat
  BY <1>5, <1>6
<1> QED BY <1>7 DEF Distance2

\* Aim() takes one of the boxes that were found.
LEMMA ClosestIsFound ==
    ASSUME NEW bs \in Seq(Boxes), NEW places, places \subseteq DOMAIN bs, places # {}
    PROVE  Closest(bs, places) \in places
<1>1. /\ DOMAIN bs \subseteq Nat
      /\ \A k \in DOMAIN bs : bs[k] \in Boxes
  BY LenProperties
<1> DEFINE dist(k) == Distance2(bs[k])
           D == {dist(k) : k \in places}
<1>2. \A k \in places : dist(k) \in Nat
  BY <1>1, DistanceType
<1> HIDE DEF dist
<1>3. D \subseteq Nat /\ D # {}
  BY <1>2
<1>4. PICK m \in D : \A n \in D : m <= n
  BY <1>3, LeastNatural
<1> DEFINE P == {k \in places : dist(k) = m}
<1>5. P \subseteq Nat /\ P # {}
  BY <1>1, <1>4
<1>6. PICK k \in P : \A l \in P : k <= l
  BY <1>5, LeastNatural
<1>7. ASSUME NEW l \in places
      PROVE  dist(k) < dist(l) \/ (dist(k) = dist(l) /\ k <= l)
  <2>1. dist(k) = m /\ m <= dist(l) /\ dist(l) \in Nat /\ m \in Nat
    BY <1>2, <1>4, <1>6
  <2> QED BY <1>6, <2>1
<1>8. k \in places
  BY <1>6
<1> QED BY <1>7, <1>8 DEF Closest, dist

\* The error of the target is a number.
LEMMA ErrorType ==
    ASSUME NEW w \in Workers, NEW out \in Frames[w],
           NEW bs \in Seq(Boxes), Traced(bs, out),
           NEW i \in Nat, i > Len(bs), Greedy(bs, i), Reported(bs) # {}
    PROVE  ErrorOf(bs[Closest(bs, Reported(bs))]) \in [Axes -> Int]
<1>1. Reported(bs) \subseteq DOMAIN bs
  BY DEF Reported
<1>2. Closest(bs, Reported(bs)) \in Reported(bs)
  BY <1>1, ClosestIsFound
<1>3. PICK cell \in Cells : bs[Closest(bs, Reported(bs))] = BoxOf(cell, out[cell])
  BY <1>2, GreedyIsEnough
<1> QED BY <1>3, AngleAssumption

-------------------------------------------------------------------------------
(* The detection.                                                          *)

\* What a worker at p has found out, with its core's lists.
Detecting(w, p, out, bs, i, f) ==
    /\ p \in {"suppress", "aim"} => out \in Frames[w] /\ Traced(bs, out) /\ Greedy(bs, i)
    /\ p = "aim" => i > Len(bs) /\ f = Reported(bs)
    /\ p # "aim" => f = {}

DInv == \A w \in Workers : Detecting(w, pc[w], output[w], boxes[w], row[w], found[w])

\* TypeOK, for one worker.
Typed(out, bs, i, f) ==
    /\ out \in Outputs \union {NoOutput}
    /\ bs \in Seq(Boxes)
    /\ i \in Nat /\ i \in 1 .. (Len(bs) + 1)
    /\ f \in SUBSET Nat /\ f \subseteq DOMAIN bs

LEMMA DetectTypes ==
    ASSUME TypeOK, NEW w \in Workers
    PROVE  Typed(output[w], boxes[w], row[w], found[w])
BY DEF TypeOK, Typed

LEMMA InitDetects == Init => TypeOK /\ DInv
<1> SUFFICES ASSUME Init PROVE TypeOK /\ DInv
  OBVIOUS
<1>1. << >> \in Seq(Boxes) /\ Len(<< >>) = 0 /\ DOMAIN << >> = {}
  BY EmptySeq
<1>2. NoError \in [Axes -> Int]
  BY DEF NoError
<1>3. TypeOK
  BY <1>1, <1>2 DEF Init, TypeOK
<1>4. DInv
  BY DEF Init, DInv, Detecting
<1> QED BY <1>3, <1>4

\* A step of one worker keeps the lists' types and facts, when its own do.
LEMMA DetectStep ==
    ASSUME TypeOK, DInv, NEW w \in Workers,
           NEW p \in {"detect", "suppress", "aim", "load x", "store x",
                      "load y", "store y", "move"},
           NEW out, NEW bs, NEW i, NEW f,
           pc' = [pc EXCEPT ![w] = p],
           output' = [output EXCEPT ![w] = out], boxes' = [boxes EXCEPT ![w] = bs],
           row' = [row EXCEPT ![w] = i], found' = [found EXCEPT ![w] = f],
           error' \in [Workers -> [Axes -> Int]], loaded' \in [Workers -> [Axes -> Int]],
           pre_error' \in [Axes -> Int], updates' \in [Axes -> SUBSET Int],
           Typed(out, bs, i, f), Detecting(w, p, out, bs, i, f)
    PROVE  TypeOK' /\ DInv'
<1>1. /\ pc \in [Workers -> {"detect", "suppress", "aim", "load x", "store x",
                             "load y", "store y", "move"}]
      /\ output \in [Workers -> Outputs \union {NoOutput}]
      /\ boxes \in [Workers -> Seq(Boxes)]
      /\ row \in [Workers -> Nat]
      /\ found \in [Workers -> SUBSET Nat]
  BY DEF TypeOK
<1>2. \A v \in Workers :
        IF v = w
        THEN /\ pc'[v] = p /\ output'[v] = out /\ boxes'[v] = bs /\ row'[v] = i
             /\ found'[v] = f
        ELSE /\ pc'[v] = pc[v] /\ output'[v] = output[v] /\ boxes'[v] = boxes[v]
             /\ row'[v] = row[v] /\ found'[v] = found[v]
  BY <1>1
<1>3. /\ pc' \in [Workers -> {"detect", "suppress", "aim", "load x", "store x",
                              "load y", "store y", "move"}]
      /\ output' \in [Workers -> Outputs \union {NoOutput}]
      /\ boxes' \in [Workers -> Seq(Boxes)]
      /\ row' \in [Workers -> Nat]
      /\ found' \in [Workers -> SUBSET Nat]
  BY <1>1 DEF Typed
<1>4. \A v \in Workers : Typed(output'[v], boxes'[v], row'[v], found'[v])
  BY <1>2, DetectTypes
<1>5. TypeOK'
  BY <1>3, <1>4 DEF TypeOK, Typed
<1>6. \A v \in Workers : Detecting(v, pc'[v], output'[v], boxes'[v], row'[v], found'[v])
  BY <1>2 DEF DInv
<1> QED BY <1>5, <1>6 DEF DInv

LEMMA InferDetects ==
    ASSUME TypeOK, DInv, NEW w \in Workers, Infer(w)
    PROVE  TypeOK' /\ DInv'
<1>1. PICK out \in Frames[w] :
        /\ output' = [output EXCEPT ![w] = out]
        /\ \E order \in [1 .. Cardinality(Candidates(out)) -> Candidates(out)] :
               /\ Candidates(out) = {order[k] : k \in DOMAIN order}
               /\ PostProcess(w, out, order)
  BY DEF Infer
<1>2. PICK order \in [1 .. Cardinality(Candidates(out)) -> Candidates(out)] :
        /\ Candidates(out) = {order[k] : k \in DOMAIN order}
        /\ PostProcess(w, out, order)
  BY <1>1
<1> DEFINE n == Cardinality(Candidates(out))
           list == [k \in 1 .. n |-> BoxOf(order[k], out[order[k]])]
<1>3. Candidates(out) \in SUBSET Cells /\ out \in Outputs
  BY FramesAssumption DEF Candidates
<1>4. n \in Nat
  BY <1>3, FramesAssumption, FS_Subset, FS_CardinalityType
<1>5. DOMAIN order = 1 .. n
  BY <1>2
<1> HIDE DEF n
<1>6. boxes \in [Workers -> Seq(Boxes)]
  BY DEF TypeOK
<1>7. boxes' = [boxes EXCEPT ![w] = list] /\ Sorted(boxes'[w])
  BY <1>2, <1>5 DEF PostProcess
<1>8. boxes'[w] = list
  BY <1>6, <1>7
<1>9. Sorted(list)
  BY <1>7, <1>8
<1>10. order \in [1 .. n -> Candidates(out)] /\ Candidates(out) = {order[k] : k \in 1 .. n}
  BY <1>2, <1>5 DEF n
<1> HIDE DEF list
<1>11. list = [k \in 1 .. n |-> BoxOf(order[k], out[order[k]])]
  BY DEF list
<1>12. list \in Seq(Boxes) /\ Traced(list, out) /\ Greedy(list, 1)
  BY <1>3, <1>4, <1>9, <1>10, <1>11, ListIsGreedy
<1>13. found[w] = {}
  BY DEF Infer, Goto, DInv, Detecting
<1>14. Len(list) \in Nat
  BY <1>12, LenProperties
<1>15. Typed(out, list, 1, {})
  BY <1>3, <1>12, <1>14 DEF Typed
<1>16. Detecting(w, "suppress", out, list, 1, {})
  BY <1>12 DEF Detecting
<1>17. found' = [found EXCEPT ![w] = {}]
  BY <1>13 DEF Infer, TypeOK
<1>18. pc' = [pc EXCEPT ![w] = "suppress"] /\ row' = [row EXCEPT ![w] = 1]
  BY DEF Infer, Goto
<1>19. /\ error' \in [Workers -> [Axes -> Int]] /\ loaded' \in [Workers -> [Axes -> Int]]
       /\ pre_error' \in [Axes -> Int] /\ updates' \in [Axes -> SUBSET Int]
  BY DEF Infer, TypeOK
<1> QED BY <1>1, <1>7, <1>15, <1>16, <1>17, <1>18, <1>19, DetectStep

LEMMA SuppressDetects ==
    ASSUME TypeOK, DInv, NEW w \in Workers, Suppress(w)
    PROVE  TypeOK' /\ DInv'
<1> DEFINE bs == boxes[w]
           i == row[w]
           new == SuppressBy(bs, i)
<1>1. Typed(output[w], bs, i, found[w])
  BY DetectTypes
<1>2. /\ output[w] \in Frames[w] /\ Traced(bs, output[w]) /\ Greedy(bs, i)
      /\ found[w] = {} /\ pc[w] = "suppress" /\ i <= Len(bs)
  BY DEF Suppress, DInv, Detecting
<1>3. bs \in Seq(Boxes) /\ Len(bs) \in Nat /\ i \in DOMAIN bs /\ i \in Nat
  BY <1>1, <1>2, LenProperties DEF Typed
<1>4. boxes' = [boxes EXCEPT ![w] = new] /\ row' = [row EXCEPT ![w] = i + 1]
  BY DEF Suppress
<1> HIDE DEF bs, i, new
<1>5. new \in Seq(Boxes) /\ Len(new) = Len(bs)
  BY <1>3, SuppressFacts DEF new
<1>6. Traced(new, output[w]) /\ Greedy(new, i + 1)
  BY <1>2, <1>3, SuppressIsGreedy, SuppressIsTraced DEF new
<1>7. Typed(output[w], new, i + 1, {})
  BY <1>1, <1>2, <1>3, <1>5 DEF Typed
<1>8. Detecting(w, "suppress", output[w], new, i + 1, {})
  BY <1>2, <1>6 DEF Detecting
<1>9. /\ pc' = [pc EXCEPT ![w] = "suppress"] /\ output' = [output EXCEPT ![w] = output[w]]
      /\ found' = [found EXCEPT ![w] = {}]
  BY <1>2 DEF Suppress, TypeOK
<1>10. /\ error' \in [Workers -> [Axes -> Int]] /\ loaded' \in [Workers -> [Axes -> Int]]
       /\ pre_error' \in [Axes -> Int] /\ updates' \in [Axes -> SUBSET Int]
  BY DEF Suppress, TypeOK
<1> QED BY <1>4, <1>7, <1>8, <1>9, <1>10, DetectStep

LEMMA ReportDetects ==
    ASSUME TypeOK, DInv, NEW w \in Workers, Report(w)
    PROVE  TypeOK' /\ DInv'
<1>1. Typed(output[w], boxes[w], row[w], found[w])
  BY DetectTypes
<1>2. /\ output[w] \in Frames[w] /\ Traced(boxes[w], output[w]) /\ Greedy(boxes[w], row[w])
      /\ pc[w] = "suppress" /\ row[w] > Len(boxes[w])
  BY DEF Report, Goto, DInv, Detecting
<1>3. Reported(boxes[w]) \subseteq DOMAIN boxes[w] /\ DOMAIN boxes[w] \subseteq Nat
  BY <1>1, LenProperties DEF Reported, Typed
<1>4. Typed(output[w], boxes[w], row[w], Reported(boxes[w]))
  BY <1>1, <1>3 DEF Typed
<1>5. Detecting(w, "aim", output[w], boxes[w], row[w], Reported(boxes[w]))
  BY <1>2 DEF Detecting
<1>6. /\ pc' = [pc EXCEPT ![w] = "aim"] /\ output' = [output EXCEPT ![w] = output[w]]
      /\ boxes' = [boxes EXCEPT ![w] = boxes[w]] /\ row' = [row EXCEPT ![w] = row[w]]
      /\ found' = [found EXCEPT ![w] = Reported(boxes[w])]
  BY DEF Report, Goto, TypeOK
<1>7. /\ error' \in [Workers -> [Axes -> Int]] /\ loaded' \in [Workers -> [Axes -> Int]]
      /\ pre_error' \in [Axes -> Int] /\ updates' \in [Axes -> SUBSET Int]
  BY DEF Report, TypeOK
<1> QED BY <1>4, <1>5, <1>6, <1>7, DetectStep

LEMMA NothingIsTyped == Typed(NoOutput, << >>, 1, {})
<1>1. << >> \in Seq(Boxes) /\ Len(<< >>) = 0
  BY EmptySeq
<1> QED BY <1>1 DEF Typed

LEMMA AimAtNothingDetects ==
    ASSUME TypeOK, DInv, NEW w \in Workers, AimAtNothing(w)
    PROVE  TypeOK' /\ DInv'
<1>1. Detecting(w, "detect", NoOutput, << >>, 1, {})
  BY DEF Detecting
<1>2. /\ pc' = [pc EXCEPT ![w] = "detect"] /\ output' = [output EXCEPT ![w] = NoOutput]
      /\ boxes' = [boxes EXCEPT ![w] = << >>] /\ row' = [row EXCEPT ![w] = 1]
      /\ found' = [found EXCEPT ![w] = {}]
  BY DEF AimAtNothing, Goto, Forget
<1>3. /\ error' \in [Workers -> [Axes -> Int]] /\ loaded' \in [Workers -> [Axes -> Int]]
      /\ pre_error' \in [Axes -> Int] /\ updates' \in [Axes -> SUBSET Int]
  BY DEF AimAtNothing, TypeOK
<1> QED BY <1>1, <1>2, <1>3, NothingIsTyped, DetectStep

LEMMA AimDetects ==
    ASSUME TypeOK, DInv, NEW w \in Workers, Aim(w)
    PROVE  TypeOK' /\ DInv'
<1>1. Detecting(w, "load x", NoOutput, << >>, 1, {})
  BY DEF Detecting
<1>2. /\ pc' = [pc EXCEPT ![w] = "load x"] /\ output' = [output EXCEPT ![w] = NoOutput]
      /\ boxes' = [boxes EXCEPT ![w] = << >>] /\ row' = [row EXCEPT ![w] = 1]
      /\ found' = [found EXCEPT ![w] = {}]
  BY DEF Aim, Goto, Forget
<1>3. Typed(output[w], boxes[w], row[w], found[w])
  BY DetectTypes
<1>4. /\ output[w] \in Frames[w] /\ Traced(boxes[w], output[w]) /\ Greedy(boxes[w], row[w])
      /\ row[w] > Len(boxes[w]) /\ found[w] = Reported(boxes[w]) /\ found[w] # {}
  BY DEF Aim, Goto, DInv, Detecting
<1>5. ErrorOf(boxes[w][Closest(boxes[w], found[w])]) \in [Axes -> Int]
  BY <1>3, <1>4, ErrorType DEF Typed
<1>6. error' = [error EXCEPT ![w] = ErrorOf(boxes[w][Closest(boxes[w], found[w])])]
  BY DEF Aim
<1>7. /\ error' \in [Workers -> [Axes -> Int]] /\ loaded' \in [Workers -> [Axes -> Int]]
      /\ pre_error' \in [Axes -> Int] /\ updates' \in [Axes -> SUBSET Int]
  BY <1>5, <1>6 DEF Aim, TypeOK
<1> QED BY <1>1, <1>2, <1>7, NothingIsTyped, DetectStep

\* What comes after the detection leaves the lists alone.
LEMMA AfterwardsDetects ==
    ASSUME TypeOK, DInv, NEW w \in Workers, NEW p \in {"detect", "load x", "store x",
                      "load y", "store y", "move"},
           pc[w] \notin {"suppress", "aim"}, pc' = [pc EXCEPT ![w] = p],
           UNCHANGED detectVars,
           error' \in [Workers -> [Axes -> Int]], loaded' \in [Workers -> [Axes -> Int]],
           pre_error' \in [Axes -> Int], updates' \in [Axes -> SUBSET Int]
    PROVE  TypeOK' /\ DInv'
<1>1. Typed(output[w], boxes[w], row[w], found[w])
  BY DetectTypes
<1>2. Detecting(w, p, output[w], boxes[w], row[w], found[w])
  BY DEF DInv, Detecting
<1>3. /\ output' = [output EXCEPT ![w] = output[w]]
      /\ boxes' = [boxes EXCEPT ![w] = boxes[w]] /\ row' = [row EXCEPT ![w] = row[w]]
      /\ found' = [found EXCEPT ![w] = found[w]]
  BY DEF detectVars, TypeOK
<1>4. p \in {"detect", "suppress", "aim", "load x", "store x", "load y", "store y", "move"}
  OBVIOUS
<1>5. pc' = [pc EXCEPT ![w] = p]
  OBVIOUS
<1>6. /\ error' \in [Workers -> [Axes -> Int]] /\ loaded' \in [Workers -> [Axes -> Int]]
      /\ pre_error' \in [Axes -> Int] /\ updates' \in [Axes -> SUBSET Int]
  OBVIOUS
<1> HIDE DEF Axes
<1> QED BY ONLY TypeOK, DInv, <1>1, <1>2, <1>3, <1>4, <1>5, <1>6, w \in Workers, DetectStep

LEMMA LoadDetects ==
    ASSUME TypeOK, DInv, NEW w \in Workers, NEW a \in Axes, Load(w, a)
    PROVE  TypeOK' /\ DInv'
<1>1. pre_error[a] \in Int /\ error[w][a] \in Int
  BY DEF TypeOK
<1>2. loaded' \in [Workers -> [Axes -> Int]]
  BY <1>1 DEF Load, TypeOK
<1>3. updates' \in [Axes -> SUBSET Int]
  <2>1. updates \in [Axes -> SUBSET Int] /\ updates[a] \union {error[w][a]} \in SUBSET Int
    BY <1>1 DEF TypeOK
  <2> QED BY <2>1 DEF Load
<1>4. error' \in [Workers -> [Axes -> Int]] /\ pre_error' \in [Axes -> Int]
  BY DEF Load, TypeOK
<1>5. pc[w] = LoadPc(a) /\ pc' = [pc EXCEPT ![w] = StorePc(a)] /\ UNCHANGED detectVars
  BY DEF Load, Goto
<1>6. StorePc(a) \in {"store x", "store y"} /\ LoadPc(a) \in {"load x", "load y"}
  BY DEF StorePc, LoadPc
<1> QED BY <1>2, <1>3, <1>4, <1>5, <1>6, AfterwardsDetects

LEMMA StoreDetects ==
    ASSUME TypeOK, DInv, NEW w \in Workers, NEW a \in Axes, Store(w, a)
    PROVE  TypeOK' /\ DInv'
<1>1. error[w][a] \in Int
  BY DEF TypeOK
<1>2. /\ error' \in [Workers -> [Axes -> Int]] /\ loaded' \in [Workers -> [Axes -> Int]]
      /\ pre_error' \in [Axes -> Int] /\ updates' \in [Axes -> SUBSET Int]
  BY <1>1 DEF Store, TypeOK
<1>3. pc[w] = StorePc(a) /\ pc' = [pc EXCEPT ![w] = NextPc(a)] /\ UNCHANGED detectVars
  BY DEF Store, Goto
<1>4. StorePc(a) \in {"store x", "store y"} /\ NextPc(a) \in {"load y", "move"}
  BY DEF StorePc, NextPc
<1> QED BY <1>2, <1>3, <1>4, AfterwardsDetects

LEMMA MoveDetects ==
    ASSUME TypeOK, DInv, NEW w \in Workers, Move(w)
    PROVE  TypeOK' /\ DInv'
<1>1. NoError \in [Axes -> Int]
  BY DEF NoError
<1>2. /\ error' \in [Workers -> [Axes -> Int]] /\ loaded' \in [Workers -> [Axes -> Int]]
      /\ pre_error' \in [Axes -> Int] /\ updates' \in [Axes -> SUBSET Int]
  BY <1>1 DEF Move, TypeOK
<1>3. pc[w] = "move" /\ pc' = [pc EXCEPT ![w] = "detect"] /\ UNCHANGED detectVars
  BY DEF Move, Goto
<1> QED BY <1>2, <1>3, AfterwardsDetects

LEMMA NextDetects == TypeOK /\ DInv /\ [Next]_vars => TypeOK' /\ DInv'
<1> SUFFICES ASSUME TypeOK, DInv, [Next]_vars
             PROVE  TypeOK' /\ DInv'
  OBVIOUS
<1>1. CASE UNCHANGED vars
  BY <1>1 DEF vars, detectVars, TypeOK, DInv
<1>2. ASSUME NEW w \in Workers, Infer(w) PROVE TypeOK' /\ DInv'
  BY <1>2, InferDetects
<1>3. ASSUME NEW w \in Workers, Suppress(w) PROVE TypeOK' /\ DInv'
  BY <1>3, SuppressDetects
<1>4. ASSUME NEW w \in Workers, Report(w) PROVE TypeOK' /\ DInv'
  BY <1>4, ReportDetects
<1>5. ASSUME NEW w \in Workers, AimAtNothing(w) PROVE TypeOK' /\ DInv'
  BY <1>5, AimAtNothingDetects
<1>6. ASSUME NEW w \in Workers, Aim(w) PROVE TypeOK' /\ DInv'
  BY <1>6, AimDetects
<1>7. ASSUME NEW w \in Workers, NEW a \in Axes, Load(w, a) PROVE TypeOK' /\ DInv'
  BY <1>7, LoadDetects
<1>8. ASSUME NEW w \in Workers, NEW a \in Axes, Store(w, a) PROVE TypeOK' /\ DInv'
  BY <1>8, StoreDetects
<1>9. ASSUME NEW w \in Workers, Move(w) PROVE TypeOK' /\ DInv'
  BY <1>9, MoveDetects
<1> QED BY <1>1, <1>2, <1>3, <1>4, <1>5, <1>6, <1>7, <1>8, <1>9 DEF Next

\* Every variable has its type: the target's errors are numbers, because each
\* target is the box of a cell.
THEOREM TypeCorrect == Spec => []TypeOK
<1>1. Init => TypeOK /\ DInv
  BY InitDetects
<1>2. TypeOK /\ DInv /\ [Next]_vars => TypeOK' /\ DInv'
  BY NextDetects
<1> QED BY <1>1, <1>2, PTL DEF Spec

\* What DInv says at "aim" is what NonMaxSuppressed asks for.
LEMMA DetectingIsEnough == TypeOK /\ DInv => NonMaxSuppressed
<1> SUFFICES ASSUME TypeOK, DInv, NEW w \in Workers, pc[w] = "aim"
             PROVE  /\ \A k \in found[w] : \E cell \in Cells :
                           boxes[w][k] = BoxOf(cell, output[w][cell])
                    /\ \A k, l \in found[w] : k # l => ~Overlap(boxes[w][k], boxes[w][l])
                    /\ \A cell \in Cells :
                          Confident(output[w][cell]) =>
                              \E k \in found[w] :
                                 \/ boxes[w][k] = BoxOf(cell, output[w][cell])
                                 \/ /\ boxes[w][k].score >= BoxOf(cell, output[w][cell]).score
                                    /\ Overlap(boxes[w][k], BoxOf(cell, output[w][cell]))
  BY DEF NonMaxSuppressed
<1> DEFINE bs == boxes[w]
           out == output[w]
<1>1. bs \in Seq(Boxes) /\ row[w] \in Nat
  BY DetectTypes DEF Typed
<1>2. /\ Traced(bs, out) /\ Greedy(bs, row[w]) /\ row[w] > Len(bs)
      /\ found[w] = Reported(bs)
  BY DEF DInv, Detecting
<1> HIDE DEF bs, out
<1>3. /\ \A k \in Reported(bs) : \E cell \in Cells : bs[k] = BoxOf(cell, out[cell])
      /\ \A k, l \in Reported(bs) : k # l => ~Overlap(bs[k], bs[l])
      /\ \A cell \in Cells :
                Confident(out[cell]) =>
                    \E k \in Reported(bs) :
                       \/ bs[k] = BoxOf(cell, out[cell])
                       \/ /\ bs[k].score >= BoxOf(cell, out[cell]).score
                          /\ Overlap(bs[k], BoxOf(cell, out[cell]))
  BY <1>1, <1>2, GreedyIsEnough
<1> QED BY <1>2, <1>3 DEF bs, out

\* For every network output: the boxes that Detect() hands out do not overlap,
\* and whoever is confident is handed out, or overlaps one that scores no less.
THEOREM DetectionIsComplete == Spec => []NonMaxSuppressed
<1>1. Init => TypeOK /\ DInv
  BY InitDetects
<1>2. TypeOK /\ DInv /\ [Next]_vars => TypeOK' /\ DInv'
  BY NextDetects
<1>3. TypeOK /\ DInv => NonMaxSuppressed
  BY DetectingIsEnough
<1> QED BY <1>1, <1>2, <1>3, PTL DEF Spec

-------------------------------------------------------------------------------
(* The filters.                                                            *)

\* Where worker w has called Update() of axis a for its frame.
Past(a) == IF a = "x" THEN {"store x", "load y", "store y", "move"} ELSE {"store y", "move"}

\* What a filter remembers, and what a worker has loaded from it, is the error
\* of some update, or the 0 it began with.
MInv ==
    /\ \A a \in Axes : pre_error[a] \in updates[a] \union {0}
    /\ \A w \in Workers, a \in Axes :
           pc[w] \in Past(a) => /\ error[w][a] \in updates[a]
                                /\ loaded[w][a] \in updates[a] \union {0}

LEMMA InitMoves == Init => MInv
BY DEF Init, MInv, Past, NoError, Axes

\* Steps that leave the filters alone and end outside the two updates.
LEMMA OtherMoves ==
    ASSUME TypeOK, MInv, NEW w \in Workers, NEW p \in {"detect", "suppress", "aim", "load x"},
           pc' = [pc EXCEPT ![w] = p], UNCHANGED <<pre_error, updates>>,
           \A v \in Workers \ {w} : error'[v] = error[v] /\ loaded'[v] = loaded[v]
    PROVE  MInv'
<1>1. pc'[w] = p /\ \A v \in Workers \ {w} : pc'[v] = pc[v]
  BY DEF TypeOK
<1>2. \A a \in Axes : p \notin Past(a)
  BY DEF Past
<1>3. ASSUME NEW v \in Workers, NEW a \in Axes, pc'[v] \in Past(a)
      PROVE  error'[v][a] \in updates'[a] /\ loaded'[v][a] \in updates'[a] \union {0}
  <2>1. v # w
    BY <1>1, <1>2, <1>3
  <2> QED BY <1>1, <1>3, <2>1 DEF MInv
<1> QED BY <1>3 DEF MInv

LEMMA LoadMoves ==
    ASSUME TypeOK, MInv, NEW w \in Workers, NEW a \in Axes, Load(w, a)
    PROVE  MInv'
<1>1. /\ pc[w] = LoadPc(a) /\ pc' = [pc EXCEPT ![w] = StorePc(a)]
      /\ loaded' = [loaded EXCEPT ![w][a] = pre_error[a]]
      /\ updates' = [updates EXCEPT ![a] = @ \union {error[w][a]}]
      /\ UNCHANGED <<error, pre_error>>
  BY DEF Load, Goto
<1>2. \A b \in Axes : updates[b] \subseteq updates'[b]
  BY <1>1 DEF TypeOK
<1>3. error[w][a] \in updates'[a]
  BY <1>1 DEF TypeOK
<1>4. \A b \in Axes : pre_error'[b] \in updates'[b] \union {0}
  BY <1>1, <1>2 DEF MInv
<1>5. ASSUME NEW v \in Workers, NEW b \in Axes, pc'[v] \in Past(b)
      PROVE  error'[v][b] \in updates'[b] /\ loaded'[v][b] \in updates'[b] \union {0}
  <2>1. CASE v = w /\ b = a
    <3>1. loaded'[w][a] = pre_error[a]
      BY <1>1 DEF TypeOK
    <3> QED BY <1>1, <1>3, <1>4, <2>1, <3>1
  <2>2. CASE ~(v = w /\ b = a)
    <3>1. pc[v] \in Past(b)
      <4>1. CASE v = w
        <5>1. pc'[w] = StorePc(a)
          BY <1>1 DEF TypeOK
        <5>2. a # b /\ StorePc(a) \in Past(b) /\ pc[w] = LoadPc(a)
          BY <1>1, <1>5, <2>2, <4>1, <5>1
        <5>3. a = "y" /\ b = "x"
          <6>1. (a = "x" /\ b = "y") \/ (a = "y" /\ b = "x")
            BY <5>2 DEF Axes
          <6>2. StorePc("x") \notin Past("y")
            BY DEF StorePc, Past
          <6> QED BY <5>2, <6>1, <6>2
        <5> QED BY <4>1, <5>2, <5>3 DEF LoadPc, Past
      <4>2. CASE v # w
        BY <1>1, <1>5, <4>2 DEF TypeOK
      <4> QED BY <4>1, <4>2
    <3>2. loaded'[v][b] = loaded[v][b]
      BY <1>1, <2>2 DEF TypeOK
    <3> QED BY <1>1, <1>2, <3>1, <3>2 DEF MInv
  <2> QED BY <2>1, <2>2
<1> QED BY <1>4, <1>5 DEF MInv

LEMMA StoreMoves ==
    ASSUME TypeOK, MInv, NEW w \in Workers, NEW a \in Axes, Store(w, a)
    PROVE  MInv'
<1>1. /\ pc[w] = StorePc(a) /\ pc' = [pc EXCEPT ![w] = NextPc(a)]
      /\ pre_error' = [pre_error EXCEPT ![a] = error[w][a]]
      /\ UNCHANGED <<error, loaded, updates>>
  BY DEF Store, Goto
<1>2. error[w][a] \in updates[a]
  BY <1>1 DEF MInv, StorePc, Past
<1>3. \A b \in Axes : pre_error'[b] \in updates'[b] \union {0}
  BY <1>1, <1>2 DEF MInv, TypeOK
<1>4. \A v \in Workers, b \in Axes : pc'[v] \in Past(b) => pc[v] \in Past(b)
  <2>1. \A v \in Workers : pc'[v] = IF v = w THEN NextPc(a) ELSE pc[v]
    BY <1>1 DEF TypeOK
  <2>2. \A b \in Axes : NextPc(a) \in Past(b) => StorePc(a) \in Past(b)
    BY DEF Axes, NextPc, StorePc, Past
  <2> QED BY <1>1, <2>1, <2>2
<1> QED BY <1>1, <1>3, <1>4 DEF MInv

LEMMA NextMoves == TypeOK /\ MInv /\ [Next]_vars => MInv'
<1> SUFFICES ASSUME TypeOK, MInv, [Next]_vars
             PROVE  MInv'
  OBVIOUS
<1>1. CASE UNCHANGED vars
  BY <1>1 DEF vars, MInv
<1>2. ASSUME NEW w \in Workers, Infer(w) PROVE MInv'
  <2>1. pc' = [pc EXCEPT ![w] = "suppress"] /\ UNCHANGED <<error, loaded, pre_error, updates>>
    BY <1>2 DEF Infer, Goto
  <2> QED BY <2>1, OtherMoves
<1>3. ASSUME NEW w \in Workers, Suppress(w) PROVE MInv'
  BY <1>3 DEF Suppress, MInv
<1>4. ASSUME NEW w \in Workers, Report(w) PROVE MInv'
  <2>1. pc' = [pc EXCEPT ![w] = "aim"] /\ UNCHANGED <<error, loaded, pre_error, updates>>
    BY <1>4 DEF Report, Goto
  <2> QED BY <2>1, OtherMoves
<1>5. ASSUME NEW w \in Workers, AimAtNothing(w) PROVE MInv'
  <2>1. pc' = [pc EXCEPT ![w] = "detect"] /\ UNCHANGED <<error, loaded, pre_error, updates>>
    BY <1>5 DEF AimAtNothing, Goto
  <2> QED BY <2>1, OtherMoves
<1>6. ASSUME NEW w \in Workers, Aim(w) PROVE MInv'
  <2>1. pc' = [pc EXCEPT ![w] = "load x"] /\ UNCHANGED <<loaded, pre_error, updates>>
    BY <1>6 DEF Aim, Goto
  <2>2. \A v \in Workers \ {w} : error'[v] = error[v]
    BY <1>6 DEF Aim, TypeOK
  <2> QED BY <2>1, <2>2, OtherMoves
<1>7. ASSUME NEW w \in Workers, NEW a \in Axes, Load(w, a) PROVE MInv'
  BY <1>7, LoadMoves
<1>8. ASSUME NEW w \in Workers, NEW a \in Axes, Store(w, a) PROVE MInv'
  BY <1>8, StoreMoves
<1>9. ASSUME NEW w \in Workers, Move(w) PROVE MInv'
  <2>1. pc' = [pc EXCEPT ![w] = "detect"] /\ UNCHANGED <<pre_error, updates>>
    BY <1>9 DEF Move, Goto
  <2>2. \A v \in Workers \ {w} : error'[v] = error[v] /\ loaded'[v] = loaded[v]
    BY <1>9 DEF Move, TypeOK
  <2> QED BY <2>1, <2>2, OtherMoves
<1> QED BY <1>1, <1>2, <1>3, <1>4, <1>5, <1>6, <1>7, <1>8, <1>9 DEF Next

\* The derivative brakes only when the error was larger: 1.6 + 3 > 3.
LEMMA FilterSign ==
    ASSUME NEW e \in Int, NEW pre \in Int
    PROVE  /\ e > 0 /\ pre <= e => Filter(e, pre) > 0
           /\ e < 0 /\ pre >= e => Filter(e, pre) < 0
           /\ e = 0 /\ pre = 0 => Filter(e, pre) = 0
BY DEF Filter

LEMMA MovementIsEnough == TypeOK /\ MInv => MovesTowardsTarget
<1> SUFFICES ASSUME TypeOK, MInv, NEW w \in Workers, NEW a \in Axes, pc[w] = "move"
             PROVE  \/ error[w][a] > 0 /\ Movement(w)[a] > 0
                    \/ error[w][a] < 0 /\ Movement(w)[a] < 0
                    \/ error[w][a] = 0 /\ Movement(w)[a] = 0
                    \/ \E p \in updates[a] :
                         /\ error[w][a] > 0 => p > error[w][a]
                         /\ error[w][a] < 0 => p < error[w][a]
                         /\ error[w][a] = 0 => p # 0
  BY DEF MovesTowardsTarget
<1> DEFINE e == error[w][a]
           pre == loaded[w][a]
<1>1. e \in Int /\ pre \in Int
  BY DEF TypeOK
<1>2. pre \in updates[a] \union {0}
  BY DEF MInv, Past
<1>3. Movement(w)[a] = Filter(e, pre)
  BY DEF Movement
<1> HIDE DEF e, pre
<1>4. /\ e > 0 /\ pre <= e => Filter(e, pre) > 0
      /\ e < 0 /\ pre >= e => Filter(e, pre) < 0
      /\ e = 0 /\ pre = 0 => Filter(e, pre) = 0
  BY <1>1, FilterSign
<1>5. \/ e > 0 /\ pre <= e
      \/ e < 0 /\ pre >= e
      \/ e = 0 /\ pre = 0
      \/ (e > 0 => pre > e) /\ (e < 0 => pre < e) /\ (e = 0 => pre # 0) /\ pre # 0
  BY <1>1
<1>6. CASE pre # 0 /\ (e > 0 => pre > e) /\ (e < 0 => pre < e) /\ (e = 0 => pre # 0)
  BY <1>2, <1>6 DEF e
<1> QED BY <1>3, <1>4, <1>5, <1>6 DEF e

\* However the updates of any number of workers interleave: a movement goes
\* towards its target, or an earlier update had a larger error to that side.
THEOREM MovesGoTowardsTarget == Spec => []MovesTowardsTarget
<1>1. Init => TypeOK /\ MInv
  BY InitDetects, InitMoves
<1>2. TypeOK /\ MInv => MovesTowardsTarget
  BY MovementIsEnough
<1>3. TypeOK /\ MInv /\ [Next]_vars => MInv'
  BY NextMoves
<1> QED BY <1>1, <1>2, <1>3, TypeCorrect, PTL DEF Spec

===============================================================================
