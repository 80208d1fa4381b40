------------------------- MODULE StaticVectorProofs -------------------------
(* Proofs about StaticVector, for vectors of any capacity: the first size     *)
(* slots, and no others, hold objects, and the calls that move elements have  *)
(* their documented effects on the sequence of elements.                     *)
EXTENDS StaticVector, SequenceTheorems, TLAPS

USE DEF Slots, States

-----------------------------------------------------------------------------
(* Lists.                                                                   *)

\* A function on 1 .. n is a list of n elements.
LEMMA FunctionIsList ==
    ASSUME NEW S, NEW n \in Nat, NEW f \in [1 .. n -> S]
    PROVE  f \in Seq(S) /\ Len(f) = n
<1>1. f \in Seq(S)
  BY SeqDef
<1>2. Len(f) \in Nat /\ DOMAIN f = 1 .. Len(f)
  BY <1>1, LenProperties
<1>3. 1 .. n = 1 .. Len(f)
  BY <1>2
<1>4. Len(f) = n
  BY <1>2, <1>3
<1> QED BY <1>1, <1>4

\* n copies of x are a list of n elements.
LEMMA RepeatIsList ==
    ASSUME NEW S, NEW n \in Nat, NEW x \in S
    PROVE  /\ Repeat(n, x) \in Seq(S)
           /\ Len(Repeat(n, x)) = n
           /\ \A i \in 1 .. n : Repeat(n, x)[i] = x
<1>1. Repeat(n, x) \in [1 .. n -> S]
  BY DEF Repeat
<1>2. \A i \in 1 .. n : Repeat(n, x)[i] = x
  BY DEF Repeat
<1> QED BY <1>1, <1>2, FunctionIsList

\* A list of one element.
LEMMA SingleIsList ==
    ASSUME NEW S, NEW x \in S
    PROVE  <<x>> \in Seq(S) /\ Len(<<x>>) = 1 /\ <<x>>[1] = x
OBVIOUS

-----------------------------------------------------------------------------
(* The storage algorithms, when they touch only memory that they may touch.  *)

Storage == [Slots -> Objects \union {Raw}]

\* Elements that are objects are read as they are.
LEMMA TakeIsList ==
    ASSUME NEW c \in Storage, NEW first \in Nat \ {0}, NEW last \in Nat,
           first <= last, last <= N + 1,
           \A i \in first .. (last - 1) : c[i] # Raw
    PROVE  /\ Take(c, first, last) \in Seq(Objects)
           /\ Len(Take(c, first, last)) = last - first
           /\ \A k \in 1 .. (last - first) : Take(c, first, last)[k] = c[first + k - 1]
<1>1. N \in Nat
  BY StorageAssumption
<1>2. \A k \in 1 .. (last - first) :
          /\ first + k - 1 \in first .. (last - 1)
          /\ first + k - 1 \in Slots
  BY <1>1
<1>3. \A k \in 1 .. (last - first) : c[first + k - 1] # Raw /\ c[first + k - 1] \in Objects
  BY <1>2 DEF Storage
<1>4. \A k \in 1 .. (last - first) : Take(c, first, last)[k] = c[first + k - 1]
  BY <1>3 DEF Take
<1>5. Take(c, first, last) \in [1 .. (last - first) -> Objects]
  BY <1>3 DEF Take
<1>6. last - first \in Nat
  OBVIOUS
<1> QED BY <1>4, <1>5, <1>6, FunctionIsList

\* Constructing where there is nothing to lose.
LEMMA Constructs ==
    ASSUME NEW c, NEW dest \in Nat \ {0}, NEW t, Len(t) \in Nat,
           dest + Len(t) - 1 <= N,
           \A i \in dest .. (dest + Len(t) - 1) : c[i] \in {Raw, Moved}
    PROVE  ConstructAt(c, dest, t) =
               [i \in Slots |-> IF i \in dest .. (dest + Len(t) - 1)
                                THEN t[i - dest + 1] ELSE c[i]]
<1>1. ~(dest + Len(t) - 1 > N)
  BY StorageAssumption
<1>2. \A i \in Slots : i \in dest .. (dest + Len(t) - 1) => c[i] \in {Raw, Moved}
  OBVIOUS
<1> QED BY <1>1, <1>2 DEF ConstructAt

\* Assigning to objects.
LEMMA Assigns ==
    ASSUME NEW c, NEW dest \in Nat \ {0}, NEW t, Len(t) \in Nat,
           dest + Len(t) - 1 <= N,
           \A i \in dest .. (dest + Len(t) - 1) : c[i] # Raw
    PROVE  AssignAt(c, dest, t) =
               [i \in Slots |-> IF i \in dest .. (dest + Len(t) - 1)
                                THEN t[i - dest + 1] ELSE c[i]]
<1>1. ~(dest + Len(t) - 1 > N)
  BY StorageAssumption
<1>2. \A i \in Slots : i \in dest .. (dest + Len(t) - 1) => ~(c[i] = Raw)
  OBVIOUS
<1> QED BY <1>1, <1>2 DEF AssignAt

\* Moving objects into memory behind them that has nothing to lose.
LEMMA MovesToRaw ==
    ASSUME NEW c \in Storage,
           NEW first \in Nat \ {0}, NEW last \in Nat, NEW dest \in Nat,
           first <= last, last <= dest, dest + (last - first) - 1 <= N,
           last <= N + 1,
           \A i \in first .. (last - 1) : c[i] # Raw,
           \A i \in dest .. (dest + (last - first) - 1) : c[i] \in {Raw, Moved}
    PROVE  UninitializedMove(c, first, last, dest) =
               [i \in Slots |->
                   IF i \in dest .. (dest + (last - first) - 1) THEN c[first + (i - dest)]
                   ELSE IF i \in first .. (last - 1) THEN Moved
                   ELSE c[i]]
<1> DEFINE v == Vacate(c, first, last)
           t == Take(c, first, last)
<1>1. N \in Nat
  BY StorageAssumption
<1>2. /\ Len(t) = last - first /\ Len(t) \in Nat
      /\ \A k \in 1 .. (last - first) : t[k] = c[first + k - 1]
  BY TakeIsList
<1>3. \A i \in Slots : v[i] = IF i \in first .. (last - 1) THEN Moved ELSE c[i]
  BY DEF Vacate
<1>4. \A i \in dest .. (dest + (last - first) - 1) : v[i] \in {Raw, Moved} /\ i \in Slots
  BY <1>1, <1>3
<1>5. UninitializedMove(c, first, last, dest) = ConstructAt(v, dest, t)
  BY DEF UninitializedMove
<1>6. dest \in Nat \ {0}
  OBVIOUS
<1> HIDE DEF v, t
<1>7. ConstructAt(v, dest, t) =
          [i \in Slots |-> IF i \in dest .. (dest + Len(t) - 1)
                           THEN t[i - dest + 1] ELSE v[i]]
  BY <1>2, <1>4, <1>6, Constructs
<1>8. ASSUME NEW i \in Slots, i \in dest .. (dest + (last - first) - 1)
      PROVE  t[i - dest + 1] = c[first + (i - dest)]
  <2>1. i - dest + 1 \in 1 .. (last - first)
    BY <1>8
  <2>2. t[i - dest + 1] = c[first + (i - dest + 1) - 1]
    BY <2>1, <1>2
  <2>3. first + (i - dest + 1) - 1 = first + (i - dest)
    BY <1>1
  <2> QED BY <2>2, <2>3
<1> QED BY <1>2, <1>3, <1>5, <1>7, <1>8

\* Moving objects within the elements: to the right ...
LEMMA MovesRight ==
    ASSUME NEW c \in Storage,
           NEW first \in Nat \ {0}, NEW last \in Nat, NEW destLast \in Nat,
           first <= last, last <= destLast, destLast <= N + 1,
           \A i \in first .. (destLast - 1) : c[i] # Raw
    PROVE  MoveBackward(c, first, last, destLast) =
               [i \in Slots |->
                   IF i \in (destLast - (last - first)) .. (destLast - 1)
                   THEN c[i - (destLast - last)]
                   ELSE IF i \in first .. (last - 1) THEN Moved
                   ELSE c[i]]
<1> DEFINE v == Vacate(c, first, last)
           t == Take(c, first, last)
<1>1. N \in Nat /\ Raw # Moved
  BY StorageAssumption DEF Objects
<1>0. /\ \A i \in first .. (last - 1) : c[i] # Raw
      /\ first \in Nat \ {0} /\ last <= N + 1
  BY <1>1
<1>p. destLast - (last - first) \in Nat \ {0}
  OBVIOUS
<1>6. PICK dest \in Nat \ {0} : dest = destLast - (last - first)
  BY <1>p
<1>2. /\ Len(t) = last - first /\ Len(t) \in Nat
      /\ \A k \in 1 .. (last - first) : t[k] = c[first + k - 1]
  <2>1. /\ Len(t) = last - first
        /\ \A k \in 1 .. (last - first) : t[k] = c[first + k - 1]
    BY <1>0, TakeIsList
  <2>2. last - first \in Nat
    OBVIOUS
  <2> HIDE DEF t
  <2> QED BY <2>1, <2>2
<1>3. \A i \in Slots : v[i] = IF i \in first .. (last - 1) THEN Moved ELSE c[i]
  BY DEF Vacate
<1>4. \A i \in dest .. (destLast - 1) : i \in Slots /\ v[i] # Raw
  BY <1>1, <1>3, <1>6
<1>5. MoveBackward(c, first, last, destLast) = AssignAt(v, dest, t)
  BY <1>6 DEF MoveBackward
<1> HIDE DEF v, t
<1>9. /\ Len(t) \in Nat /\ dest + Len(t) - 1 = destLast - 1 /\ dest + Len(t) - 1 <= N
      /\ \A i \in dest .. (dest + Len(t) - 1) : v[i] # Raw
  BY <1>1, <1>2, <1>4, <1>6
<1>7. AssignAt(v, dest, t) =
          [i \in Slots |-> IF i \in dest .. (dest + Len(t) - 1)
                           THEN t[i - dest + 1] ELSE v[i]]
  BY <1>9, Assigns
<1>8. ASSUME NEW i \in Slots, i \in dest .. (destLast - 1)
      PROVE  t[i - dest + 1] = c[i - (destLast - last)]
  <2>1. i - dest + 1 \in 1 .. (last - first)
    BY <1>6, <1>8
  <2>2. t[i - dest + 1] = c[first + (i - dest + 1) - 1]
    BY <2>1, <1>2
  <2>3. first + (i - dest + 1) - 1 = i - (destLast - last)
    BY <1>1, <1>6
  <2> QED BY <2>2, <2>3
<1>10. MoveBackward(c, first, last, destLast) =
          [i \in Slots |-> IF i \in dest .. (destLast - 1) THEN t[i - dest + 1] ELSE v[i]]
  BY <1>5, <1>7, <1>9
<1>11. dest .. (destLast - 1) = (destLast - (last - first)) .. (destLast - 1)
  BY <1>6
<1> QED BY <1>3, <1>8, <1>10, <1>11

\* ... and to the left.
LEMMA MovesLeft ==
    ASSUME NEW c \in Storage,
           NEW first \in Nat, NEW last \in Nat, NEW dest \in Nat \ {0},
           first <= last, dest <= first, last <= N + 1,
           \A i \in dest .. (last - 1) : c[i] # Raw
    PROVE  MoveForward(c, first, last, dest) =
               [i \in Slots |->
                   IF i \in dest .. (dest + (last - first) - 1) THEN c[first + (i - dest)]
                   ELSE IF i \in first .. (last - 1) THEN Moved
                   ELSE c[i]]
<1> DEFINE v == Vacate(c, first, last)
           t == Take(c, first, last)
<1>1. N \in Nat /\ Raw # Moved
  BY StorageAssumption DEF Objects
<1>0. /\ \A i \in first .. (last - 1) : c[i] # Raw
      /\ first \in Nat \ {0} /\ last <= N + 1
  BY <1>1
<1>2. /\ Len(t) = last - first /\ Len(t) \in Nat
      /\ \A k \in 1 .. (last - first) : t[k] = c[first + k - 1]
  <2>1. /\ Len(t) = last - first
        /\ \A k \in 1 .. (last - first) : t[k] = c[first + k - 1]
    BY <1>0, TakeIsList
  <2>2. last - first \in Nat
    OBVIOUS
  <2> HIDE DEF t
  <2> QED BY <2>1, <2>2
<1>3. \A i \in Slots : v[i] = IF i \in first .. (last - 1) THEN Moved ELSE c[i]
  BY DEF Vacate
<1>4. \A i \in dest .. (dest + (last - first) - 1) : i \in Slots /\ v[i] # Raw
  BY <1>1, <1>3
<1>5. MoveForward(c, first, last, dest) = AssignAt(v, dest, t)
  BY DEF MoveForward
<1> HIDE DEF v, t
<1>9. /\ Len(t) \in Nat /\ dest + Len(t) - 1 <= N
      /\ \A i \in dest .. (dest + Len(t) - 1) : v[i] # Raw
  BY <1>1, <1>2, <1>4
<1>7. AssignAt(v, dest, t) =
          [i \in Slots |-> IF i \in dest .. (dest + Len(t) - 1)
                           THEN t[i - dest + 1] ELSE v[i]]
  BY <1>9, Assigns
<1>8. ASSUME NEW i \in Slots, i \in dest .. (dest + (last - first) - 1)
      PROVE  t[i - dest + 1] = c[first + (i - dest)]
  <2>1. i - dest + 1 \in 1 .. (last - first)
    BY <1>8
  <2>2. t[i - dest + 1] = c[first + (i - dest + 1) - 1]
    BY <2>1, <1>2
  <2>3. first + (i - dest + 1) - 1 = first + (i - dest)
    BY <1>1
  <2> QED BY <2>2, <2>3
<1> QED BY <1>2, <1>3, <1>5, <1>7, <1>8

-----------------------------------------------------------------------------
(* What insertions and erasures make of the storage.                        *)

\* The first n of c's slots hold elements; t comes between p - 1 and p.
With(c, n, p, t) ==
    [i \in Slots |->
        IF i < p THEN c[i]
        ELSE IF i < p + Len(t) THEN t[i - p + 1]
        ELSE IF i <= n + Len(t) THEN c[i - Len(t)]
        ELSE Raw]

\* The elements p .. q - 1 are gone.
Without(c, n, p, q) ==
    [i \in Slots |->
        IF i < p THEN c[i]
        ELSE IF i <= n - (q - p) THEN c[i + (q - p)]
        ELSE Raw]

\* The typing facts that the arithmetic below needs.
LEMMA ValidFacts ==
    ASSUME NEW w, Valid(w)
    PROVE  /\ N \in Nat /\ w.size \in Nat /\ w.size <= N
           /\ End(w) = w.size + 1
           /\ w.cells \in Storage
           /\ \A i \in 1 .. w.size : w.cells[i] # Raw /\ w.cells[i] \in Objects
           /\ \A i \in Slots : i > w.size => w.cells[i] = Raw
           /\ w = [cells |-> w.cells, size |-> w.size]
BY StorageAssumption DEF Valid, End, Storage

\* Whichever of the ranges is the longer one, the three moves and the two
\* fills of insert() put every element in its place: n elements, of which
\* m = (k - e) + a move, and a list of k elements, of which e come to lie behind end().
SeveralPre(c, t, head, tail, n, p, k, e, a) ==
    /\ n \in Nat /\ p \in Nat /\ k \in Nat /\ e \in Nat /\ a \in Nat
    /\ 1 <= p /\ p <= n + 1 /\ n + k <= N
    /\ e <= k /\ (k - e) + a = n + 1 - p /\ (e = 0 \/ a = 0)
    /\ c \in Storage
    /\ \A i \in 1 .. n : c[i] # Raw
    /\ \A i \in Slots : i > n => c[i] = Raw
    /\ Len(t) = k /\ \A i \in 1 .. k : t[i] \in Objects
    /\ Len(tail) = e /\ \A i \in 1 .. e : tail[i] = t[k - e + i]
    /\ Len(head) = k - e /\ \A i \in 1 .. (k - e) : head[i] = t[i]

LEMMA SeveralStorage ==
    ASSUME NEW c, NEW t, NEW head, NEW tail, NEW n, NEW p, NEW k, NEW e, NEW a,
           SeveralPre(c, t, head, tail, n, p, k, e, a)
    PROVE  AssignAt(MoveBackward(UninitializedMove(ConstructAt(c, n + 1, tail),
                                                   p + a, n + 1, n + 1 + e),
                                 p, p + a, n + 1),
                    p, head) = With(c, n, p, t)
<1> DEFINE filled == ConstructAt(c, n + 1, tail)
           moved == UninitializedMove(filled, p + a, n + 1, n + 1 + e)
           shifted == MoveBackward(moved, p, p + a, n + 1)
           final == AssignAt(shifted, p, head)
<1>1. /\ c \in Storage
      /\ \A i \in 1 .. n : c[i] # Raw
      /\ \A i \in Slots : i > n => c[i] = Raw
  BY DEF SeveralPre
<1>2. \A i \in 1 .. k : t[i] \in Objects /\ t[i] # Raw
  BY StorageAssumption DEF SeveralPre
<1>4. /\ N \in Nat /\ n \in Nat /\ n <= N
      /\ p \in Nat /\ p >= 1 /\ p <= n + 1
      /\ k \in Nat /\ n + k <= N
      /\ e \in Nat /\ a \in Nat
      /\ (k - e) + a = n + 1 - p /\ e <= k
      /\ e = 0 \/ a = 0
  BY StorageAssumption DEF SeveralPre
<1>5. Len(t) = k
  BY DEF SeveralPre
<1>6. /\ Len(tail) = e
      /\ \A i \in 1 .. e : tail[i] = t[k - e + i]
  BY DEF SeveralPre
<1>7. /\ Len(head) = k - e
      /\ \A i \in 1 .. (k - e) : head[i] = t[i]
  BY DEF SeveralPre
<1> HIDE DEF moved, shifted, final
<1>8. filled = [i \in Slots |-> IF i \in (n + 1) .. (n + e) THEN t[k - e + (i - n)] ELSE c[i]]
  <2>1. /\ n + 1 \in Nat \ {0} /\ Len(tail) \in Nat /\ n + 1 + Len(tail) - 1 <= N
        /\ \A i \in (n + 1) .. (n + 1 + Len(tail) - 1) : c[i] \in {Raw, Moved}
    BY <1>1, <1>2, <1>4, <1>6
  <2> DEFINE dest == n + 1
  <2> HIDE DEF dest
  <2>2. filled = [i \in Slots |-> IF i \in (n + 1) .. (n + 1 + Len(tail) - 1)
                                  THEN tail[i - (n + 1) + 1] ELSE c[i]]
    <3>1. /\ dest \in Nat \ {0} /\ dest + Len(tail) - 1 <= N /\ Len(tail) \in Nat
          /\ \A i \in dest .. (dest + Len(tail) - 1) : c[i] \in {Raw, Moved}
      BY <1>4, <2>1 DEF dest
    <3>2. ConstructAt(c, dest, tail) =
              [i \in Slots |-> IF i \in dest .. (dest + Len(tail) - 1)
                               THEN tail[i - dest + 1] ELSE c[i]]
      BY <3>1, Constructs
    <3> QED BY <3>2 DEF dest, filled
  <2>3. \A i \in (n + 1) .. (n + e) : tail[i - (n + 1) + 1] = t[k - e + (i - n)]
    <3>1. ASSUME NEW i \in (n + 1) .. (n + e) PROVE tail[i - n] = t[k - e + (i - n)]
      BY <1>4, <1>6
    <3>2. ASSUME NEW i \in (n + 1) .. (n + e) PROVE i - (n + 1) + 1 = i - n
      BY <1>4
    <3> QED BY <3>1, <3>2
  <2>4. n + 1 + Len(tail) - 1 = n + e
    BY <1>4, <1>6
  <2> QED BY <2>2, <2>3, <2>4
<1> HIDE DEF filled
<1>9. /\ filled \in Storage
      /\ \A i \in 1 .. (n + e) : filled[i] # Raw
      /\ \A i \in Slots : i > n + e => filled[i] = Raw
      /\ \A i \in 1 .. n : filled[i] = c[i]
  <2>1. ASSUME NEW i \in (n + 1) .. (n + e) PROVE k - e + (i - n) \in 1 .. k
    BY <1>4
  <2>2. \A i \in 1 .. (n + e) : i \in Slots
    BY <1>4
  <2>3. \A i \in Slots : filled[i] \in Objects \union {Raw}
    BY <1>1, <1>2, <1>8, <2>1 DEF Storage
  <2>4. \A i \in 1 .. n : filled[i] = c[i]
    BY <1>1, <1>4, <1>8, <2>2
  <2>5. ASSUME NEW i \in 1 .. (n + e) PROVE filled[i] # Raw
    <3>1. CASE i \in 1 .. n
      BY <3>1, <2>4, <1>1
    <3>2. CASE i \in (n + 1) .. (n + e)
      <4>1. filled[i] = t[k - e + (i - n)]
        BY <3>2, <2>2, <1>8
      <4>2. t[k - e + (i - n)] # Raw
        BY <3>2, <2>1, <1>2
      <4> QED BY <4>1, <4>2
    <3> QED BY <3>1, <3>2, <1>4
  <2>6. \A i \in Slots : i > n + e => filled[i] = Raw
    BY <1>1, <1>4, <1>8
  <2> QED BY <1>8, <2>3, <2>4, <2>5, <2>6 DEF Storage
<1>10. moved = [i \in Slots |->
                   IF i \in (n + 1 + e) .. (n + k) THEN c[i - k]
                   ELSE IF i \in (p + a) .. n THEN Moved
                   ELSE filled[i]]
  <2>1. /\ p + a \in Nat \ {0} /\ n + 1 \in Nat /\ n + 1 + e \in Nat
        /\ p + a <= n + 1 /\ n + 1 <= n + 1 + e
        /\ n + 1 + e + (n + 1 - (p + a)) - 1 <= N
        /\ n + 1 <= N + 1
        /\ n + 1 + e + (n + 1 - (p + a)) - 1 = n + k
    BY <1>4
  <2>2. /\ \A i \in (p + a) .. (n + 1 - 1) : filled[i] # Raw
        /\ \A i \in (n + 1 + e) .. (n + 1 + e + (n + 1 - (p + a)) - 1) :
               filled[i] \in {Raw, Moved}
    BY <1>4, <1>9
  <2>3. moved = [i \in Slots |->
                   IF i \in (n + 1 + e) .. (n + 1 + e + (n + 1 - (p + a)) - 1)
                   THEN filled[p + a + (i - (n + 1 + e))]
                   ELSE IF i \in (p + a) .. (n + 1 - 1) THEN Moved
                   ELSE filled[i]]
    <3> DEFINE first == p + a
               last == n + 1
               dest == n + 1 + e
    <3>1. /\ first \in Nat \ {0} /\ last \in Nat /\ dest \in Nat
          /\ first <= last /\ last <= dest /\ dest + (last - first) - 1 <= N
          /\ last <= N + 1
          /\ \A i \in first .. (last - 1) : filled[i] # Raw
          /\ \A i \in dest .. (dest + (last - first) - 1) : filled[i] \in {Raw, Moved}
      BY <1>4, <2>1, <2>2
    <3>2. moved = UninitializedMove(filled, first, last, dest)
      BY DEF moved
    <3> HIDE DEF first, last, dest
    <3>3. UninitializedMove(filled, first, last, dest) =
               [i \in Slots |->
                   IF i \in dest .. (dest + (last - first) - 1) THEN filled[first + (i - dest)]
                   ELSE IF i \in first .. (last - 1) THEN Moved
                   ELSE filled[i]]
      BY <1>9, <3>1, MovesToRaw, SMTT(60)
    <3> QED BY <1>4, <3>2, <3>3 DEF first, last, dest
  <2>4. \A i \in (n + 1 + e) .. (n + k) : filled[p + a + (i - (n + 1 + e))] = c[i - k]
    <3>1. ASSUME NEW i \in (n + 1 + e) .. (n + k)
          PROVE  p + a + (i - (n + 1 + e)) = i - k /\ i - k \in 1 .. n
      BY <1>4
    <3> QED BY <3>1, <1>9
  <2>5. n + 1 - 1 = n
    BY <1>4
  <2> QED BY <2>1, <2>3, <2>4, <2>5
<1>11. /\ moved \in Storage
       /\ \A i \in 1 .. (n + k) : moved[i] # Raw
       /\ \A i \in p .. (p + a - 1) : moved[i] = c[i]
       /\ \A i \in 1 .. (p - 1) : moved[i] = c[i]
  <2>1. \A i \in (n + 1 + e) .. (n + k) : i - k \in 1 .. n /\ i - k \in Slots
    BY <1>4
  <2>2. \A i \in 1 .. (n + k) : i \in Slots
    BY <1>4
  <2>3. Moved \in Objects /\ Moved # Raw
    BY StorageAssumption DEF Objects
  <2>4. \A i \in Slots : moved[i] \in Objects \union {Raw}
    BY <1>1, <1>9, <1>10, <2>1, <2>3 DEF Storage
  <2>5. \A i \in 1 .. (n + k) : moved[i] # Raw
    BY <1>1, <1>2, <1>4, <1>9, <1>10, <2>1, <2>2, <2>3
  <2>6. \A i \in 1 .. (p + a - 1) : moved[i] = c[i]
    <3>1. ASSUME NEW i \in 1 .. (p + a - 1)
          PROVE  /\ i \in Slots /\ i \in 1 .. n
                 /\ i \notin (n + 1 + e) .. (n + k) /\ i \notin (p + a) .. n
      BY <1>4
    <3> QED BY <3>1, <1>9, <1>10
  <2>7. /\ \A i \in p .. (p + a - 1) : i \in 1 .. (p + a - 1)
        /\ \A i \in 1 .. (p - 1) : i \in 1 .. (p + a - 1)
    BY <1>4
  <2> QED BY <1>10, <2>4, <2>5, <2>6, <2>7 DEF Storage
<1>12. shifted = [i \in Slots |->
                    IF i \in (n + 1 - a) .. n THEN moved[i - (k - e)]
                    ELSE IF i \in p .. (p + a - 1) THEN Moved
                    ELSE moved[i]]
  <2>1. /\ p \in Nat \ {0} /\ p + a \in Nat /\ n + 1 \in Nat
        /\ p <= p + a /\ p + a <= n + 1 /\ n + 1 <= N + 1
        /\ n + 1 - (p + a - p) = n + 1 - a /\ n + 1 - 1 = n
        /\ n + 1 - (p + a) = k - e
    BY <1>4
  <2>2. \A i \in p .. (n + 1 - 1) : moved[i] # Raw
    BY <1>4, <1>11
  <2>3. shifted = [i \in Slots |->
                    IF i \in (n + 1 - (p + a - p)) .. (n + 1 - 1)
                    THEN moved[i - (n + 1 - (p + a))]
                    ELSE IF i \in p .. (p + a - 1) THEN Moved
                    ELSE moved[i]]
    <3> DEFINE last == p + a
               destLast == n + 1
    <3>1. /\ p \in Nat \ {0} /\ last \in Nat /\ destLast \in Nat
          /\ p <= last /\ last <= destLast /\ destLast <= N + 1
          /\ \A i \in p .. (destLast - 1) : moved[i] # Raw
      BY <1>4, <2>1, <2>2
    <3>2. shifted = MoveBackward(moved, p, last, destLast)
      BY DEF shifted
    <3> HIDE DEF last, destLast
    <3>3. MoveBackward(moved, p, last, destLast) =
              [i \in Slots |->
                    IF i \in (destLast - (last - p)) .. (destLast - 1)
                    THEN moved[i - (destLast - last)]
                    ELSE IF i \in p .. (last - 1) THEN Moved
                    ELSE moved[i]]
      BY <1>11, <3>1, MovesRight
    <3> QED BY <1>4, <3>2, <3>3 DEF last, destLast
  <2> QED BY <2>1, <2>3
<1>13. \A i \in p .. (p + (k - e) - 1) : shifted[i] # Raw
  <2>1. Moved # Raw
    BY StorageAssumption DEF Objects
  <2>2. ASSUME NEW i \in p .. (p + (k - e) - 1) PROVE shifted[i] # Raw
    <3>1. i \in Slots /\ i \in 1 .. (n + k)
      BY <1>4
    <3>2. CASE i \in (n + 1 - a) .. n
      <4>1. i - (k - e) \in 1 .. (n + k)
        BY <3>2, <1>4
      <4> QED BY <3>1, <3>2, <4>1, <1>11, <1>12
    <3>3. CASE i \notin (n + 1 - a) .. n
      BY <2>1, <3>1, <3>3, <1>11, <1>12
    <3> QED BY <3>2, <3>3
  <2> QED BY <2>2
<1>14. final = [i \in Slots |->
                  IF i \in p .. (p + (k - e) - 1) THEN t[i - p + 1] ELSE shifted[i]]
  <2>1. /\ p \in Nat \ {0} /\ Len(head) \in Nat /\ p + Len(head) - 1 <= N
        /\ \A i \in p .. (p + Len(head) - 1) : shifted[i] # Raw
    BY <1>4, <1>7, <1>13
  <2>2. final = [i \in Slots |-> IF i \in p .. (p + Len(head) - 1)
                                 THEN head[i - p + 1] ELSE shifted[i]]
    BY <2>1, Assigns DEF final
  <2>3. ASSUME NEW i \in p .. (p + (k - e) - 1) PROVE head[i - p + 1] = t[i - p + 1]
    BY <1>4, <1>7
  <2> QED BY <2>2, <2>3, <1>7
<1>15. ASSUME NEW i \in Slots
       PROVE  final[i] = With(c, n, p, t)[i]
  <2>0. i \in Nat /\ i >= 1 /\ i <= N
    BY <1>1
  <2>1. With(c, n, p, t)[i] = IF i < p THEN c[i]
                              ELSE IF i < p + k THEN t[i - p + 1]
                              ELSE IF i <= n + k THEN c[i - k] ELSE Raw
    BY <1>5 DEF With
  <2>2. CASE i < p
    <3>1. /\ i \notin p .. (p + (k - e) - 1) /\ i \notin (n + 1 - a) .. n
          /\ i \notin p .. (p + a - 1) /\ i \in 1 .. (p - 1)
      BY <2>0, <2>2, <1>4
    <3> QED BY <2>1, <2>2, <3>1, <1>11, <1>12, <1>14
  <2>3. CASE i \in p .. (p + (k - e) - 1)
    <3>1. ~(i < p) /\ i < p + k
      BY <2>0, <2>3, <1>4
    <3> QED BY <2>1, <2>3, <3>1, <1>14
  <2>4. CASE i \in (n + 1 - a) .. n
    <3>1. /\ i \notin p .. (p + (k - e) - 1) /\ ~(i < p) /\ ~(i < p + k) /\ i <= n + k
          /\ e = 0 /\ i - (k - e) \in p .. (p + a - 1) /\ i - (k - e) = i - k
      BY <2>0, <2>4, <1>4
    <3>2. final[i] = moved[i - (k - e)]
      BY <2>4, <3>1, <1>12, <1>14
    <3>3. moved[i - (k - e)] = c[i - k]
      BY <3>1, <1>11
    <3> QED BY <2>1, <3>1, <3>2, <3>3
  <2>5. CASE i > n
    <3>1. /\ i \notin p .. (p + (k - e) - 1) /\ i \notin (n + 1 - a) .. n
          /\ i \notin p .. (p + a - 1) /\ i \notin (p + a) .. n /\ ~(i < p)
      BY <2>0, <2>5, <1>4
    <3>2. final[i] = moved[i]
      BY <3>1, <1>12, <1>14
    <3>3. CASE i \in (n + 1) .. (n + e)
      <4>0. a = 0
        BY <2>0, <3>3, <1>4
      <4>1. /\ i \notin (n + 1 + e) .. (n + k) /\ i < p + k
            /\ k - e + (i - n) = i - p + 1
        BY <2>0, <3>3, <4>0, <1>4
      <4>2. moved[i] = t[k - e + (i - n)]
        BY <3>1, <3>3, <4>1, <1>8, <1>10
      <4> QED BY <2>1, <3>1, <3>2, <4>1, <4>2
    <3>4. CASE i \in (n + 1 + e) .. (n + k)
      <4>1. ~(i < p + k) /\ i <= n + k
        BY <2>0, <3>4, <1>4
      <4> QED BY <2>1, <3>1, <3>2, <3>4, <4>1, <1>10
    <3>5. CASE i > n + k
      <4>1. /\ i \notin (n + 1 + e) .. (n + k) /\ ~(i < p + k) /\ ~(i <= n + k) /\ i > n + e
        BY <2>0, <3>5, <1>4
      <4> QED BY <2>1, <3>1, <3>2, <4>1, <1>9, <1>10
    <3> QED BY <3>3, <3>4, <3>5, <2>0, <2>5, <1>1, <1>2, <1>4
  <2> QED BY <2>0, <2>2, <2>3, <2>4, <2>5, <1>4
<1>16. final = With(c, n, p, t)
  BY <1>14, <1>15 DEF With
<1> QED BY <1>16 DEF final, shifted, moved, filled

\* What insert() of several elements does to a vector they fit into.
LEMMA InsertSeveralCells ==
    ASSUME NEW w, Valid(w), NEW p \in 1 .. End(w),
           NEW t \in Seq(Objects), w.size + Len(t) <= N
    PROVE  InsertSeveral(w, p, t) =
               [cells |-> With(w.cells, w.size, p, t), size |-> w.size + Len(t)]
<1> DEFINE c == w.cells
           n == w.size
           k == Len(t)
           m == n + 1 - p
           e == IF k >= m THEN k - m ELSE 0
           a == IF k >= m THEN 0 ELSE m - k
           tail == SubSeq(t, k - e + 1, k)
           head == SubSeq(t, 1, k - e)
           final == AssignAt(MoveBackward(UninitializedMove(ConstructAt(c, n + 1, tail),
                                                            p + a, n + 1, n + 1 + e),
                                          p, p + a, n + 1),
                             p, head)
<1>0. /\ N \in Nat /\ n \in Nat /\ n <= N
      /\ p \in Nat /\ p >= 1 /\ p <= n + 1
      /\ k \in Nat /\ n + k <= N
  <2>1. N \in Nat /\ n \in Nat /\ n <= N /\ End(w) = n + 1
    BY ValidFacts
  <2>2. k \in Nat
    BY LenProperties
  <2> QED BY <2>1, <2>2
<1>1. /\ c \in Storage
      /\ \A i \in 1 .. n : c[i] # Raw
      /\ \A i \in Slots : i > n => c[i] = Raw
  BY ValidFacts
<1>2. \A i \in 1 .. k : t[i] \in Objects /\ t[i] # Raw
  BY LenProperties, StorageAssumption
<1>3. /\ m \in Nat /\ e \in Nat /\ a \in Nat
      /\ m = n + 1 - p /\ (k - e) + a = m /\ e <= k
      /\ e = 0 \/ a = 0
  BY <1>0
<1>4. /\ N \in Nat /\ n \in Nat /\ n <= N
      /\ p \in Nat /\ p >= 1 /\ p <= n + 1
      /\ k \in Nat /\ n + k <= N
      /\ m \in Nat /\ e \in Nat /\ a \in Nat
      /\ m = n + 1 - p /\ (k - e) + a = m /\ e <= k
      /\ e = 0 \/ a = 0
  BY <1>0, <1>3
<1>5. InsertSeveral(w, p, t) = [cells |-> final, size |-> n + k]
  BY <1>0 DEF InsertSeveral, End
<1> HIDE DEF c, n, k, m, e, a
<1>6. /\ Len(tail) = e
      /\ \A i \in 1 .. e : tail[i] = t[k - e + i]
  <2>1. \A i \in (k - e + 1) .. k : t[i] \in Objects
    BY <1>2, <1>4
  <2>2. k - e + 1 \in Int /\ k \in Int
    BY <1>4
  <2>3. /\ Len(tail) = IF k - e + 1 <= k THEN k - (k - e + 1) + 1 ELSE 0
        /\ \A i \in 1 .. (k - (k - e + 1) + 1) : tail[i] = t[k - e + 1 + i - 1]
    BY <2>1, <2>2, SubSeqProperties
  <2>4. \A i \in 1 .. e : /\ i \in 1 .. (k - (k - e + 1) + 1)
                          /\ k - e + 1 + i - 1 = k - e + i
    BY <1>4
  <2>5. (IF k - e + 1 <= k THEN k - (k - e + 1) + 1 ELSE 0) = e
    BY <1>4
  <2>6. ASSUME NEW i \in 1 .. e PROVE tail[i] = t[k - e + i]
    BY <2>3, <2>4
  <2> HIDE DEF tail
  <2>7. Len(tail) = e
    BY <1>4, <2>3
  <2> QED BY <2>6, <2>7
<1>7. /\ Len(head) = k - e
      /\ \A i \in 1 .. (k - e) : head[i] = t[i]
  <2>1. \A i \in 1 .. (k - e) : t[i] \in Objects
    BY <1>2, <1>4
  <2>2. k - e \in Int
    BY <1>4
  <2>3. /\ Len(head) = IF 1 <= k - e THEN (k - e) - 1 + 1 ELSE 0
        /\ \A i \in 1 .. ((k - e) - 1 + 1) : head[i] = t[1 + i - 1]
    BY <2>1, <2>2, SubSeqProperties
  <2> QED BY <2>3, <1>2, <1>4
<1> HIDE DEF tail, head
<1>8. final = With(c, n, p, t)
  <2>1. SeveralPre(c, t, head, tail, n, p, k, e, a)
    BY <1>1, <1>2, <1>4, <1>6, <1>7 DEF SeveralPre, k
  <2> QED BY <2>1, SeveralStorage DEF final
<1> QED BY <1>5, <1>8 DEF c, n, k

-----------------------------------------------------------------------------
(* What With and Without hold, as vectors and as sequences.                  *)

\* The arithmetic that the two lemmas about With share.
WithPre(c, n, p, t, k) ==
    /\ n \in Nat /\ p \in Nat /\ k \in Nat /\ N \in Nat
    /\ 1 <= p /\ p <= n + 1 /\ n + k <= N /\ k = Len(t)
    /\ c \in Storage
    /\ \A i \in 1 .. n : c[i] # Raw /\ c[i] \in Objects
    /\ \A i \in 1 .. k : t[i] # Raw /\ t[i] \in Objects

LEMMA WithPreHolds ==
    ASSUME NEW w, Valid(w), NEW p \in 1 .. End(w),
           NEW t \in Seq(Objects), w.size + Len(t) <= N
    PROVE  WithPre(w.cells, w.size, p, t, Len(t))
<1>1. Len(t) \in Nat /\ \A i \in 1 .. Len(t) : t[i] # Raw /\ t[i] \in Objects
  BY LenProperties, StorageAssumption
<1>2. N \in Nat /\ w.size \in Nat /\ End(w) = w.size + 1
  BY ValidFacts
<1>3. p \in Nat /\ 1 <= p /\ p <= w.size + 1
  BY <1>2
<1>4. w.cells \in Storage /\ \A i \in 1 .. w.size : w.cells[i] # Raw /\ w.cells[i] \in Objects
  BY ValidFacts
<1> QED BY <1>1, <1>2, <1>3, <1>4 DEF WithPre

LEMMA WithHolds ==
    ASSUME NEW c, NEW n, NEW p, NEW t, NEW k, WithPre(c, n, p, t, k), NEW i \in Slots
    PROVE  /\ i <= n + k => With(c, n, p, t)[i] \in Objects /\ With(c, n, p, t)[i] # Raw
           /\ i > n + k => With(c, n, p, t)[i] = Raw
<1>1. /\ n \in Nat /\ p \in Nat /\ k \in Nat /\ N \in Nat
      /\ 1 <= p /\ p <= n + 1 /\ n + k <= N /\ k = Len(t)
      /\ i \in Nat /\ 1 <= i /\ i <= N
  BY DEF WithPre
<1>2. With(c, n, p, t)[i] = IF i < p THEN c[i]
                            ELSE IF i < p + k THEN t[i - p + 1]
                            ELSE IF i <= n + k THEN c[i - k] ELSE Raw
  BY <1>1 DEF With
<1>3. CASE i < p
  <2>1. i \in 1 .. n /\ i <= n + k
    BY <1>1, <1>3
  <2> QED BY <1>1, <1>2, <1>3, <2>1 DEF WithPre
<1>4. CASE ~(i < p) /\ i < p + k
  <2>1. i - p + 1 \in 1 .. k /\ i <= n + k
    BY <1>1, <1>4
  <2> QED BY <1>1, <1>2, <1>4, <2>1 DEF WithPre
<1>5. CASE ~(i < p + k) /\ i <= n + k
  <2>1. i - k \in 1 .. n /\ ~(i < p)
    BY <1>1, <1>5
  <2> QED BY <1>1, <1>2, <1>5, <2>1 DEF WithPre
<1>6. CASE i > n + k
  <2>1. ~(i < p) /\ ~(i < p + k) /\ ~(i <= n + k)
    BY <1>1, <1>6
  <2> QED BY <1>1, <1>2, <2>1
<1> QED BY <1>1, <1>3, <1>4, <1>5, <1>6

LEMMA WithIsValid ==
    ASSUME NEW w, Valid(w), NEW p \in 1 .. End(w),
           NEW t \in Seq(Objects), w.size + Len(t) <= N
    PROVE  Valid([cells |-> With(w.cells, w.size, p, t), size |-> w.size + Len(t)])
<1> DEFINE c == With(w.cells, w.size, p, t)
           s == w.size + Len(t)
<1>1. WithPre(w.cells, w.size, p, t, Len(t))
  BY WithPreHolds
<1>2. \A i \in Slots : /\ i <= s => c[i] \in Objects /\ c[i] # Raw
                       /\ i > s => c[i] = Raw
  BY <1>1, WithHolds
<1>3. s \in 0 .. N /\ s \in Nat /\ N \in Nat
  BY <1>1 DEF WithPre
<1>4. c = [i \in Slots |-> c[i]]
  BY DEF With
<1> HIDE DEF c, s
<1>5. \A i \in Slots : (c[i] # Raw <=> i <= s) /\ c[i] \in Objects \union {Raw}
  BY <1>2, <1>3
<1>6. c \in [Slots -> Objects \union {Raw}]
  BY <1>4, <1>5
<1>7. Valid([cells |-> c, size |-> s])
  BY <1>3, <1>5, <1>6 DEF Valid
<1> QED BY <1>7 DEF c, s

LEMMA WithSplices ==
    ASSUME NEW w, Valid(w), NEW p \in 1 .. End(w),
           NEW t \in Seq(Objects), w.size + Len(t) <= N
    PROVE  Contents([cells |-> With(w.cells, w.size, p, t), size |-> w.size + Len(t)])
             = Spliced(w, p, p, t)
<1> DEFINE n == w.size
           k == Len(t)
           s == Contents(w)
           c == With(w.cells, n, p, t)
<1>1. WithPre(w.cells, n, p, t, k)
  BY WithPreHolds
<1>2. /\ n \in Nat /\ p \in Nat /\ k \in Nat /\ N \in Nat
      /\ 1 <= p /\ p <= n + 1 /\ n + k <= N
  BY <1>1 DEF WithPre
<1>3. Len(s) = n /\ \A i \in 1 .. n : s[i] = w.cells[i]
  <2>1. s \in [1 .. n -> Objects]
    BY ValidFacts DEF Contents
  <2> QED BY <1>2, <2>1, FunctionIsList DEF Contents
<1>4. Spliced(w, p, p, t) = Splice(s, p, p, t)
  BY <1>2 DEF Spliced
<1> HIDE DEF n, k, s
<1>5. Splice(s, p, p, t) =
          [i \in 1 .. (n + k) |-> IF i < p THEN s[i]
                                 ELSE IF i < p + k THEN t[i - p + 1]
                                 ELSE s[i - k]]
  <2>1. n - (p - p) + k = n + k /\ \A i \in 1 .. (n + k) : i - k + (p - p) = i - k
    BY <1>2
  <2> QED BY <1>2, <1>3, <2>1 DEF Splice, k
<1>6. \A i \in 1 .. (n + k) :
          c[i] = IF i < p THEN s[i] ELSE IF i < p + k THEN t[i - p + 1] ELSE s[i - k]
  <2>1. ASSUME NEW i \in 1 .. (n + k)
        PROVE  c[i] = IF i < p THEN s[i] ELSE IF i < p + k THEN t[i - p + 1] ELSE s[i - k]
    <3>1. i \in Slots /\ i <= n + k
      BY <1>2
    <3>2. c[i] = IF i < p THEN w.cells[i]
                 ELSE IF i < p + k THEN t[i - p + 1]
                 ELSE IF i <= n + k THEN w.cells[i - k] ELSE Raw
      BY <3>1 DEF With, k
    <3>3. i < p => i \in 1 .. n
      BY <1>2
    <3>4. ~(i < p + k) => i - k \in 1 .. n
      BY <1>2
    <3> QED BY <1>2, <1>3, <3>1, <3>2, <3>3, <3>4
  <2> QED BY <2>1
<1> HIDE DEF c
<1>7. Contents([cells |-> c, size |-> n + k]) = [i \in 1 .. (n + k) |-> c[i]]
  BY DEF Contents
<1> QED BY <1>4, <1>5, <1>6, <1>7 DEF c, n, k

\* Erasing is analogous, and simpler.
LEMMA WithoutIsValid ==
    ASSUME NEW w, Valid(w), NEW p \in 1 .. End(w), NEW q \in p .. End(w)
    PROVE  Valid([cells |-> Without(w.cells, w.size, p, q), size |-> w.size - (q - p)])
<1> DEFINE n == w.size
           c == Without(w.cells, n, p, q)
           s == n - (q - p)
<1>1. /\ N \in Nat /\ n \in Nat /\ n <= N
      /\ p \in Nat /\ q \in Nat /\ 1 <= p /\ p <= q /\ q <= n + 1
  BY ValidFacts
<1>2. /\ w.cells \in Storage
      /\ \A i \in 1 .. n : w.cells[i] # Raw /\ w.cells[i] \in Objects
  BY ValidFacts
<1> HIDE DEF n
<1>3. \A i \in Slots : c[i] = IF i < p THEN w.cells[i]
                              ELSE IF i <= n - (q - p) THEN w.cells[i + (q - p)]
                              ELSE Raw
  BY DEF Without
<1>4. c = [i \in Slots |-> c[i]]
  BY DEF Without
<1> HIDE DEF c
<1>5. \A i \in Slots : (c[i] # Raw <=> i <= s) /\ c[i] \in Objects \union {Raw}
  <2>1. ASSUME NEW i \in Slots
        PROVE  (c[i] # Raw <=> i <= s) /\ c[i] \in Objects \union {Raw}
    <3>1. CASE i < p
      <4>1. (i <= s \/ ~(i <= s)) /\ i \in Nat /\ i >= 1
        BY <1>1
      <4>2. i \in 1 .. n /\ (p <= s + 1)
        BY <1>1, <3>1, <4>1
      <4>3. i <= s
        BY <1>1, <3>1, <4>1, <4>2
      <4> QED BY <1>2, <1>3, <3>1, <4>2, <4>3
    <3>2. CASE ~(i < p) /\ i <= s
      <4>1. i + (q - p) \in 1 .. n
        BY <1>1, <3>2
      <4> QED BY <1>2, <1>3, <3>2, <4>1
    <3>3. CASE ~(i < p) /\ ~(i <= s)
      BY <1>3, <3>3
    <3> QED BY <3>1, <3>2, <3>3
  <2> QED BY <2>1
<1>6. s \in 0 .. N
  BY <1>1
<1>7. c \in [Slots -> Objects \union {Raw}]
  BY <1>4, <1>5
<1> HIDE DEF s
<1>8. Valid([cells |-> c, size |-> s])
  BY <1>5, <1>6, <1>7 DEF Valid
<1> QED BY <1>8 DEF c, s, n

LEMMA WithoutSplices ==
    ASSUME NEW w, Valid(w), NEW p \in 1 .. End(w), NEW q \in p .. End(w)
    PROVE  Contents([cells |-> Without(w.cells, w.size, p, q), size |-> w.size - (q - p)])
             = Spliced(w, p, q, << >>)
<1> DEFINE n == w.size
           s == Contents(w)
           c == Without(w.cells, n, p, q)
           d == q - p
<1>1. /\ N \in Nat /\ n \in Nat /\ n <= N
      /\ p \in Nat /\ q \in Nat /\ 1 <= p /\ p <= q /\ q <= n + 1
  BY ValidFacts
<1>2. Len(s) = n /\ \A i \in 1 .. n : s[i] = w.cells[i]
  <2>1. s \in [1 .. n -> Objects]
    BY ValidFacts DEF Contents
  <2> QED BY <1>1, <2>1, FunctionIsList DEF Contents
<1>3. Len(<< >>) = 0
  OBVIOUS
<1>4. d \in Nat /\ d <= n /\ p + d = q /\ p <= n - d + 1
  BY <1>1
<1>5. Spliced(w, p, q, << >>) = Splice(s, p, q, << >>)
  BY <1>1, <1>3, <1>4 DEF Spliced
<1> HIDE DEF n, s
<1>6. Splice(s, p, q, << >>) =
          [i \in 1 .. (n - d) |-> IF i < p THEN s[i] ELSE s[i + d]]
  <2>1. n - d + 0 = n - d /\ p + 0 = p /\ \A i \in 1 .. (n - d) : i - 0 + d = i + d
    BY <1>1, <1>4
  <2>2. Splice(s, p, q, << >>) =
          [i \in 1 .. (n - d + 0) |-> IF i < p THEN s[i]
                                      ELSE IF i < p + 0 THEN << >>[i - p + 1]
                                      ELSE s[i - 0 + d]]
    BY <1>2, <1>3 DEF Splice
  <2> QED BY <2>1, <2>2
<1>7. \A i \in 1 .. (n - d) : c[i] = IF i < p THEN s[i] ELSE s[i + d]
  <2>1. ASSUME NEW i \in 1 .. (n - d)
        PROVE  c[i] = IF i < p THEN s[i] ELSE s[i + d]
    <3>1. i \in Slots /\ i <= n - (q - p) /\ i \in 1 .. n /\ i + d \in 1 .. n
      BY <1>1, <1>4
    <3>2. c[i] = IF i < p THEN w.cells[i]
                 ELSE IF i <= n - (q - p) THEN w.cells[i + (q - p)] ELSE Raw
      BY <3>1 DEF Without
    <3> QED BY <1>2, <3>1, <3>2
  <2> QED BY <2>1
<1> HIDE DEF c
<1>8. Contents([cells |-> c, size |-> n - d]) = [i \in 1 .. (n - d) |-> c[i]]
  BY DEF Contents
<1>9. Contents([cells |-> c, size |-> n - d]) = Splice(s, p, q, << >>)
  BY <1>6, <1>7, <1>8
<1> QED BY <1>5, <1>9 DEF c, n, d

-----------------------------------------------------------------------------
(* The methods, in terms of With and Without.                               *)

\* Making room leaves an element that has been moved from.
LEMMA MakeRoomCells ==
    ASSUME NEW w, Valid(w), NEW p \in 1 .. w.size, w.size + 1 <= N
    PROVE  MakeRoom(w, p) = With(w.cells, w.size, p, <<Moved>>)
<1> DEFINE c == w.cells
           n == w.size
           last == n + 1
           moved == UninitializedMove(c, n, last, last)
<1>1. /\ N \in Nat /\ n \in Nat /\ n + 1 <= N
      /\ p \in Nat /\ 1 <= p /\ p <= n
  BY ValidFacts
<1>2. /\ c \in Storage
      /\ \A i \in 1 .. n : c[i] # Raw
      /\ \A i \in Slots : i > n => c[i] = Raw
  BY ValidFacts
<1>3. MakeRoom(w, p) = MoveBackward(moved, p, n, last)
  BY <1>1 DEF MakeRoom, End
<1> HIDE DEF c, n
<1>4. /\ n \in Nat \ {0} /\ last \in Nat /\ n <= last /\ last <= N + 1
      /\ last + (last - n) - 1 <= N /\ last + (last - n) - 1 = last
      /\ last \in Slots /\ last - 1 = n
  BY <1>1
<1> HIDE DEF last
<1>5. moved = [i \in Slots |->
                  IF i \in last .. last THEN c[n + (i - last)]
                  ELSE IF i \in n .. n THEN Moved
                  ELSE c[i]]
  <2>1. /\ \A i \in n .. (last - 1) : c[i] # Raw
        /\ \A i \in last .. (last + (last - n) - 1) : c[i] \in {Raw, Moved}
    BY <1>1, <1>2, <1>4
  <2>2. moved = [i \in Slots |->
                   IF i \in last .. (last + (last - n) - 1) THEN c[n + (i - last)]
                   ELSE IF i \in n .. (last - 1) THEN Moved
                   ELSE c[i]]
    BY <1>2, <1>4, <2>1, MovesToRaw
  <2> QED BY <1>4, <2>2
<1>6. \A i \in Slots : moved[i] = IF i = last THEN c[n] ELSE IF i = n THEN Moved ELSE c[i]
  <2>1. n + (last - last) = n
    BY <1>1, <1>4
  <2> QED BY <1>1, <1>4, <1>5, <2>1
<1> HIDE DEF moved
<1>7. /\ moved \in Storage
      /\ \A i \in p .. (last - 1) : moved[i] # Raw
  <2>1. Moved \in Objects /\ Moved # Raw
    BY StorageAssumption DEF Objects
  <2>2. \A i \in Slots : moved[i] \in Objects \union {Raw}
    BY <1>1, <1>2, <1>6, <2>1 DEF Storage
  <2>3. \A i \in p .. (last - 1) : moved[i] # Raw
    BY <1>1, <1>2, <1>4, <1>6, <2>1
  <2> QED BY <1>5, <2>2, <2>3 DEF Storage
<1>8. MoveBackward(moved, p, n, last) =
          [i \in Slots |->
              IF i \in (last - (n - p)) .. (last - 1) THEN moved[i - (last - n)]
              ELSE IF i \in p .. (n - 1) THEN Moved
              ELSE moved[i]]
  BY <1>1, <1>4, <1>7, MovesRight
<1>9. ASSUME NEW i \in Slots
      PROVE  MoveBackward(moved, p, n, last)[i] = With(c, n, p, <<Moved>>)[i]
  <2>0. /\ i \in Nat /\ i >= 1 /\ i <= N /\ last = n + 1
    BY <1>1, <1>4
  <2>1. With(c, n, p, <<Moved>>)[i] =
            IF i < p THEN c[i]
            ELSE IF i < p + 1 THEN <<Moved>>[i - p + 1]
            ELSE IF i <= n + 1 THEN c[i - 1] ELSE Raw
    BY DEF With
  <2>2. MoveBackward(moved, p, n, last)[i] =
            IF i \in (p + 1) .. n THEN moved[i - 1]
            ELSE IF i \in p .. (n - 1) THEN Moved
            ELSE moved[i]
    <3>1. last - (n - p) = p + 1 /\ last - 1 = n /\ last - n = 1
      BY <1>1, <2>0
    <3> QED BY <1>8, <3>1
  <2>3. CASE i < p
    BY <1>1, <1>6, <2>0, <2>1, <2>2, <2>3
  <2>4. CASE i = p
    <3>1. i - p + 1 = 1 /\ ~(i < p) /\ i < p + 1 /\ i \notin (p + 1) .. n /\ i # last
      BY <1>1, <2>0, <2>4
    <3>2. With(c, n, p, <<Moved>>)[i] = Moved
      BY <2>1, <3>1
    <3>3. i \in p .. (n - 1) \/ i = n
      BY <1>1, <2>0, <2>4
    <3> QED BY <1>6, <2>2, <3>1, <3>2, <3>3
  <2>5. CASE i \in (p + 1) .. n
    <3>1. /\ ~(i < p) /\ ~(i < p + 1) /\ i <= n + 1
          /\ i - 1 \in Slots /\ i - 1 # last /\ i - 1 # n
      BY <1>1, <2>0, <2>5
    <3> QED BY <1>6, <2>1, <2>2, <2>5, <3>1
  <2>6. CASE i = n + 1
    <3>1. /\ ~(i < p) /\ ~(i < p + 1) /\ i <= n + 1 /\ i - 1 = n
          /\ i \notin (p + 1) .. n /\ i \notin p .. (n - 1) /\ i = last
      BY <1>1, <2>0, <2>6
    <3> QED BY <1>6, <2>1, <2>2, <3>1
  <2>7. CASE i > n + 1
    <3>1. /\ ~(i < p) /\ ~(i < p + 1) /\ ~(i <= n + 1) /\ i > n
          /\ i \notin (p + 1) .. n /\ i \notin p .. (n - 1) /\ i # last /\ i # n
      BY <1>1, <2>0, <2>7
    <3> QED BY <1>2, <1>6, <2>1, <2>2, <3>1
  <2> QED BY <1>1, <2>0, <2>3, <2>4, <2>5, <2>6, <2>7
<1>10. MoveBackward(moved, p, n, last) = With(c, n, p, <<Moved>>)
  BY <1>8, <1>9 DEF With
<1> QED BY <1>3, <1>10 DEF c, n

\* Constructing one element.
LEMMA ConstructsOne ==
    ASSUME NEW c, NEW p \in Slots, NEW x, c[p] \in {Raw, Moved}
    PROVE  ConstructAt(c, p, <<x>>) = [i \in Slots |-> IF i = p THEN x ELSE c[i]]
<1>1. N \in Nat /\ p \in Nat \ {0} /\ p <= N
  BY StorageAssumption
<1>2. Len(<<x>>) = 1 /\ <<x>>[1] = x
  OBVIOUS
<1>3. /\ Len(<<x>>) \in Nat /\ p + Len(<<x>>) - 1 <= N
      /\ \A i \in p .. (p + Len(<<x>>) - 1) : c[i] \in {Raw, Moved}
  BY <1>1, <1>2
<1>4. ConstructAt(c, p, <<x>>) =
          [i \in Slots |-> IF i \in p .. (p + Len(<<x>>) - 1)
                           THEN <<x>>[i - p + 1] ELSE c[i]]
  BY <1>1, <1>3, Constructs
<1>5. ASSUME NEW i \in Slots
      PROVE  (IF i \in p .. (p + Len(<<x>>) - 1) THEN <<x>>[i - p + 1] ELSE c[i])
                = IF i = p THEN x ELSE c[i]
  <2>1. i \in p .. (p + Len(<<x>>) - 1) <=> i = p
    BY <1>1, <1>2
  <2>2. i = p => i - p + 1 = 1
    BY <1>1
  <2> QED BY <1>2, <2>1, <2>2
<1> QED BY <1>4, <1>5

\* One element more.
LEMMA WithOne ==
    ASSUME NEW c, NEW n \in Nat, NEW p \in 1 .. (n + 1), NEW x, n + 1 <= N
    PROVE  With(c, n, p, <<x>>) =
               [i \in Slots |-> IF i < p THEN c[i] ELSE IF i = p THEN x
                                ELSE IF i <= n + 1 THEN c[i - 1] ELSE Raw]
<1>1. N \in Nat
  BY StorageAssumption
<1>2. Len(<<x>>) = 1 /\ <<x>>[1] = x
  OBVIOUS
<1>3. ASSUME NEW i \in Slots
      PROVE  (IF i < p THEN c[i]
              ELSE IF i < p + 1 THEN <<x>>[i - p + 1]
              ELSE IF i <= n + 1 THEN c[i - 1] ELSE Raw)
             = IF i < p THEN c[i] ELSE IF i = p THEN x
               ELSE IF i <= n + 1 THEN c[i - 1] ELSE Raw
  <2>1. ~(i < p) => (i < p + 1 <=> i = p)
    BY <1>1
  <2>2. i = p => i - p + 1 = 1
    BY <1>1
  <2> QED BY <1>2, <2>1, <2>2
<1> QED BY <1>2, <1>3 DEF With

LEMMA InsertCells ==
    ASSUME NEW w, Valid(w), NEW p \in 1 .. End(w), NEW x, w.size + 1 <= N
    PROVE  /\ ConstructAt(MakeRoom(w, p), p, <<x>>) = With(w.cells, w.size, p, <<x>>)
           /\ Insert(w, p, x) = [cells |-> With(w.cells, w.size, p, <<x>>),
                                 size |-> w.size + 1]
           /\ p # End(w) => MakeRoom(w, p) = With(w.cells, w.size, p, <<Moved>>)
<1>1. /\ N \in Nat /\ w.size \in Nat /\ End(w) = w.size + 1
      /\ p \in 1 .. (w.size + 1) /\ p \in Slots
      /\ \A i \in Slots : i > w.size => w.cells[i] = Raw
  BY ValidFacts
<1>0. ASSUME NEW y
      PROVE  With(w.cells, w.size, p, <<y>>) =
               [i \in Slots |-> IF i < p THEN w.cells[i] ELSE IF i = p THEN y
                                ELSE IF i <= w.size + 1 THEN w.cells[i - 1] ELSE Raw]
  <2> DEFINE n == w.size
             c == w.cells
  <2>1. n \in Nat /\ p \in 1 .. (n + 1) /\ n + 1 <= N
    BY <1>1
  <2> HIDE DEF n, c
  <2>2. With(c, n, p, <<y>>) =
               [i \in Slots |-> IF i < p THEN c[i] ELSE IF i = p THEN y
                                ELSE IF i <= n + 1 THEN c[i - 1] ELSE Raw]
    BY <2>1, WithOne
  <2> QED BY <2>2 DEF n, c
<1>2. ConstructAt(MakeRoom(w, p), p, <<x>>) = With(w.cells, w.size, p, <<x>>)
  <2>1. CASE p = End(w)
    <3>1. MakeRoom(w, p) = w.cells /\ w.cells[p] = Raw
      BY <1>1, <2>1 DEF MakeRoom
    <3>2. ConstructAt(MakeRoom(w, p), p, <<x>>)
             = [i \in Slots |-> IF i = p THEN x ELSE w.cells[i]]
      BY <1>1, <3>1, ConstructsOne
    <3>3. ASSUME NEW i \in Slots
          PROVE  (IF i = p THEN x ELSE w.cells[i])
                 = IF i < p THEN w.cells[i] ELSE IF i = p THEN x
                   ELSE IF i <= w.size + 1 THEN w.cells[i - 1] ELSE Raw
      BY <1>1, <2>1
    <3> QED BY <1>0, <3>2, <3>3
  <2>2. CASE p \in 1 .. w.size
    <3>1. MakeRoom(w, p) = With(w.cells, w.size, p, <<Moved>>)
      BY <2>2, MakeRoomCells
    <3>2. With(w.cells, w.size, p, <<Moved>>) =
            [i \in Slots |-> IF i < p THEN w.cells[i] ELSE IF i = p THEN Moved
                             ELSE IF i <= w.size + 1 THEN w.cells[i - 1] ELSE Raw]
      BY <1>0
    <3>3. MakeRoom(w, p)[p] = Moved
      BY <1>1, <3>1, <3>2
    <3>4. ConstructAt(MakeRoom(w, p), p, <<x>>)
             = [i \in Slots |-> IF i = p THEN x ELSE MakeRoom(w, p)[i]]
      BY <1>1, <3>3, ConstructsOne
    <3>5. ASSUME NEW i \in Slots
          PROVE  (IF i = p THEN x ELSE MakeRoom(w, p)[i])
                 = IF i < p THEN w.cells[i] ELSE IF i = p THEN x
                   ELSE IF i <= w.size + 1 THEN w.cells[i - 1] ELSE Raw
      BY <1>1, <3>1, <3>2
    <3> QED BY <1>0, <3>4, <3>5
  <2> QED BY <1>1, <2>1, <2>2
<1>3. Insert(w, p, x) = [cells |-> With(w.cells, w.size, p, <<x>>), size |-> w.size + 1]
  <2>1. ~(w.size + 1 > N)
    BY <1>1
  <2> QED BY <1>2, <2>1 DEF Insert
<1>4. p # End(w) => MakeRoom(w, p) = With(w.cells, w.size, p, <<Moved>>)
  <2>1. p # End(w) => p \in 1 .. w.size
    BY <1>1
  <2> QED BY <2>1, MakeRoomCells
<1> QED BY <1>2, <1>3, <1>4

LEMMA EmplaceCells ==
    ASSUME NEW w, Valid(w), NEW p \in 1 .. End(w), NEW x, w.size + 1 <= N
    PROVE  Emplace(w, p, x) =
               [cells |-> With(w.cells, w.size, p, <<IF p = End(w) THEN x ELSE Moved>>),
                size |-> w.size + 1]
<1>1. N \in Nat /\ w.size \in Nat /\ ~(w.size + 1 > N)
  BY ValidFacts
<1>2. CASE p = End(w)
  <2>1. MakeRoom(w, p) = w.cells
    BY <1>2 DEF MakeRoom
  <2> QED BY <1>1, <1>2, <2>1, InsertCells DEF Emplace
<1>3. CASE p # End(w)
  BY <1>1, <1>3, InsertCells DEF Emplace
<1> QED BY <1>2, <1>3

LEMMA PushBackCells ==
    ASSUME NEW w, Valid(w), NEW x, w.size + 1 <= N
    PROVE  PushBack(w, x) = [cells |-> With(w.cells, w.size, End(w), <<x>>),
                             size |-> w.size + 1]
<1>1. N \in Nat /\ w.size \in Nat /\ ~(w.size + 1 > N) /\ End(w) \in 1 .. End(w)
  BY ValidFacts
<1>2. MakeRoom(w, End(w)) = w.cells
  BY DEF MakeRoom
<1> QED BY <1>1, <1>2, InsertCells DEF PushBack

-----------------------------------------------------------------------------
(* Erasing.                                                                 *)

ErasePre(c, n, p, q) ==
    /\ N \in Nat /\ n \in Nat /\ n <= N
    /\ p \in Nat /\ q \in Nat /\ 1 <= p /\ p <= q /\ q <= n + 1
    /\ c \in Storage
    /\ \A i \in 1 .. n : c[i] # Raw
    /\ \A i \in Slots : i > n => c[i] = Raw

LEMMA ErasePreHolds ==
    ASSUME NEW w, Valid(w), NEW p \in 1 .. End(w), NEW q \in p .. End(w)
    PROVE  ErasePre(w.cells, w.size, p, q)
<1>1. N \in Nat /\ w.size \in Nat /\ w.size <= N /\ End(w) = w.size + 1
  BY ValidFacts
<1>2. p \in Nat /\ q \in Nat /\ 1 <= p /\ p <= q /\ q <= w.size + 1
  BY <1>1
<1>3. /\ w.cells \in Storage
      /\ \A i \in 1 .. w.size : w.cells[i] # Raw
      /\ \A i \in Slots : i > w.size => w.cells[i] = Raw
  BY ValidFacts
<1> QED BY <1>1, <1>2, <1>3 DEF ErasePre

\* The elements from q on move to the left, and what they leave is destroyed.
LEMMA EraseStorage ==
    ASSUME NEW c, NEW n, NEW p, NEW q, ErasePre(c, n, p, q)
    PROVE  DestroyAt(MoveForward(c, q, n + 1, p), p + (n + 1 - q), n + 1)
             = Without(c, n, p, q)
<1> DEFINE m == MoveForward(c, q, n + 1, p)
           last == n + 1
           from == p + (n + 1 - q)
<1>1. /\ N \in Nat /\ n \in Nat /\ n <= N
      /\ p \in Nat /\ q \in Nat /\ 1 <= p /\ p <= q /\ q <= n + 1
  BY DEF ErasePre
<1>2. /\ c \in Storage
      /\ \A i \in 1 .. n : c[i] # Raw
      /\ \A i \in Slots : i > n => c[i] = Raw
  BY DEF ErasePre
<1>3. last \in Nat /\ p \in Nat \ {0} /\ q <= last /\ last <= N + 1
  BY <1>1
<1>4. \A i \in p .. (last - 1) : c[i] # Raw
  BY <1>1, <1>2
<1> HIDE DEF last
<1>5. MoveForward(c, q, last, p) =
          [i \in Slots |->
              IF i \in p .. (p + (last - q) - 1) THEN c[q + (i - p)]
              ELSE IF i \in q .. (last - 1) THEN Moved
              ELSE c[i]]
  BY <1>1, <1>2, <1>3, <1>4, MovesLeft
<1> USE DEF last
<1>6. Raw # Moved
  BY StorageAssumption DEF Objects
<1>7. ASSUME NEW i \in Slots
      PROVE  (IF i \in from .. (last - 1)
              THEN IF m[i] = Raw THEN Junk ELSE Raw ELSE m[i])
             = IF i < p THEN c[i]
               ELSE IF i <= n - (q - p) THEN c[i + (q - p)] ELSE Raw
  <2>1. i \in Nat /\ 1 <= i /\ i <= N
    BY <1>1
  <2>2. m[i] = IF i \in p .. (p + (last - q) - 1) THEN c[q + (i - p)]
               ELSE IF i \in q .. (last - 1) THEN Moved ELSE c[i]
    BY <1>5
  <2>3. CASE i < p
    <3>1. /\ i \notin from .. (last - 1)
          /\ i \notin p .. (p + (last - q) - 1)
          /\ i \notin q .. (last - 1)
      BY <1>1, <2>1, <2>3
    <3> QED BY <2>2, <2>3, <3>1
  <2>4. CASE p <= i /\ i <= n - (q - p)
    <3>1. /\ i \notin from .. (last - 1)
          /\ i \in p .. (p + (last - q) - 1)
          /\ q + (i - p) = i + (q - p)
          /\ ~(i < p)
      BY <1>1, <2>1, <2>4
    <3> QED BY <2>2, <2>4, <3>1
  <2>5. CASE p <= i /\ i > n - (q - p) /\ i <= n
    <3>1. /\ i \in from .. (last - 1)
          /\ i \notin p .. (p + (last - q) - 1)
          /\ ~(i < p) /\ ~(i <= n - (q - p))
      BY <1>1, <2>1, <2>5
    <3>2. c[i] # Raw
      BY <1>1, <1>2, <2>1, <2>5
    <3> QED BY <1>6, <2>2, <3>1, <3>2
  <2>6. CASE i > n
    <3>1. /\ i \notin from .. (last - 1)
          /\ i \notin p .. (p + (last - q) - 1)
          /\ i \notin q .. (last - 1)
          /\ ~(i < p) /\ ~(i <= n - (q - p))
      BY <1>1, <2>1, <2>6
    <3>2. c[i] = Raw
      BY <1>2, <2>6
    <3> QED BY <2>2, <3>1, <3>2
  <2> QED BY <1>1, <2>1, <2>3, <2>4, <2>5, <2>6
<1> HIDE DEF m, from, last
<1>8. DestroyAt(m, from, last) =
        [i \in Slots |-> IF i \in from .. (last - 1)
                         THEN IF m[i] = Raw THEN Junk ELSE Raw ELSE m[i]]
  BY DEF DestroyAt
<1>9. DestroyAt(m, from, last) = Without(c, n, p, q)
  BY <1>7, <1>8 DEF Without
<1> QED BY <1>9 DEF m, from, last

LEMMA EraseRangeCells ==
    ASSUME NEW w, Valid(w), NEW p \in 1 .. End(w), NEW q \in p .. End(w)
    PROVE  EraseRange(w, p, q) =
             [cells |-> Without(w.cells, w.size, p, q), size |-> w.size - (q - p)]
<1>1. ErasePre(w.cells, w.size, p, q)
  BY ErasePreHolds
<1>2. w.size \in Nat /\ p \in Nat /\ q \in Nat /\ p <= q /\ End(w) = w.size + 1
  BY <1>1 DEF ErasePre, End
<1>3. CASE p = q
  <2>1. ~(p < q) /\ p >= q /\ q - p = 0 /\ w.size - 0 = w.size
    BY <1>2, <1>3
  <2>2. /\ w = [cells |-> w.cells, size |-> w.size]
        /\ w.cells = [i \in Slots |-> w.cells[i]]
    BY ValidFacts DEF Storage
  <2>3. ASSUME NEW i \in Slots
        PROVE  w.cells[i] = IF i < p THEN w.cells[i]
                            ELSE IF i <= w.size - 0 THEN w.cells[i + 0] ELSE Raw
    BY <1>1, <1>2, <2>1 DEF ErasePre
  <2>4. Without(w.cells, w.size, p, q) = w.cells
    BY <2>1, <2>2, <2>3 DEF Without
  <2> QED BY <2>1, <2>2, <2>4 DEF EraseRange
<1>4. CASE p < q
  <2>1. ~(p >= q)
    BY <1>2, <1>4
  <2> QED BY <1>1, <1>2, <2>1, EraseStorage DEF EraseRange
<1> QED BY <1>2, <1>3, <1>4

LEMMA EraseCells ==
    ASSUME NEW w, Valid(w), NEW p \in 1 .. w.size
    PROVE  /\ Erase(w, p) = [cells |-> Without(w.cells, w.size, p, p + 1),
                             size |-> w.size - ((p + 1) - p)]
           /\ p \in 1 .. End(w) /\ p + 1 \in p .. End(w)
<1>1. w.size \in Nat /\ End(w) = w.size + 1
  BY ValidFacts
<1>2. /\ p \in 1 .. End(w) /\ p + 1 \in p .. End(w) /\ (p + 1) - p = 1
      /\ p + (w.size + 1 - (p + 1)) = w.size
  BY <1>1
<1> DEFINE q == p + 1
<1>3. q \in p .. End(w)
  BY <1>2
<1> HIDE DEF q
<1>4. ErasePre(w.cells, w.size, p, q)
  BY <1>2, <1>3, ErasePreHolds
<1>5. DestroyAt(MoveForward(w.cells, q, w.size + 1, p), p + (w.size + 1 - q), w.size + 1)
             = Without(w.cells, w.size, p, q)
  BY <1>4, EraseStorage
<1>6. p + (w.size + 1 - q) = w.size
  BY <1>2 DEF q
<1>7. DestroyAt(MoveForward(w.cells, p + 1, w.size + 1, p), w.size, w.size + 1)
             = Without(w.cells, w.size, p, p + 1)
  BY <1>5, <1>6 DEF q
<1> QED BY <1>1, <1>2, <1>7 DEF Erase

-----------------------------------------------------------------------------
(* The calls that construct at the end or destroy everything.               *)

LEMMA AppendCells ==
    ASSUME NEW w, Valid(w), NEW t \in Seq(Objects), w.size + Len(t) <= N
    PROVE  ConstructAt(w.cells, End(w), t) = With(w.cells, w.size, End(w), t)
<1> DEFINE n == w.size
           p == End(w)
           c == w.cells
           k == Len(t)
<1>1. /\ N \in Nat /\ n \in Nat /\ k \in Nat /\ p = n + 1 /\ n + k <= N
      /\ p \in Nat \ {0} /\ p + k - 1 <= N
  BY ValidFacts, LenProperties
<1>2. \A i \in Slots : i > n => c[i] = Raw
  BY ValidFacts
<1> HIDE DEF n, p, c
<1>3. /\ p \in Nat \ {0} /\ Len(t) \in Nat /\ p + Len(t) - 1 <= N
      /\ \A i \in p .. (p + Len(t) - 1) : c[i] \in {Raw, Moved}
  BY <1>1, <1>2
<1>4. ConstructAt(c, p, t) =
          [i \in Slots |-> IF i \in p .. (p + Len(t) - 1) THEN t[i - p + 1] ELSE c[i]]
  BY <1>3, Constructs
<1> HIDE DEF k
<1>5. ASSUME NEW i \in Slots
      PROVE  (IF i \in p .. (p + k - 1) THEN t[i - p + 1] ELSE c[i])
             = IF i < p THEN c[i] ELSE IF i < p + k THEN t[i - p + 1]
               ELSE IF i <= n + k THEN c[i - k] ELSE Raw
  <2>1. i \in Nat
    BY <1>1
  <2>2. CASE i < p
    BY <1>1, <2>1, <2>2
  <2>3. CASE p <= i /\ i < p + k
    BY <1>1, <2>1, <2>3
  <2>4. CASE i >= p + k
    <3>1. i > n /\ i \notin p .. (p + k - 1) /\ ~(i < p) /\ ~(i < p + k) /\ ~(i <= n + k)
      BY <1>1, <2>1, <2>4
    <3> QED BY <1>2, <3>1
  <2> QED BY <1>1, <2>1, <2>2, <2>3, <2>4
<1> QED BY <1>4, <1>5 DEF With, n, p, c, k

\* A vector without elements.
LEMMA EmptyIsValid ==
    /\ Valid(Empty) /\ Empty.size = 0 /\ End(Empty) = 1
    /\ Empty.cells = [i \in Slots |-> Raw]
<1>1. N \in Nat
  BY StorageAssumption
<1>2. Empty.cells = [i \in Slots |-> Raw] /\ Empty.size = 0
  BY DEF Empty
<1>3. Empty \in [cells : [Slots -> Objects \union {Raw}], size : 0 .. N]
  BY <1>1 DEF Empty
<1>4. \A i \in Slots : Empty.cells[i] # Raw <=> i <= Empty.size
  BY <1>1, <1>2
<1> QED BY <1>2, <1>3, <1>4 DEF Valid, End

LEMMA ClearIsEmpty ==
    ASSUME NEW w, Valid(w)
    PROVE  Clear(w) = Empty
<1>1. /\ N \in Nat /\ w.size \in Nat /\ End(w) = w.size + 1
      /\ \A i \in 1 .. w.size : w.cells[i] # Raw
      /\ \A i \in Slots : i > w.size => w.cells[i] = Raw
  BY ValidFacts
<1>2. ASSUME NEW i \in Slots
      PROVE  (IF i \in 1 .. (w.size + 1 - 1) THEN IF w.cells[i] = Raw THEN Junk ELSE Raw
              ELSE w.cells[i]) = Raw
  BY <1>1
<1> QED BY <1>1, <1>2 DEF Clear, DestroyAt, Empty

\* A vector whose storage is raw, or has been cleared, is given the elements of t.
LEMMA FillCells ==
    ASSUME NEW t \in Seq(Objects), Len(t) <= N
    PROVE  /\ Valid([cells |-> ConstructAt(Empty.cells, 1, t), size |-> Len(t)])
           /\ Contents([cells |-> ConstructAt(Empty.cells, 1, t), size |-> Len(t)]) = t
<1> DEFINE w == [cells |-> ConstructAt(Empty.cells, 1, t), size |-> Len(t)]
<1>1. /\ N \in Nat /\ Len(t) \in Nat /\ Empty.size + Len(t) <= N
      /\ Empty.size + Len(t) = Len(t) /\ 1 \in 1 .. End(Empty)
  BY EmptyIsValid, StorageAssumption, LenProperties
<1>2. ConstructAt(Empty.cells, 1, t) = With(Empty.cells, Empty.size, 1, t)
  BY <1>1, EmptyIsValid, AppendCells
<1>3. Valid(w)
  BY <1>1, <1>2, EmptyIsValid, WithIsValid
<1>4. \A i \in 1 .. Len(t) : ConstructAt(Empty.cells, 1, t)[i] = t[i]
  <2> SUFFICES ASSUME NEW i \in 1 .. Len(t)
               PROVE  ConstructAt(Empty.cells, 1, t)[i] = t[i]
    OBVIOUS
  <2>1. i \in Slots /\ ~(i < 1) /\ i < 1 + Len(t) /\ i - 1 + 1 = i
    BY <1>1
  <2> QED BY <1>2, <2>1 DEF With
<1>5. Contents(w) = [i \in 1 .. Len(t) |-> t[i]]
  BY <1>4 DEF Contents
<1>6. t = [i \in 1 .. Len(t) |-> t[i]]
  BY LenProperties
<1> QED BY <1>3, <1>5, <1>6

LEMMA AssignIsValid ==
    ASSUME NEW w, Valid(w), NEW t \in Seq(Objects)
    PROVE  Valid(Assign(w, t))
<1>1. N \in Nat /\ Len(t) \in Nat
  BY StorageAssumption, LenProperties
<1>2. CASE Len(t) > N
  BY <1>2, ClearIsEmpty, EmptyIsValid DEF Assign
<1>3. CASE Len(t) <= N
  <2>1. ~(Len(t) > N)
    BY <1>1, <1>3
  <2> QED BY <1>3, <2>1, ClearIsEmpty, FillCells DEF Assign
<1> QED BY <1>1, <1>2, <1>3

LEMMA PopBackCells ==
    ASSUME NEW w, Valid(w), w.size > 0
    PROVE  PopBack(w) = EraseRange(w, w.size, End(w))
<1>1. /\ w.size \in Nat /\ w.size \in 1 .. w.size /\ End(w) = w.size + 1
      /\ w.size - ((w.size + 1) - w.size) = w.size - 1
      /\ w.size \in 1 .. End(w) /\ End(w) \in w.size .. End(w)
  BY ValidFacts
<1>2. EraseRange(w, w.size, End(w)) =
        [cells |-> Without(w.cells, w.size, w.size, w.size + 1), size |-> w.size - 1]
  BY <1>1, EraseRangeCells
<1>3. DestroyAt(w.cells, w.size, End(w)) = Without(w.cells, w.size, w.size, w.size + 1)
  <2>1. ASSUME NEW i \in Slots
        PROVE  (IF i \in w.size .. (w.size + 1 - 1) THEN IF w.cells[i] = Raw THEN Junk ELSE Raw
                ELSE w.cells[i])
               = IF i < w.size THEN w.cells[i]
                 ELSE IF i <= w.size - ((w.size + 1) - w.size)
                      THEN w.cells[i + ((w.size + 1) - w.size)] ELSE Raw
    <3>1. i \in Nat
      BY StorageAssumption
    <3>2. (i > w.size => w.cells[i] = Raw) /\ (i = w.size => w.cells[i] # Raw)
      BY <1>1, ValidFacts
    <3>3. CASE i < w.size
      BY <1>1, <3>1, <3>3
    <3>4. CASE i = w.size
      BY <1>1, <3>1, <3>2, <3>4
    <3>5. CASE i > w.size
      BY <1>1, <3>1, <3>2, <3>5
    <3> QED BY <1>1, <3>1, <3>3, <3>4, <3>5
  <2> QED BY <1>1, <2>1 DEF DestroyAt, Without
<1> QED BY <1>2, <1>3 DEF PopBack

LEMMA ResizeCells ==
    ASSUME NEW w, Valid(w), NEW n \in Nat, NEW x \in Objects
    PROVE  /\ n < w.size => /\ Resize(w, n, x) = EraseRange(w, n + 1, End(w))
                            /\ n + 1 \in 1 .. End(w) /\ End(w) \in (n + 1) .. End(w)
           /\ n >= w.size /\ n > N => Resize(w, n, x) = w
           /\ n >= w.size /\ n <= N =>
                /\ Resize(w, n, x) =
                     [cells |-> With(w.cells, w.size, End(w), Repeat(n - w.size, x)),
                      size |-> w.size + Len(Repeat(n - w.size, x))]
                /\ Repeat(n - w.size, x) \in Seq(Objects)
                /\ w.size + Len(Repeat(n - w.size, x)) <= N
                /\ End(w) \in 1 .. End(w)
<1>1. N \in Nat /\ w.size \in Nat /\ w.size <= N /\ End(w) = w.size + 1
  BY ValidFacts
<1>2. CASE n < w.size
  BY <1>1, <1>2 DEF Resize
<1>3. CASE n >= w.size /\ n > N
  BY <1>1, <1>3 DEF Resize
<1>4. CASE n >= w.size /\ n <= N
  <2>1. n - w.size \in Nat /\ ~(n < w.size) /\ ~(n > N) /\ w.size + (n - w.size) = n
    BY <1>1, <1>4
  <2>2. Repeat(n - w.size, x) \in Seq(Objects) /\ Len(Repeat(n - w.size, x)) = n - w.size
    BY <2>1, RepeatIsList
  <2>3. ConstructAt(w.cells, End(w), Repeat(n - w.size, x))
          = With(w.cells, w.size, End(w), Repeat(n - w.size, x))
    BY <1>4, <2>1, <2>2, AppendCells
  <2>4. Resize(w, n, x) =
          [cells |-> With(w.cells, w.size, End(w), Repeat(n - w.size, x)), size |-> n]
    BY <2>1, <2>3 DEF Resize
  <2>5. End(w) \in 1 .. End(w)
    BY <1>1
  <2> QED BY <1>1, <1>4, <2>1, <2>2, <2>4, <2>5
<1> QED BY <1>1, <1>2, <1>3, <1>4

\* What is moved from, a vector whose elements have been moved from, and the
\* elements that remove_if keeps.
LEMMA TakeAll ==
    ASSUME NEW w, Valid(w)
    PROVE  /\ Take(w.cells, 1, End(w)) \in Seq(Objects)
           /\ Len(Take(w.cells, 1, End(w))) = w.size
<1> DEFINE c == w.cells
           last == End(w)
<1>1. /\ c \in Storage /\ last \in Nat /\ 1 \in Nat \ {0} /\ 1 <= last /\ last <= N + 1
      /\ \A i \in 1 .. (last - 1) : c[i] # Raw
      /\ last - 1 = w.size
  BY ValidFacts
<1> HIDE DEF c, last
<1>2. Take(c, 1, last) \in Seq(Objects) /\ Len(Take(c, 1, last)) = last - 1
  BY <1>1, TakeIsList
<1> QED BY <1>1, <1>2 DEF c, last

LEMMA VacateIsValid ==
    ASSUME NEW w, Valid(w)
    PROVE  Valid([cells |-> Vacate(w.cells, 1, End(w)), size |-> w.size])
<1> DEFINE u == Vacate(w.cells, 1, End(w))
<1>1. /\ N \in Nat /\ w.size \in 0 .. N /\ w.size \in Nat
      /\ w.cells \in [Slots -> Objects \union {Raw}]
      /\ \A i \in Slots : w.cells[i] # Raw <=> i <= w.size
  BY StorageAssumption DEF Valid
<1>2. Moved \in Objects /\ Moved # Raw
  BY StorageAssumption DEF Objects
<1>3. u = [i \in Slots |-> IF i \in 1 .. (End(w) - 1) /\ w.cells[i] # Raw
                           THEN Moved ELSE w.cells[i]]
  BY DEF Vacate
<1> HIDE DEF u
<1>4. u \in [Slots -> Objects \union {Raw}]
  BY <1>1, <1>2, <1>3
<1>5. \A i \in Slots : u[i] # Raw <=> i <= w.size
  BY <1>1, <1>2, <1>3
<1> QED BY <1>1, <1>4, <1>5 DEF Valid, u

LEMMA EraseRangeIsValid ==
    ASSUME NEW w, Valid(w), NEW p \in 1 .. End(w), NEW q \in 1 .. End(w)
    PROVE  Valid(EraseRange(w, p, q))
<1>1. w.size \in Nat /\ End(w) = w.size + 1
  BY ValidFacts
<1>2. CASE p < q
  <2>1. q \in p .. End(w)
    BY <1>1, <1>2
  <2> QED BY <2>1, EraseRangeCells, WithoutIsValid
<1>3. CASE ~(p < q)
  <2>1. p >= q
    BY <1>1, <1>3
  <2> QED BY <2>1 DEF EraseRange
<1> QED BY <1>2, <1>3

LEMMA EraseIfIsValid ==
    ASSUME NEW w, Valid(w), NEW k \in 0 .. w.size, NEW f \in [1 .. k -> 1 .. w.size]
    PROVE  Valid(EraseIf(w, k, f))
<1> DEFINE c == [i \in Slots |-> IF i \in 1 .. k THEN w.cells[f[i]] ELSE w.cells[i]]
           u == [w EXCEPT !.cells = c]
<1>1. /\ N \in Nat /\ w.size \in 0 .. N /\ w.size \in Nat /\ k \in Nat /\ k <= w.size
      /\ w \in [cells : [Slots -> Objects \union {Raw}], size : 0 .. N]
      /\ w.cells \in [Slots -> Objects \union {Raw}]
      /\ \A i \in Slots : w.cells[i] # Raw <=> i <= w.size
  BY StorageAssumption DEF Valid
<1>2. ASSUME NEW i \in Slots
      PROVE  c[i] \in Objects \union {Raw} /\ (c[i] # Raw <=> i <= w.size)
  <2>1. CASE i \in 1 .. k
    <3>1. f[i] \in Slots /\ f[i] <= w.size /\ i <= w.size
      BY <1>1, <2>1
    <3> QED BY <1>1, <2>1, <3>1
  <2>2. CASE i \notin 1 .. k
    BY <1>1, <2>2
  <2> QED BY <2>1, <2>2
<1>3. c \in [Slots -> Objects \union {Raw}]
  BY <1>2
<1> HIDE DEF c
<1>4. u \in [cells : [Slots -> Objects \union {Raw}], size : 0 .. N]
      /\ u.cells = c /\ u.size = w.size
  BY <1>1, <1>3
<1>5. Valid(u) /\ End(u) = End(w)
  BY <1>2, <1>4 DEF Valid, End
<1>6. k + 1 \in 1 .. End(u) /\ End(u) \in 1 .. End(u)
  BY <1>1, <1>4 DEF End
<1>7. Valid(EraseRange(u, k + 1, End(u)))
  BY <1>5, <1>6, EraseRangeIsValid
<1> QED BY <1>5, <1>7 DEF EraseIf, c

LEMMA InsertIsValid ==
    ASSUME NEW w, Valid(w), NEW p \in 1 .. End(w), NEW x \in Objects
    PROVE  Valid(Insert(w, p, x)) /\ Valid(Emplace(w, p, x)) /\ Valid(PushBack(w, x))
<1>1. N \in Nat /\ w.size \in Nat /\ End(w) = w.size + 1
  BY ValidFacts
<1>2. CASE w.size + 1 > N
  BY <1>2 DEF Insert, Emplace, PushBack
<1>3. CASE w.size + 1 <= N
  <2>1. /\ <<x>> \in Seq(Objects) /\ Len(<<x>>) = 1
        /\ <<Moved>> \in Seq(Objects) /\ Len(<<Moved>>) = 1
    BY SingleIsList DEF Objects
  <2>2. End(w) \in 1 .. End(w)
    BY <1>1
  <2>3. Valid(Insert(w, p, x))
    BY <1>3, <2>1, InsertCells, WithIsValid
  <2>4. Valid(Emplace(w, p, x))
    <3>1. CASE p = End(w)
      BY <1>3, <2>1, <3>1, EmplaceCells, WithIsValid
    <3>2. CASE p # End(w)
      BY <1>3, <2>1, <3>2, EmplaceCells, WithIsValid
    <3> QED BY <3>1, <3>2
  <2>5. Valid(PushBack(w, x))
    BY <1>3, <2>1, <2>2, PushBackCells, WithIsValid
  <2> QED BY <2>3, <2>4, <2>5
<1> QED BY <1>1, <1>2, <1>3

LEMMA InsertSeveralIsValid ==
    ASSUME NEW w, Valid(w), NEW p \in 1 .. End(w), NEW t \in Seq(Objects)
    PROVE  Valid(InsertSeveral(w, p, t))
<1>1. N \in Nat /\ w.size \in Nat /\ Len(t) \in Nat
  BY ValidFacts, LenProperties
<1>2. CASE w.size + Len(t) > N
  BY <1>2 DEF InsertSeveral
<1>3. CASE w.size + Len(t) <= N
  BY <1>3, InsertSeveralCells, WithIsValid
<1> QED BY <1>1, <1>2, <1>3

LEMMA ResizeIsValid ==
    ASSUME NEW w, Valid(w), NEW n \in Nat, NEW x \in Objects
    PROVE  Valid(Resize(w, n, x))
<1>1. N \in Nat /\ w.size \in Nat /\ End(w) = w.size + 1
  BY ValidFacts
<1>2. CASE n < w.size
  <2>1. n + 1 \in 1 .. End(w) /\ End(w) \in 1 .. End(w)
    BY <1>1, <1>2
  <2> QED BY <1>2, <2>1, ResizeCells, EraseRangeIsValid
<1>3. CASE n >= w.size /\ n > N
  BY <1>3, ResizeCells
<1>4. CASE n >= w.size /\ n <= N
  BY <1>4, ResizeCells, WithIsValid
<1> QED BY <1>1, <1>2, <1>3, <1>4

LEMMA PopBackIsValid ==
    ASSUME NEW w, Valid(w), w.size > 0
    PROVE  Valid(PopBack(w))
<1>1. w.size \in 1 .. End(w) /\ End(w) \in 1 .. End(w)
  BY ValidFacts
<1> QED BY <1>1, PopBackCells, EraseRangeIsValid

-----------------------------------------------------------------------------
(* Type correctness.                                                        *)

\* What callers pass.
LEMMA Arguments ==
    /\ \A t \in Lists : t \in Seq(Objects)
    /\ \A n \in Counts, x \in Values \union {Default} :
           /\ n \in Nat /\ x \in Objects
           /\ Repeat(n, x) \in Seq(Objects) /\ Len(Repeat(n, x)) = n
    /\ \A x \in Values : x \in Objects
<1>1. Values \subseteq Objects /\ Counts \subseteq Nat /\ Default \in Objects
  BY StorageAssumption DEF Objects
<1>2. Lists \subseteq Seq(Values)
  BY StorageAssumption
<1>3. ASSUME NEW t \in Lists
      PROVE  t \in Seq(Objects)
  <2>1. t \in Seq(Values)
    BY <1>2
  <2>2. /\ Len(t) \in Nat /\ t \in [1 .. Len(t) -> Values]
    BY <2>1, LenProperties
  <2>3. t \in [1 .. Len(t) -> Objects]
    BY <1>1, <2>2
  <2> QED BY <2>2, <2>3, FunctionIsList
<1>4. ASSUME NEW n \in Counts, NEW x \in Values \union {Default}
      PROVE  /\ n \in Nat /\ x \in Objects
             /\ Repeat(n, x) \in Seq(Objects) /\ Len(Repeat(n, x)) = n
  <2>1. n \in Nat /\ x \in Objects
    BY <1>1
  <2> QED BY <2>1, RepeatIsList
<1> QED BY <1>1, <1>3, <1>4

LEMMA BecomesKeepsType ==
    ASSUME TypeOK, NEW v \in Vectors, NEW w, Valid(w), Becomes(v, w)
    PROVE  TypeOK'
<1>1. /\ vec' = [vec EXCEPT ![v] = w] /\ alive' = alive /\ alive[v]
  BY DEF Becomes
<1>2. \A u \in Vectors : Valid(vec[u]') /\ (~alive[u]' => vec[u]'.size = 0)
  <2> SUFFICES ASSUME NEW u \in Vectors
               PROVE  Valid(vec'[u]) /\ (~alive'[u] => vec'[u].size = 0)
    BY DEF Valid
  <2>1. vec'[u] = IF u = v THEN w ELSE vec[u]
    BY <1>1 DEF TypeOK
  <2> QED BY <1>1, <2>1 DEF TypeOK
<1> QED BY <1>1, <1>2 DEF TypeOK, Valid
LEMMA UnusedIsRaw ==
    ASSUME NEW w, Valid(w), w.size = 0
    PROVE  w.cells = Empty.cells
<1>1. \A i \in Slots : i > w.size => w.cells[i] = Raw
  BY ValidFacts
<1>2. w.cells \in Storage /\ \A i \in Slots : w.cells[i] = Raw
  BY <1>1, ValidFacts
<1>3. w.cells = [i \in Slots |-> Raw]
  BY <1>2 DEF Storage
<1> QED BY <1>3, EmptyIsValid

LEMMA NextKeepsType ==
    ASSUME TypeOK, Next
    PROVE  TypeOK'
<1>1. PICK v \in Vectors :
        \/ \E t \in Lists : Construct(v, t)
        \/ \E n \in Counts, x \in Values \union {Default} : Construct(v, Repeat(n, x))
        \/ \E o \in Vectors : ConstructCopy(v, o)
        \/ \E o \in Vectors : ConstructMove(v, o)
        \/ Destruct(v)
        \/ \E o \in Vectors : CopyAssign(v, o)
        \/ \E o \in Vectors : MoveAssign(v, o)
        \/ \E t \in Lists : Becomes(v, Assign(vec[v], t))
        \/ \E n \in Counts, x \in Values : Becomes(v, Assign(vec[v], Repeat(n, x)))
        \/ Becomes(v, Clear(vec[v]))
        \/ \E p \in 1 .. End(vec[v]), x \in Values : Becomes(v, Insert(vec[v], p, x))
        \/ \E p \in 1 .. End(vec[v]), n \in Counts, x \in Values :
               Becomes(v, InsertSeveral(vec[v], p, Repeat(n, x)))
        \/ \E p \in 1 .. End(vec[v]), t \in Lists : Becomes(v, InsertSeveral(vec[v], p, t))
        \/ \E p \in 1 .. End(vec[v]), x \in Values : Becomes(v, Emplace(vec[v], p, x))
        \/ \E p \in 1 .. vec[v].size : Becomes(v, Erase(vec[v], p))
        \/ \E p, q \in 1 .. End(vec[v]) : Becomes(v, EraseRange(vec[v], p, q))
        \/ \E x \in Values \union {Default} : Becomes(v, PushBack(vec[v], x))
        \/ vec[v].size > 0 /\ Becomes(v, PopBack(vec[v]))
        \/ \E n \in Counts, x \in Values \union {Default} : Becomes(v, Resize(vec[v], n, x))
        \/ \E P \in SUBSET Objects, k \in 0 .. vec[v].size :
               \E f \in [1 .. k -> 1 .. vec[v].size] :
                   Keeps(vec[v], P, k, f) /\ Becomes(v, EraseIf(vec[v], k, f))
        \/ \E o \in Vectors : Swap(v, o)
  BY Zenon DEF Next
<1> DEFINE w == vec[v]
<1>2. /\ alive \in [Vectors -> BOOLEAN] /\ vec \in [Vectors -> States]
      /\ \A u \in Vectors : Valid(vec[u]) /\ (~alive[u] => vec[u].size = 0)
  BY DEF TypeOK
<1>3. Valid(w) /\ w.size \in Nat /\ End(w) = w.size + 1 /\ N \in Nat
  BY <1>2, ValidFacts
<1>4. ASSUME NEW u, Valid(u), Becomes(v, u)
      PROVE  TypeOK'
  BY <1>4, BecomesKeepsType
<1>5. ASSUME NEW t \in Seq(Objects), Construct(v, t)
      PROVE  TypeOK'
  <2>1. ~alive[v] /\ Len(t) <= N
    BY <1>5 DEF Construct
  <2>2. w.cells = Empty.cells
    BY <1>2, <1>3, <2>1, UnusedIsRaw
  <2> DEFINE u == [cells |-> ConstructAt(Empty.cells, 1, t), size |-> Len(t)]
  <2>3. Valid(u)
    BY <2>1, FillCells
  <2>4. alive' = [alive EXCEPT ![v] = TRUE]
    BY <1>5 DEF Construct
  <2>5. vec' = [vec EXCEPT ![v] = [cells |-> ConstructAt(w.cells, 1, t), size |-> Len(t)]]
    BY <1>5 DEF Construct
  <2>6. vec' = [vec EXCEPT ![v] = u]
    BY <2>2, <2>5
  <2> HIDE DEF u
  <2>7. ASSUME NEW y \in Vectors
        PROVE  Valid(vec'[y]) /\ (~alive'[y] => vec'[y].size = 0)
    BY <1>2, <2>3, <2>4, <2>6
  <2> QED BY <1>2, <2>3, <2>4, <2>6, <2>7 DEF TypeOK, Valid
<1>6. Clear(w) = Empty /\ Valid(Clear(w)) /\ Clear(w).size = 0
  BY <1>3, ClearIsEmpty, EmptyIsValid
<1>7. ASSUME NEW o \in Vectors
      PROVE  /\ Take(vec[o].cells, 1, End(vec[o])) \in Seq(Objects)
             /\ Len(Take(vec[o].cells, 1, End(vec[o]))) = vec[o].size
             /\ Valid([cells |-> Vacate(vec[o].cells, 1, End(vec[o])), size |-> vec[o].size])
             /\ [vec[o] EXCEPT !.cells = Vacate(vec[o].cells, 1, End(vec[o]))]
                  = [cells |-> Vacate(vec[o].cells, 1, End(vec[o])), size |-> vec[o].size]
  <2>1. Valid(vec[o])
    BY <1>2
  <2>2. vec[o] \in States
    BY <1>2
  <2> QED BY <2>1, <2>2, TakeAll, VacateIsValid
<1>8. ASSUME NEW t \in Lists, Construct(v, t)
      PROVE  TypeOK'
  BY <1>5, <1>8, Arguments
<1>9. ASSUME NEW n \in Counts, NEW x \in Values \union {Default}, Construct(v, Repeat(n, x))
      PROVE  TypeOK'
  BY <1>5, <1>9, Arguments
<1>10. ASSUME NEW o \in Vectors, ConstructCopy(v, o)
       PROVE  TypeOK'
  BY <1>5, <1>7, <1>10 DEF ConstructCopy
<1>11. ASSUME NEW o \in Vectors, ConstructMove(v, o)
       PROVE  TypeOK'
  <2> DEFINE t == Take(vec[o].cells, 1, End(vec[o]))
             u == [cells |-> ConstructAt(Empty.cells, 1, t), size |-> Len(t)]
             m == [cells |-> Vacate(vec[o].cells, 1, End(vec[o])), size |-> vec[o].size]
  <2>1. ~alive[v] /\ alive[o] /\ v # o
    BY <1>11 DEF ConstructMove
  <2>2. w.cells = Empty.cells
    BY <1>2, <1>3, <2>1, UnusedIsRaw
  <2>3. t \in Seq(Objects) /\ Len(t) = vec[o].size /\ vec[o].size <= N
    BY <1>2, <1>7, ValidFacts
  <2>4. Valid(u) /\ Valid(m)
    BY <1>7, <2>3, FillCells
  <2>5. alive' = [alive EXCEPT ![v] = TRUE]
    BY <1>11 DEF ConstructMove
  <2>6. vec' = [vec EXCEPT ![v] = [cells |-> ConstructAt(w.cells, 1, t), size |-> vec[o].size],
                           ![o].cells = Vacate(vec[o].cells, 1, End(vec[o]))]
    BY <1>2, <1>11, <2>1 DEF ConstructMove
  <2>7. vec' = [vec EXCEPT ![v] = u, ![o] = m]
    BY <1>2, <1>7, <2>1, <2>2, <2>3, <2>6
  <2> HIDE DEF u, m
  <2>8. ASSUME NEW y \in Vectors
        PROVE  Valid(vec'[y]) /\ (~alive'[y] => vec'[y].size = 0)
    BY <1>2, <2>1, <2>4, <2>5, <2>7
  <2> QED BY <1>2, <2>4, <2>5, <2>7, <2>8 DEF TypeOK, Valid
<1>12. ASSUME Destruct(v)
       PROVE  TypeOK'
  <2>1. /\ alive' = [alive EXCEPT ![v] = FALSE]
        /\ vec' = [vec EXCEPT ![v] = Clear(w)]
    BY <1>12 DEF Destruct
  <2> DEFINE u == Clear(w)
  <2>2. Valid(u) /\ u.size = 0
    BY <1>6
  <2> HIDE DEF u
  <2>3. ASSUME NEW y \in Vectors
        PROVE  Valid(vec'[y]) /\ (~alive'[y] => vec'[y].size = 0)
    BY <1>2, <2>1, <2>2 DEF u
  <2> QED BY <1>2, <2>1, <2>2, <2>3 DEF TypeOK, Valid, u
<1>13. ASSUME NEW o \in Vectors, CopyAssign(v, o)
       PROVE  TypeOK'
  <2>1. Valid(Assign(w, Take(vec[o].cells, 1, End(vec[o]))))
    BY <1>3, <1>7, AssignIsValid
  <2> QED BY <1>4, <1>13, <2>1 DEF CopyAssign
<1>14. ASSUME NEW o \in Vectors, MoveAssign(v, o)
       PROVE  TypeOK'
  <2> DEFINE u == Assign(w, Take(vec[o].cells, 1, End(vec[o])))
             m == [cells |-> Vacate(vec[o].cells, 1, End(vec[o])), size |-> vec[o].size]
  <2>1. Valid(u) /\ Valid(m)
    BY <1>3, <1>7, AssignIsValid
  <2>2. v # o /\ alive[v] /\ alive[o] /\ alive' = alive
    BY <1>14 DEF MoveAssign
  <2>3. vec' = [vec EXCEPT ![v] = u,
                           ![o].cells = Vacate(vec[o].cells, 1, End(vec[o]))]
    BY <1>2, <1>14, <2>2 DEF MoveAssign
  <2> HIDE DEF u
  <2>4. vec' = [vec EXCEPT ![v] = u, ![o] = m]
    BY <1>2, <1>7, <2>2, <2>3
  <2> HIDE DEF m
  <2>5. ASSUME NEW y \in Vectors
        PROVE  Valid(vec'[y]) /\ (~alive'[y] => vec'[y].size = 0)
    BY <1>2, <2>1, <2>2, <2>4
  <2> QED BY <1>2, <2>1, <2>2, <2>4, <2>5 DEF TypeOK, Valid
<1>15. ASSUME NEW t \in Lists
       PROVE  Valid(Assign(w, t))
  BY <1>3, Arguments, AssignIsValid
<1>16. ASSUME NEW n \in Counts, NEW x \in Values
       PROVE  Valid(Assign(w, Repeat(n, x)))
  BY <1>3, Arguments, AssignIsValid
<1>17. ASSUME NEW p \in 1 .. End(w), NEW x \in Values
       PROVE  Valid(Insert(w, p, x)) /\ Valid(Emplace(w, p, x))
  BY <1>3, Arguments, InsertIsValid
<1>18. ASSUME NEW p \in 1 .. End(w), NEW n \in Counts, NEW x \in Values
       PROVE  Valid(InsertSeveral(w, p, Repeat(n, x)))
  BY <1>3, Arguments, InsertSeveralIsValid
<1>19. ASSUME NEW p \in 1 .. End(w), NEW t \in Lists
       PROVE  Valid(InsertSeveral(w, p, t))
  BY <1>3, Arguments, InsertSeveralIsValid
<1>20. ASSUME NEW p \in 1 .. w.size
       PROVE  Valid(Erase(w, p))
  BY <1>3, EraseCells, WithoutIsValid
<1>21. ASSUME NEW p \in 1 .. End(w), NEW q \in 1 .. End(w)
       PROVE  Valid(EraseRange(w, p, q))
  BY <1>3, EraseRangeIsValid
<1>22. ASSUME NEW x \in Values \union {Default}
       PROVE  Valid(PushBack(w, x))
  <2>1. x \in Objects /\ 1 \in 1 .. End(w)
    BY <1>3 DEF Objects
  <2> QED BY <1>3, <2>1, InsertIsValid
<1>23. ASSUME w.size > 0
       PROVE  Valid(PopBack(w))
  BY <1>3, <1>23, PopBackIsValid
<1>24. ASSUME NEW n \in Counts, NEW x \in Values \union {Default}
       PROVE  Valid(Resize(w, n, x))
  BY <1>3, Arguments, ResizeIsValid
<1>25. ASSUME NEW k \in 0 .. w.size, NEW f \in [1 .. k -> 1 .. w.size]
       PROVE  Valid(EraseIf(w, k, f))
  BY <1>3, EraseIfIsValid
<1>26. ASSUME NEW o \in Vectors, Swap(v, o)
       PROVE  TypeOK'
  <2>1. /\ alive[v] /\ alive[o] /\ alive' = alive
        /\ vec' = [vec EXCEPT ![v] = vec[o], ![o] = vec[v]]
    BY <1>26 DEF Swap
  <2>2. ASSUME NEW y \in Vectors
        PROVE  vec'[y] = vec[y] \/ (vec'[y] \in {vec[v], vec[o]} /\ alive[y])
    BY <1>2, <2>1
  <2>3. ASSUME NEW y \in Vectors
        PROVE  Valid(vec'[y]) /\ (~alive'[y] => vec'[y].size = 0)
    BY <1>2, <2>1, <2>2
  <2>4. vec' \in [Vectors -> States]
    BY <1>2, <2>1
  <2> QED BY <1>2, <2>1, <2>3, <2>4 DEF TypeOK, Valid
<1> HIDE DEF w
<1> QED
  BY <1>1, <1>4, <1>6, <1>8, <1>9, <1>10, <1>11, <1>12, <1>13, <1>14, <1>15, <1>16, <1>17,
     <1>18, <1>19, <1>20, <1>21, <1>22, <1>23, <1>24, <1>25, <1>26 DEF w

\* At all times exactly the first size slots of every vector hold objects
\* (static_vector.h: every method), for vectors of any capacity and any callers:
\* no call touches raw memory as if it held an object, or constructs over an object
\* that has not been moved from.
THEOREM TypeCorrect == Spec => []TypeOK
<1>1. Init => TypeOK
  <2> SUFFICES ASSUME Init
               PROVE  TypeOK
    OBVIOUS
  <2>1. Valid(Empty) /\ Empty.size = 0 /\ Empty \in States
    BY EmptyIsValid DEF Valid
  <2> QED BY <2>1 DEF Init, TypeOK
<1>2. TypeOK /\ [Next]_vars => TypeOK'
  <2>1. ASSUME TypeOK, Next
        PROVE  TypeOK'
    BY <2>1, NextKeepsType
  <2>2. ASSUME TypeOK, UNCHANGED vars
        PROVE  TypeOK'
    BY <2>2 DEF vars, TypeOK, Valid
  <2> QED BY <2>1, <2>2
<1> QED BY <1>1, <1>2, PTL DEF Spec

-----------------------------------------------------------------------------
(* What the calls do to the sequence of elements.                           *)

\* A call that throws length_error leaves the elements alone.
LEMMA TooLong ==
    ASSUME NEW w, Valid(w), NEW p \in 1 .. End(w), NEW t, w.size + Len(t) > N, Len(t) \in Nat
    PROVE  Spliced(w, p, p, t) = Contents(w)
<1>1. w.size \in Nat /\ p \in Nat /\ N \in Nat /\ End(w) = w.size + 1
  BY ValidFacts
<1>2. w.size - (p - p) + Len(t) > N
  BY <1>1
<1> QED BY <1>2 DEF Spliced

LEMMA SeveralSplices ==
    ASSUME NEW w, Valid(w), NEW p \in 1 .. End(w), NEW t \in Seq(Objects)
    PROVE  Contents(InsertSeveral(w, p, t)) = Spliced(w, p, p, t)
<1>1. N \in Nat /\ w.size \in Nat /\ Len(t) \in Nat
  BY ValidFacts, LenProperties
<1>2. CASE w.size + Len(t) > N
  BY <1>1, <1>2, TooLong DEF InsertSeveral
<1>3. CASE w.size + Len(t) <= N
  BY <1>3, InsertSeveralCells, WithSplices
<1> QED BY <1>1, <1>2, <1>3

LEMMA OneSplices ==
    ASSUME NEW w, Valid(w), NEW p \in 1 .. End(w), NEW x \in Objects
    PROVE  /\ Contents(Insert(w, p, x)) = Spliced(w, p, p, <<x>>)
           /\ Contents(Emplace(w, p, x)) =
                Spliced(w, p, p, <<IF p = End(w) THEN x ELSE Moved>>)
<1>1. N \in Nat /\ w.size \in Nat
  BY ValidFacts
<1> DEFINE y == IF p = End(w) THEN x ELSE Moved
<1>2. y \in Objects
  BY DEF Objects
<1> HIDE DEF y
<1>3. /\ <<x>> \in Seq(Objects) /\ Len(<<x>>) = 1
      /\ <<y>> \in Seq(Objects) /\ Len(<<y>>) = 1
  BY <1>2, SingleIsList
<1>4. CASE w.size + 1 > N
  <2>1. Spliced(w, p, p, <<x>>) = Contents(w) /\ Spliced(w, p, p, <<y>>) = Contents(w)
    BY <1>3, <1>4, TooLong
  <2> QED BY <1>4, <2>1 DEF Insert, Emplace, y
<1>5. CASE w.size + 1 <= N
  <2>1. Insert(w, p, x) = [cells |-> With(w.cells, w.size, p, <<x>>), size |-> w.size + 1]
    BY <1>5, InsertCells
  <2>2. Emplace(w, p, x) = [cells |-> With(w.cells, w.size, p, <<y>>), size |-> w.size + 1]
    BY <1>5, EmplaceCells DEF y
  <2>3. w.size + Len(<<x>>) <= N /\ w.size + Len(<<y>>) <= N
    BY <1>3, <1>5
  <2>4. Contents([cells |-> With(w.cells, w.size, p, <<x>>), size |-> w.size + Len(<<x>>)])
          = Spliced(w, p, p, <<x>>)
    BY <1>3, <2>3, WithSplices
  <2>5. Contents([cells |-> With(w.cells, w.size, p, <<y>>), size |-> w.size + Len(<<y>>)])
          = Spliced(w, p, p, <<y>>)
    BY <1>3, <2>3, WithSplices
  <2> QED BY <1>3, <2>1, <2>2, <2>4, <2>5 DEF y
<1> QED BY <1>1, <1>4, <1>5

LEMMA ErasuresOfValid ==
    ASSUME NEW w, Valid(w)
    PROVE  ErasuresSplice(w)
<1>1. ASSUME NEW p \in 1 .. w.size
      PROVE  Contents(Erase(w, p)) = Spliced(w, p, p + 1, << >>)
  <2>1. p \in 1 .. End(w) /\ p + 1 \in p .. End(w)
    BY EraseCells
  <2> QED BY <2>1, EraseCells, WithoutSplices
<1>2. ASSUME NEW p \in 1 .. End(w), NEW q \in p .. End(w)
      PROVE  Contents(EraseRange(w, p, q)) = Spliced(w, p, q, << >>)
  BY EraseRangeCells, WithoutSplices
<1> QED BY <1>1, <1>2 DEF ErasuresSplice

LEMMA ResizesOfValid ==
    ASSUME NEW w, Valid(w)
    PROVE  ResizesSplice(w)
<1> SUFFICES ASSUME NEW n \in Counts, NEW x \in Values
             PROVE  Contents(Resize(w, n, x)) =
                      IF n < w.size THEN Spliced(w, n + 1, End(w), << >>)
                      ELSE Spliced(w, End(w), End(w), Repeat(n - w.size, x))
  BY DEF ResizesSplice
<1>1. /\ N \in Nat /\ w.size \in Nat /\ n \in Nat /\ x \in Objects
      /\ End(w) = w.size + 1 /\ End(w) \in 1 .. End(w)
  BY Arguments, ValidFacts
<1>2. CASE n < w.size
  BY <1>1, <1>2, ResizeCells, ErasuresOfValid DEF ErasuresSplice
<1>3. CASE n >= w.size /\ n > N
  <2>1. n - w.size \in Nat /\ w.size + (n - w.size) = n /\ ~(n < w.size)
    BY <1>1, <1>3
  <2>2. Len(Repeat(n - w.size, x)) = n - w.size
    BY <1>1, <2>1, RepeatIsList
  <2>3. Spliced(w, End(w), End(w), Repeat(n - w.size, x)) = Contents(w)
    BY <1>1, <1>3, <2>1, <2>2, TooLong
  <2> QED BY <1>1, <1>3, <2>1, <2>3, ResizeCells
<1>4. CASE n >= w.size /\ n <= N
  <2>1. ~(n < w.size)
    BY <1>1, <1>4
  <2> QED BY <1>1, <1>4, <2>1, ResizeCells, WithSplices
<1> QED BY <1>1, <1>2, <1>3, <1>4

\* The insertions, erasures and resizes have their documented effects, whatever the
\* vector holds, wherever they act and however many elements they add (static_vector.h:
\* insert, erase, resize), for any capacity; emplace() does at end(), and in front of it
\* keeps the elements of the vector in order around one more.
THEOREM CallsAlwaysSplice == Spec => []CallsSplice
<1>1. TypeOK => CallsSplice
  <2> SUFFICES ASSUME TypeOK, NEW v \in Vectors
               PROVE  /\ InsertionsSplice(vec[v])
                      /\ EmplacesMakeRoom(vec[v])
                      /\ ErasuresSplice(vec[v])
                      /\ ResizesSplice(vec[v])
    BY DEF CallsSplice
  <2> DEFINE w == vec[v]
  <2>1. Valid(w)
    BY DEF TypeOK
  <2> HIDE DEF w
  <2>2. InsertionsSplice(w)
    <3>1. ASSUME NEW p \in 1 .. End(w), NEW x \in Values
          PROVE  Contents(Insert(w, p, x)) = Spliced(w, p, p, <<x>>)
      BY <2>1, Arguments, OneSplices
    <3>2. ASSUME NEW p \in 1 .. End(w), NEW n \in Counts, NEW x \in Values
          PROVE  Contents(InsertSeveral(w, p, Repeat(n, x)))
                   = Spliced(w, p, p, Repeat(n, x))
      BY <2>1, Arguments, SeveralSplices
    <3>3. ASSUME NEW p \in 1 .. End(w), NEW t \in Lists
          PROVE  Contents(InsertSeveral(w, p, t)) = Spliced(w, p, p, t)
      BY <2>1, Arguments, SeveralSplices
    <3> QED BY <3>1, <3>2, <3>3 DEF InsertionsSplice
  <2>3. EmplacesMakeRoom(w)
    <3> SUFFICES ASSUME NEW p \in 1 .. End(w), NEW x \in Values
                 PROVE  \E y \in Objects :
                            /\ Contents(Emplace(w, p, x)) = Spliced(w, p, p, <<y>>)
                            /\ p = End(w) => y = x
      BY DEF EmplacesMakeRoom
    <3> DEFINE y == IF p = End(w) THEN x ELSE Moved
    <3>1. x \in Objects /\ y \in Objects
      BY DEF Objects
    <3>2. Contents(Emplace(w, p, x)) = Spliced(w, p, p, <<y>>)
      BY <2>1, <3>1, OneSplices
    <3>3. p = End(w) => y = x
      OBVIOUS
    <3> HIDE DEF y
    <3> QED BY <3>1, <3>2, <3>3
  <2> QED BY <2>1, <2>2, <2>3, ErasuresOfValid, ResizesOfValid DEF w
<1>2. Spec => [](TypeOK => CallsSplice)
  BY <1>1, PTL
<1> QED BY <1>2, TypeCorrect, PTL

=============================================================================
