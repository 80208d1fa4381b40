---------------------------- MODULE StaticVector ----------------------------
(***************************************************************************)
(* base::static_vector: a vector whose elements are constructed and         *)
(* destroyed by hand in an array of N raw slots.  The storage says of every *)
(* slot whether it is raw memory or holds an object, so that what the       *)
(* methods do with uninitialised memory is visible: what would touch        *)
(* memory in a way the language does not allow leaves Junk.                 *)
(*                                                                         *)
(* Positions are numbered from 1; position size + 1 is end().  Elements are *)
(* taken to construct, move and compare without throwing, as the program's  *)
(* double does.                                                            *)
(***************************************************************************)
EXTENDS Integers, Sequences

CONSTANTS
    N,          \* the capacity
    Vectors,    \* the vectors
    Values,     \* what callers put into them
    Default,    \* a default-constructed element
    Moved,      \* an element that has been moved from
    Raw, Junk,  \* uninitialised memory; the result of undefined behaviour
    Counts,     \* the counts that callers pass
    Lists       \* the ranges and initializer lists that callers pass

Objects == Values \union {Default, Moved}

Slots == 1 .. N

\* size() + count does not wrap around: no caller passes counts near 2^64.
ASSUME StorageAssumption ==
    /\ N \in Nat
    /\ Counts \subseteq Nat
    /\ Lists \subseteq Seq(Values)
    /\ Raw \notin Objects /\ Junk \notin Objects \union {Raw}

VARIABLES
    alive,      \* whether the vector's constructor has run
    vec         \* its storage and currentSize

vars == <<alive, vec>>

-----------------------------------------------------------------------------
(* The storage algorithms of the standard library, on cells [first, last).  *)

Overrun == [i \in Slots |-> Junk]

Repeat(n, x) == [i \in 1 .. n |-> x]

\* What reading, or moving from, [first, last) yields.
Take(c, first, last) ==
    [k \in 1 .. (last - first) |->
        IF c[first + k - 1] = Raw THEN Junk ELSE c[first + k - 1]]

\* What moving from [first, last) leaves there.
Vacate(c, first, last) ==
    [i \in Slots |-> IF i \in first .. (last - 1) /\ c[i] # Raw THEN Moved ELSE c[i]]

\* construct_at, uninitialized_fill_n, uninitialized_copy: the memory may be raw, or
\* an object that has been moved from and so has nothing left to lose (insert() of
\* one element constructs over such an object).
ConstructAt(c, dest, t) ==
    IF dest + Len(t) - 1 > N THEN Overrun ELSE
    [i \in Slots |->
        IF i \in dest .. (dest + Len(t) - 1)
        THEN IF c[i] \in {Raw, Moved} THEN t[i - dest + 1] ELSE Junk
        ELSE c[i]]

\* fill, copy: assignment needs an object to assign to.
AssignAt(c, dest, t) ==
    IF dest + Len(t) - 1 > N THEN Overrun ELSE
    [i \in Slots |->
        IF i \in dest .. (dest + Len(t) - 1)
        THEN IF c[i] # Raw THEN t[i - dest + 1] ELSE Junk
        ELSE c[i]]

\* The uninitialised memory lies behind the range.
UninitializedMove(c, first, last, dest) ==
    IF dest < last THEN Overrun
    ELSE ConstructAt(Vacate(c, first, last), dest, Take(c, first, last))

\* Ranges may overlap, to the left; std::move takes the elements from the front.
MoveForward(c, first, last, dest) ==
    IF dest > first THEN Overrun
    ELSE AssignAt(Vacate(c, first, last), dest, Take(c, first, last))

\* Ranges may overlap, to the right.  destLast = last moves every element to
\* itself, which a double survives.
MoveBackward(c, first, last, destLast) ==
    IF destLast < last THEN Overrun
    ELSE AssignAt(Vacate(c, first, last), destLast - (last - first), Take(c, first, last))

DestroyAt(c, first, last) ==
    [i \in Slots |->
        IF i \in first .. (last - 1) THEN IF c[i] = Raw THEN Junk ELSE Raw ELSE c[i]]

-----------------------------------------------------------------------------
(* The methods that change one vector w, as functions of w.  A call that     *)
(* throws length_error returns what it leaves of w.                         *)

Empty == [cells |-> [i \in Slots |-> Raw], size |-> 0]

End(w) == w.size + 1

Contents(w) == [i \in 1 .. w.size |-> w.cells[i]]

Clear(w) == [cells |-> DestroyAt(w.cells, 1, End(w)), size |-> 0]

\* Mutant of Assign: the elements that are replaced are not destroyed.
AssignOver(w, t) ==
    IF Len(t) > N THEN Clear(w)
    ELSE [cells |-> ConstructAt(w.cells, 1, t), size |-> Len(t)]

\* assign and the assignment operators clear before they look at the count.
Assign(w, t) ==
    IF Len(t) > N THEN Clear(w)
    ELSE [cells |-> ConstructAt(Clear(w).cells, 1, t), size |-> Len(t)]

\* The last element goes to raw memory, the others to the right by one.
MakeRoom(w, p) ==
    IF p = End(w) THEN w.cells
    ELSE MoveBackward(UninitializedMove(w.cells, w.size, End(w), End(w)),
                      p, w.size, End(w))

Insert(w, p, x) ==
    IF w.size + 1 > N THEN w
    ELSE [cells |-> ConstructAt(MakeRoom(w, p), p, <<x>>), size |-> w.size + 1]

\* In front of end() the room that was made is left as it is.
Emplace(w, p, x) ==
    IF w.size + 1 > N THEN w
    ELSE [cells |-> IF p = End(w) THEN ConstructAt(w.cells, p, <<x>>) ELSE MakeRoom(w, p),
          size |-> w.size + 1]

\* Mutant of InsertSeveral: as many elements are move-assigned as are inserted.
InsertSeveralShifted(w, p, t) ==
    LET existing == End(w) - p
        count == Len(t)
        atTheEnd == IF count >= existing THEN count - existing ELSE 0
        moveAssigned == IF count >= existing THEN 0 ELSE count
        filled == ConstructAt(w.cells, End(w), SubSeq(t, count - atTheEnd + 1, count))
        moved == UninitializedMove(filled, p + moveAssigned, End(w), End(w) + atTheEnd)
        shifted == MoveBackward(moved, p, p + moveAssigned, End(w))
    IN  IF w.size + count > N THEN w
        ELSE [cells |-> AssignAt(shifted, p, SubSeq(t, 1, count - atTheEnd)),
              size |-> w.size + count]

\* The elements of t that come to lie behind the old end() are constructed
\* there, the old elements move behind them or to the right, and the other
\* elements of t are assigned.
InsertSeveral(w, p, t) ==
    LET existing == End(w) - p
        count == Len(t)
        atTheEnd == IF count >= existing THEN count - existing ELSE 0
        moveAssigned == IF count >= existing THEN 0 ELSE existing - count
        filled == ConstructAt(w.cells, End(w), SubSeq(t, count - atTheEnd + 1, count))
        moved == UninitializedMove(filled, p + moveAssigned, End(w), End(w) + atTheEnd)
        shifted == MoveBackward(moved, p, p + moveAssigned, End(w))
    IN  IF w.size + count > N THEN w
        ELSE [cells |-> AssignAt(shifted, p, SubSeq(t, 1, count - atTheEnd)),
              size |-> w.size + count]

Erase(w, p) ==
    [cells |-> DestroyAt(MoveForward(w.cells, p + 1, End(w), p), w.size, End(w)),
     size |-> w.size - 1]

EraseRange(w, p, q) ==
    IF p >= q THEN w
    ELSE [cells |-> DestroyAt(MoveForward(w.cells, q, End(w), p),
                              p + (End(w) - q), End(w)),
          size |-> w.size - (q - p)]

PushBack(w, x) ==
    IF w.size + 1 > N THEN w
    ELSE [cells |-> ConstructAt(w.cells, End(w), <<x>>), size |-> w.size + 1]

PopBack(w) == [cells |-> DestroyAt(w.cells, w.size, End(w)), size |-> w.size - 1]

\* The elements that are added are appended one by one.
Resize(w, n, x) ==
    IF n < w.size THEN EraseRange(w, n + 1, End(w))
    ELSE IF n > N THEN w
    ELSE [cells |-> ConstructAt(w.cells, End(w), Repeat(n - w.size, x)), size |-> n]

\* f lists the positions that std::remove_if keeps, in their order.
Keeps(w, P, k, f) ==
    /\ \A i, j \in 1 .. k : i < j => f[i] < f[j]
    /\ {f[i] : i \in 1 .. k} = {i \in 1 .. w.size : w.cells[i] \notin P}

EraseIf(w, k, f) ==
    EraseRange([w EXCEPT !.cells =
                   [i \in Slots |-> IF i \in 1 .. k THEN w.cells[f[i]] ELSE w.cells[i]]],
               k + 1, End(w))

-----------------------------------------------------------------------------

Init ==
    /\ alive = [v \in Vectors |-> FALSE]
    /\ vec = [v \in Vectors |-> Empty]

\* A constructor that throws leaves no vector.
Construct(v, t) ==
    /\ ~alive[v] /\ Len(t) <= N
    /\ alive' = [alive EXCEPT ![v] = TRUE]
    /\ vec' = [vec EXCEPT ![v] = [cells |-> ConstructAt(@.cells, 1, t), size |-> Len(t)]]

ConstructCopy(v, o) ==
    /\ alive[o]
    /\ Construct(v, Take(vec[o].cells, 1, End(vec[o])))

\* other keeps its size: its elements are moved from and stay.
ConstructMove(v, o) ==
    /\ ~alive[v] /\ alive[o]
    /\ alive' = [alive EXCEPT ![v] = TRUE]
    /\ vec' = [vec EXCEPT
                 ![v] = [cells |-> ConstructAt(@.cells, 1, Take(vec[o].cells, 1, End(vec[o]))),
                         size |-> vec[o].size],
                 ![o].cells = Vacate(@, 1, End(vec[o]))]

Destruct(v) ==
    /\ alive[v]
    /\ alive' = [alive EXCEPT ![v] = FALSE]
    /\ vec' = [vec EXCEPT ![v] = Clear(@)]

\* A call of a method that leaves w.
Becomes(v, w) ==
    /\ alive[v]
    /\ vec' = [vec EXCEPT ![v] = w]
    /\ UNCHANGED alive

CopyAssign(v, o) ==
    /\ v # o /\ alive[o]
    /\ Becomes(v, Assign(vec[v], Take(vec[o].cells, 1, End(vec[o]))))

MoveAssign(v, o) ==
    /\ v # o /\ alive[v] /\ alive[o]
    /\ vec' = [vec EXCEPT ![v] = Assign(@, Take(vec[o].cells, 1, End(vec[o]))),
                          ![o].cells = Vacate(@, 1, End(vec[o]))]
    /\ UNCHANGED alive

Swap(v, o) ==
    /\ alive[v] /\ alive[o]
    /\ vec' = [vec EXCEPT ![v] = vec[o], ![o] = vec[v]]
    /\ UNCHANGED alive

Next ==
    \E v \in Vectors :
        \/ \E t \in Lists : Construct(v, t)
        \/ \E n \in Counts, x \in Values \union {Default} : Construct(v, Repeat(n, x))
        \/ \E o \in Vectors : ConstructCopy(v, o)
        \/ \E o \in Vectors : ConstructMove(v, o)
        \/ Destruct(v)
        \/ \E o \in Vectors : CopyAssign(v, o)
        \/ \E o \in Vectors : MoveAssign(v, o)
        \/ \E t \in Lists : Becomes(v, Assign(vec[v], t))
        \/ \E n \in Counts, x \in Values : Becomes(v, Assign(vec[v], Repeat(n, x)))
        \/ Becomes(v, Clear(vec[v]))
        \/ \E p \in 1 .. End(vec[v]), x \in Values : Becomes(v, Insert(vec[v], p, x))
        \/ \E p \in 1 .. End(vec[v]), n \in Counts, x \in Values :
               Becomes(v, InsertSeveral(vec[v], p, Repeat(n, x)))
        \/ \E p \in 1 .. End(vec[v]), t \in Lists : Becomes(v, InsertSeveral(vec[v], p, t))
        \/ \E p \in 1 .. End(vec[v]), x \in Values : Becomes(v, Emplace(vec[v], p, x))
        \/ \E p \in 1 .. vec[v].size : Becomes(v, Erase(vec[v], p))
        \/ \E p, q \in 1 .. End(vec[v]) : Becomes(v, EraseRange(vec[v], p, q))
        \/ \E x \in Values \union {Default} : Becomes(v, PushBack(vec[v], x))
        \/ vec[v].size > 0 /\ Becomes(v, PopBack(vec[v]))
        \/ \E n \in Counts, x \in Values \union {Default} : Becomes(v, Resize(vec[v], n, x))
        \/ \E P \in SUBSET Objects, k \in 0 .. vec[v].size :
               \E f \in [1 .. k -> 1 .. vec[v].size] :
                   Keeps(vec[v], P, k, f) /\ Becomes(v, EraseIf(vec[v], k, f))
        \/ \E o \in Vectors : Swap(v, o)

Spec == Init /\ [][Next]_vars

-----------------------------------------------------------------------------

States == [cells : [Slots -> Objects \union {Raw}], size : 0 .. N]

\* Exactly the first size slots hold objects, in every vector at all times: no call
\* reads, assigns or destroys raw memory, constructs over an object that has not been
\* moved from, or leaves the array (data() documents the range as always valid).
Valid(w) ==
    /\ w \in States
    /\ \A i \in Slots : w.cells[i] # Raw <=> i <= w.size

TypeOK ==
    /\ alive \in [Vectors -> BOOLEAN]
    /\ vec \in [Vectors -> States]
    /\ \A v \in Vectors : Valid(vec[v]) /\ (~alive[v] => vec[v].size = 0)

\* The documented effects, on sequences: s with its elements p .. q-1 replaced
\* by those of t, or s itself when that is too long (length_error).
Splice(s, p, q, t) ==
    [i \in 1 .. (Len(s) - (q - p) + Len(t)) |->
        IF i < p THEN s[i]
        ELSE IF i < p + Len(t) THEN t[i - p + 1]
        ELSE s[i - Len(t) + (q - p)]]

Spliced(w, p, q, t) ==
    IF w.size - (q - p) + Len(t) > N THEN Contents(w) ELSE Splice(Contents(w), p, q, t)

InsertionsSplice(w) ==
    \A p \in 1 .. End(w) :
        /\ \A x \in Values : Contents(Insert(w, p, x)) = Spliced(w, p, p, <<x>>)
        /\ \A n \in Counts, x \in Values :
               Contents(InsertSeveral(w, p, Repeat(n, x))) = Spliced(w, p, p, Repeat(n, x))
        /\ \A t \in Lists : Contents(InsertSeveral(w, p, t)) = Spliced(w, p, p, t)

\* emplace() is documented to insert an element made from args.  Only at end() does the
\* code make one; elsewhere this says that the others make room for an element, not
\* what that element is.
EmplacesMakeRoom(w) ==
    \A p \in 1 .. End(w), x \in Values :
        \E y \in Objects :
            /\ Contents(Emplace(w, p, x)) = Spliced(w, p, p, <<y>>)
            /\ p = End(w) => y = x

ErasuresSplice(w) ==
    /\ \A p \in 1 .. w.size : Contents(Erase(w, p)) = Spliced(w, p, p + 1, << >>)
    /\ \A p \in 1 .. End(w) : \A q \in p .. End(w) :
           Contents(EraseRange(w, p, q)) = Spliced(w, p, q, << >>)

ResizesSplice(w) ==
    \A n \in Counts, x \in Values :
        Contents(Resize(w, n, x)) =
            IF n < w.size THEN Spliced(w, n + 1, End(w), << >>)
            ELSE Spliced(w, End(w), End(w), Repeat(n - w.size, x))

\* Whatever a vector holds, every call that moves elements within it replaces one range,
\* keeps the other elements in order and changes nothing when the result would exceed
\* the capacity.  The range is replaced by what the caller gave, except by an emplace()
\* in front of end(), of which only the room it makes is claimed.
CallsSplice ==
    \A v \in Vectors :
        /\ InsertionsSplice(vec[v])
        /\ EmplacesMakeRoom(vec[v])
        /\ ErasuresSplice(vec[v])
        /\ ResizesSplice(vec[v])

=============================================================================
