--------------------------- MODULE WorkStealingQueue ---------------------------
(***************************************************************************)
(* base/wsq.h: the Chase-Lev work-stealing deque.  Every action is one     *)
(* access to memory that another thread can write: a load or a store of    *)
(* _top, _bottom, _array or of a slot, or the compare-and-swap of _top,    *)
(* with the thread-private work that goes with it.  The owner's own loads  *)
(* of _bottom, _array and the slots (which only the owner writes) are part *)
(* of the step they precede.  Memory is sequentially consistent: the       *)
(* fences of the code are taken to do what they are there for.             *)
(*                                                                         *)
(* Items are numbered in the order they are pushed, so that the model can  *)
(* tell apart two items that carry the same value.                         *)
(***************************************************************************)
EXTENDS Integers, Sequences

CONSTANTS Thieves,      \* the threads that call steal(), empty() and size()
          Capacity,     \* the constructor's argument (1024 by default)
          MaxPushes     \* bound: how many items the owner pushes

\* The constructor asserts that the capacity is a power of two; the model
\* indexes with %, which is i & M exactly for the powers of two.
ASSUME CapacityAssumption == Capacity \in Nat \ {0}
ASSUME MaxPushesAssumption == MaxPushes \in Nat

VARIABLES top,      \* _top
          bottom,   \* _bottom
          arrays,   \* _garbage in order, then the array _array points to
          opc,      \* where the owner is
          ob,       \* the owner's local b
          ot,       \* the owner's local t
          popped,   \* pop()'s local item, which it returns
          pc,       \* where each thief is
          t,        \* steal()'s local t
          b,        \* empty()'s and size()'s local b
          a,        \* steal()'s local a, a position in arrays
          item,     \* steal()'s local item, which it returns
          pushes,   \* how many items have been pushed
          taken     \* the items that pop() or steal() has handed out

ownerVars == <<opc, ob, ot, popped>>
thiefVars == <<pc, t, b, a, item>>
vars == <<top, bottom, arrays, ownerVars, thiefVars, pushes, taken>>

NoItem == 0
Items == 1..MaxPushes

-------------------------------------------------------------------------------
(* The circular array.                                                     *)

NewArray(c) == [C |-> c, S |-> [k \in 0..(c - 1) |-> NoItem]]

Slot(arr, i) == arr.S[i % arr.C]

WithSlot(arr, i, x) == [C |-> arr.C, S |-> [arr.S EXCEPT ![i % arr.C] = x]]

\* Mutant of Resize: the slots are copied by position, not by index.
ResizeByPosition(arr, lo, hi) ==
    [C |-> 2 * arr.C,
     S |-> [k \in 0..(2 * arr.C - 1) |-> IF k < arr.C THEN arr.S[k] ELSE NoItem]]

\* Array::resize: twice the capacity, with the items of indices t..b-1.
Resize(arr, lo, hi) ==
    LET Into(k) == {i \in lo..(hi - 1) : i % (2 * arr.C) = k}
    IN  [C |-> 2 * arr.C,
         S |-> [k \in 0..(2 * arr.C - 1) |->
                  IF Into(k) = {} THEN NoItem
                  ELSE Slot(arr, CHOOSE i \in Into(k) : TRUE)]]

\* The array that _array points to.
Current == arrays[Len(arrays)]

-------------------------------------------------------------------------------
Init ==
    /\ top = 0 /\ bottom = 0
    /\ arrays = <<NewArray(Capacity)>>
    /\ opc = "idle" /\ ob = 0 /\ ot = 0 /\ popped = NoItem
    /\ pc = [p \in Thieves |-> "idle"]
    /\ t = [p \in Thieves |-> 0]
    /\ b = [p \in Thieves |-> 0]
    /\ a = [p \in Thieves |-> 1]
    /\ item = [p \in Thieves |-> NoItem]
    /\ pushes = 0
    /\ taken = {}

-------------------------------------------------------------------------------
(* push(), by the owner.                                                   *)

\* The call returns: its locals b and t go out of scope.
OwnerReturns == opc' = "idle" /\ ob' = 0 /\ ot' = 0

\* Mutant of Full: one item too late.
FullLate(arr, lo, hi) == arr.C < hi - lo

\* capacity() - 1 < b - t
Full(arr, lo, hi) == arr.C - 1 < hi - lo

PushBegin ==
    /\ opc = "idle"
    /\ pushes < MaxPushes
    /\ ob' = bottom
    /\ ot' = top
    /\ opc' = IF Full(Current, top, bottom) THEN "push_grow" ELSE "push_store"
    /\ UNCHANGED <<top, bottom, arrays, popped, thiefVars, pushes, taken>>

\* The old array is kept in _garbage: a thief may still be reading it.
PushGrow ==
    /\ opc = "push_grow"
    /\ arrays' = Append(arrays, Resize(Current, ot, ob))
    /\ opc' = "push_store"
    /\ UNCHANGED <<top, bottom, ob, ot, popped, thiefVars, pushes, taken>>

PushStore ==
    /\ opc = "push_store"
    /\ arrays' = [arrays EXCEPT ![Len(arrays)] = WithSlot(@, ob, pushes + 1)]
    /\ opc' = "push_publish"
    /\ UNCHANGED <<top, bottom, ob, ot, popped, thiefVars, pushes, taken>>

PushPublish ==
    /\ opc = "push_publish"
    /\ bottom' = ob + 1
    /\ pushes' = pushes + 1
    /\ OwnerReturns
    /\ UNCHANGED <<top, arrays, popped, thiefVars, taken>>

-------------------------------------------------------------------------------
(* pop(), by the owner.                                                    *)

PopReserve ==
    /\ opc = "idle"
    /\ ob' = bottom - 1
    /\ bottom' = bottom - 1
    /\ popped' = NoItem
    /\ opc' = "pop_load"
    /\ UNCHANGED <<top, arrays, ot, thiefVars, pushes, taken>>

OwnerTakes(x) == popped' = x /\ taken' = taken \cup {x}

\* Mutant of PopTail: the last item is taken without competing for it.
PopTailOrLast ==
    /\ opc = "pop_load"
    /\ top <= ob
    /\ OwnerTakes(Slot(Current, ob))
    /\ OwnerReturns
    /\ UNCHANGED <<top, bottom, arrays, thiefVars, pushes>>

\* More than one item is left: the reserved one is the owner's.
PopTail ==
    /\ opc = "pop_load"
    /\ top < ob
    /\ OwnerTakes(Slot(Current, ob))
    /\ OwnerReturns
    /\ UNCHANGED <<top, bottom, arrays, thiefVars, pushes>>

\* One item or none: compete for the last one, or give up.
PopLoadTop ==
    /\ opc = "pop_load"
    /\ top >= ob
    /\ ot' = top
    /\ opc' = IF top = ob THEN "pop_cas" ELSE "pop_restore"
    /\ UNCHANGED <<top, bottom, arrays, ob, popped, thiefVars, pushes, taken>>

PopCas ==
    /\ opc = "pop_cas"
    /\ \/ top = ot /\ top' = top + 1 /\ OwnerTakes(Slot(Current, ob))
       \/ top # ot /\ UNCHANGED <<top, popped, taken>>
    /\ opc' = "pop_restore"
    /\ UNCHANGED <<bottom, arrays, ob, ot, thiefVars, pushes>>

PopRestore ==
    /\ opc = "pop_restore"
    /\ bottom' = ob + 1
    /\ OwnerReturns
    /\ UNCHANGED <<top, arrays, popped, thiefVars, pushes, taken>>

-------------------------------------------------------------------------------
(* steal(), by a thief p.                                                  *)

\* The call returns: its local t goes out of scope.
Return(p) ==
    /\ pc' = [pc EXCEPT ![p] = "idle"]
    /\ t' = [t EXCEPT ![p] = 0]

StealLoadTop(p) ==
    /\ pc[p] = "idle"
    /\ t' = [t EXCEPT ![p] = top]
    /\ item' = [item EXCEPT ![p] = NoItem]
    /\ pc' = [pc EXCEPT ![p] = "load_bottom"]
    /\ UNCHANGED <<top, bottom, arrays, ownerVars, b, a, pushes, taken>>

\* Mutant of StealLoadBottom: an empty queue is taken for one of one item.
StealLoadBottomInclusive(p) ==
    /\ pc[p] = "load_bottom"
    /\ \/ t[p] <= bottom /\ pc' = [pc EXCEPT ![p] = "load_array"] /\ UNCHANGED t
       \/ t[p] > bottom /\ Return(p)
    /\ UNCHANGED <<top, bottom, arrays, ownerVars, b, a, item, pushes, taken>>

StealLoadBottom(p) ==
    /\ pc[p] = "load_bottom"
    /\ \/ t[p] < bottom /\ pc' = [pc EXCEPT ![p] = "load_array"] /\ UNCHANGED t
       \/ t[p] >= bottom /\ Return(p)
    /\ UNCHANGED <<top, bottom, arrays, ownerVars, b, a, item, pushes, taken>>

StealLoadArray(p) ==
    /\ pc[p] = "load_array"
    /\ a' = [a EXCEPT ![p] = Len(arrays)]
    /\ pc' = [pc EXCEPT ![p] = "load_slot"]
    /\ UNCHANGED <<top, bottom, arrays, ownerVars, t, b, item, pushes, taken>>

StealLoadSlot(p) ==
    /\ pc[p] = "load_slot"
    /\ item' = [item EXCEPT ![p] = Slot(arrays[a[p]], t[p])]
    /\ pc' = [pc EXCEPT ![p] = "cas"]
    /\ UNCHANGED <<top, bottom, arrays, ownerVars, t, b, a, pushes, taken>>

StealCas(p) ==
    /\ pc[p] = "cas"
    /\ \/ /\ top = t[p]
          /\ top' = top + 1
          /\ taken' = taken \cup {item[p]}
          /\ UNCHANGED item
       \/ /\ top # t[p]
          /\ item' = [item EXCEPT ![p] = NoItem]
          /\ UNCHANGED <<top, taken>>
    /\ Return(p)
    /\ a' = [a EXCEPT ![p] = 1]
    /\ UNCHANGED <<bottom, arrays, ownerVars, b, pushes>>

-------------------------------------------------------------------------------
(* empty() and size(), by a thief p: _bottom is loaded before _top.        *)

QueryLoadBottom(p) ==
    /\ pc[p] = "idle"
    /\ b' = [b EXCEPT ![p] = bottom]
    /\ pc' = [pc EXCEPT ![p] = "query"]
    /\ UNCHANGED <<top, bottom, arrays, ownerVars, t, a, item, pushes, taken>>

\* Mutant of SizeResult: the difference is not guarded and wraps around.
SizeUnguarded(p) == (b[p] - top) % 2^16

\* What size() returns once it has loaded _top; empty() is size() = 0.
SizeResult(p) == IF b[p] >= top THEN b[p] - top ELSE 0

QueryLoadTop(p) ==
    /\ pc[p] = "query"
    /\ Return(p)
    /\ b' = [b EXCEPT ![p] = 0]
    /\ UNCHANGED <<top, bottom, arrays, ownerVars, a, item, pushes, taken>>

-------------------------------------------------------------------------------
Owner ==
    \/ PushBegin \/ PushGrow \/ PushStore \/ PushPublish
    \/ PopReserve \/ PopTail \/ PopLoadTop \/ PopCas \/ PopRestore

Thief(p) ==
    \/ StealLoadTop(p) \/ StealLoadBottom(p) \/ StealLoadArray(p)
    \/ StealLoadSlot(p) \/ StealCas(p)
    \/ QueryLoadBottom(p) \/ QueryLoadTop(p)

Next == Owner \/ \E p \in Thieves : Thief(p)

Spec == Init /\ [][Next]_vars

-------------------------------------------------------------------------------
(* Correctness.                                                            *)

OwnerPcs == {"idle", "push_grow", "push_store", "push_publish",
             "pop_load", "pop_cas", "pop_restore"}
ThiefPcs == {"idle", "load_bottom", "load_array", "load_slot", "cas", "query"}

\* An array is full before it is doubled, so no array is larger than this.
Capacities == 1..(Capacity + 2 * MaxPushes)
ArraysOf(c) == [C : {c}, S : [0..(c - 1) -> Items \cup {NoItem}]]

\* Every variable has its type; in particular the memory the queue holds is
\* bounded by the number of items that were in it.
TypeOK ==
    /\ top \in Nat /\ bottom \in Int
    /\ arrays # <<>>
    /\ \A g \in 1..Len(arrays) : \E c \in Capacities : arrays[g] \in ArraysOf(c)
    /\ opc \in OwnerPcs /\ ob \in Int /\ ot \in Nat
    /\ popped \in Items \cup {NoItem}
    /\ pc \in [Thieves -> ThiefPcs]
    /\ t \in [Thieves -> Nat] /\ b \in [Thieves -> Int]
    /\ a \in [Thieves -> 1..Len(arrays)]
    /\ item \in [Thieves -> Items \cup {NoItem}]
    /\ pushes \in 0..MaxPushes
    /\ taken \subseteq Items

-------------------------------------------------------------------------------
\* The index after the last item.  While pop() holds an index back, the item
\* at that index is still in the queue.
LiveEnd == IF opc \in {"pop_load", "pop_cas", "pop_restore"} THEN bottom + 1 ELSE bottom

\* The items in the queue, by the index they are at.
Live == top..(LiveEnd - 1)

\* No item is lost, none is handed out twice: what has been pushed is either
\* in the queue, at one index, or taken (push(), pop() and steal() together).
ExactlyOnce ==
    /\ \A i, j \in Live : Slot(Current, i) = Slot(Current, j) => i = j
    /\ taken \cap {Slot(Current, i) : i \in Live} = {}
    /\ taken \cup {Slot(Current, i) : i \in Live} = 1..pushes

\* A thief whose compare-and-swap would succeed carries the item at the head,
\* whatever the owner has pushed, popped or reallocated since the thief loaded
\* _array and the slot.
StealReadsHead ==
    \A p \in Thieves :
        pc[p] = "cas" /\ t[p] = top => top \in Live /\ item[p] = Slot(Current, top)

\* The queue implements its abstract specification.  A thief is stealing from
\* its load of _top on; an item leaves at the compare-and-swap of _top or, when
\* it is not the last one, at pop()'s load of _top.
Abstract == INSTANCE AbstractStealQueue WITH
    items <- [k \in 1..(LiveEnd - top) |-> Slot(Current, top + k - 1)],
    head <- top,
    got <- [p \in Thieves |-> IF pc[p] = "cas" THEN NoItem ELSE item[p]],
    mark <- [p \in Thieves |-> IF pc[p] \in {"idle", "query"} THEN -1 ELSE t[p]],
    popping <- CASE opc \in {"pop_load", "pop_cas"} -> "trying"
                 [] opc = "pop_restore" -> (IF popped = NoItem THEN "trying" ELSE "took")
                 [] OTHER -> "no"

ImplementsAbstract == Abstract!ASpec
===============================================================================
