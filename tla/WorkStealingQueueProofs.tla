------------------------ MODULE WorkStealingQueueProofs ------------------------
(***************************************************************************)
(* Theorems about the work-stealing queue, for any number of thieves, any  *)
(* initial capacity and any number of pushes, with any interleaving of     *)
(* its loads, stores and compare-and-swaps.                                *)
(***************************************************************************)
EXTENDS WSQHistory, SequenceTheorems, TLAPS

-------------------------------------------------------------------------------
(* The circular array.                                                     *)

Cells == Items \cup {NoItem}
Arrays == UNION {ArraysOf(c) : c \in Capacities}

LEMMA DivMod ==
  ASSUME NEW c \in Nat \ {0}, NEW i \in Nat
  PROVE  i \div c \in Int /\ i = c * (i \div c) + (i % c)
<1>1. i \div c \in Int
  OBVIOUS
<1>2. i = c * (i \div c) + (i % c)
  OBVIOUS
<1> QED BY <1>1, <1>2

LEMMA NoMultipleBelow ==
  ASSUME NEW c \in Nat \ {0}, NEW d \in Int, c * d > 0 PROVE c * d >= c
<1>1. d >= 1
  OBVIOUS
<1> QED BY <1>1

LEMMA Distribute ==
  ASSUME NEW c \in Nat \ {0}, NEW d \in Int, NEW e \in Int PROVE c * d - c * e = c * (d - e)
  OBVIOUS

\* Indices that are less than a capacity apart have different slots.
LEMMA ModDistinct ==
  ASSUME NEW c \in Nat \ {0}, NEW i \in Nat, NEW j \in Nat, i < j, j - i < c
  PROVE  i % c # j % c
<1> SUFFICES ASSUME i % c = j % c PROVE FALSE
  OBVIOUS
<1>1. PICK qi \in Int : i = c * qi + (i % c)
  BY DivMod
<1>2. PICK qj \in Int : j = c * qj + (j % c)
  BY DivMod
<1>3. PICK r \in Int : r = i % c /\ r = j % c
  OBVIOUS
<1>4. c * qi \in Int /\ c * qj \in Int /\ qj - qi \in Int
  OBVIOUS
<1>5. j - i = c * qj - c * qi
  BY <1>1, <1>2, <1>3, <1>4
<1>6. j - i = c * (qj - qi)
  BY <1>5, Distribute
<1>7. c * (qj - qi) >= c
  BY <1>4, <1>6, NoMultipleBelow
<1> QED BY <1>6, <1>7

LEMMA ModRange ==
  ASSUME NEW c \in Nat \ {0}, NEW i \in Nat PROVE i % c \in 0..(c - 1)
  OBVIOUS

LEMMA ArrayFields ==
  ASSUME NEW arr \in Arrays
  PROVE  /\ arr.C \in Capacities /\ arr.C \in Nat \ {0}
         /\ arr.S \in [0..(arr.C - 1) -> Cells]
  BY CapacityAssumption, MaxPushesAssumption DEF Arrays, ArraysOf, Capacities, Cells

LEMMA ArrayMade ==
  ASSUME NEW c \in Capacities, NEW f \in [0..(c - 1) -> Cells]
  PROVE  [C |-> c, S |-> f] \in Arrays
  BY DEF Arrays, ArraysOf, Cells

LEMMA SlotType ==
  ASSUME NEW arr \in Arrays, NEW i \in Nat PROVE Slot(arr, i) \in Cells
  BY ArrayFields, ModRange DEF Slot

LEMMA NewArrayType == NewArray(Capacity) \in Arrays
<1>1. Capacity \in Capacities
  BY CapacityAssumption, MaxPushesAssumption DEF Capacities
<1>2. [k \in 0..(Capacity - 1) |-> NoItem] \in [0..(Capacity - 1) -> Cells]
  BY DEF Cells
<1> QED BY <1>1, <1>2, ArrayMade DEF NewArray

\* A store changes the slot of one index and of those a capacity away.
LEMMA WithSlotFacts ==
  ASSUME NEW arr \in Arrays, NEW i \in Nat, NEW x \in Cells
  PROVE  /\ WithSlot(arr, i, x) \in Arrays /\ WithSlot(arr, i, x).C = arr.C
         /\ Slot(WithSlot(arr, i, x), i) = x
         /\ \A j \in Nat : i - j < arr.C /\ j < i => Slot(WithSlot(arr, i, x), j) = Slot(arr, j)
<1>1. /\ arr.C \in Capacities /\ arr.C \in Nat \ {0} /\ arr.S \in [0..(arr.C - 1) -> Cells]
      /\ i % arr.C \in 0..(arr.C - 1)
  BY ArrayFields, ModRange
<1>2. [arr.S EXCEPT ![i % arr.C] = x] \in [0..(arr.C - 1) -> Cells]
  BY <1>1
<1>3. WithSlot(arr, i, x) \in Arrays
  BY <1>1, <1>2, ArrayMade DEF WithSlot
<1>4. Slot(WithSlot(arr, i, x), i) = x
  BY <1>1 DEF WithSlot, Slot
<1>5. ASSUME NEW j \in Nat, i - j < arr.C, j < i
      PROVE  Slot(WithSlot(arr, i, x), j) = Slot(arr, j)
  <2>1. j % arr.C # i % arr.C /\ j % arr.C \in 0..(arr.C - 1)
    BY <1>1, <1>5, ModDistinct, ModRange
  <2> QED BY <1>1, <2>1 DEF WithSlot, Slot
<1> QED BY <1>3, <1>4, <1>5 DEF WithSlot

\* Reallocation keeps what is at the indices it copies.
LEMMA ResizeFacts ==
  ASSUME NEW arr \in Arrays, NEW lo \in Nat, NEW hi \in Nat, hi - lo <= 2 * arr.C,
         2 * arr.C \in Capacities
  PROVE  /\ Resize(arr, lo, hi) \in Arrays /\ Resize(arr, lo, hi).C = 2 * arr.C
         /\ \A i \in lo..(hi - 1) : Slot(Resize(arr, lo, hi), i) = Slot(arr, i)
<1> DEFINE c2 == 2 * arr.C
           Into(k) == {i \in lo..(hi - 1) : i % c2 = k}
           f == [k \in 0..(c2 - 1) |->
                   IF Into(k) = {} THEN NoItem ELSE Slot(arr, CHOOSE i \in Into(k) : TRUE)]
<1>1. arr.C \in Nat \ {0} /\ c2 \in Nat \ {0}
  BY ArrayFields
<1>2. Resize(arr, lo, hi) = [C |-> c2, S |-> f]
  BY DEF Resize
<1>3. \A i \in lo..(hi - 1) : i \in Nat
  OBVIOUS
<1>4. f \in [0..(c2 - 1) -> Cells]
  <2>1. ASSUME NEW k \in 0..(c2 - 1), Into(k) # {}
        PROVE  Slot(arr, CHOOSE i \in Into(k) : TRUE) \in Cells
    <3>1. (CHOOSE i \in Into(k) : TRUE) \in Into(k)
      BY <2>1
    <3> QED BY <3>1, <1>3, SlotType
  <2>2. NoItem \in Cells
    BY DEF Cells
  <2> HIDE DEF Into
  <2> QED BY <2>1, <2>2
<1>5. Resize(arr, lo, hi) \in Arrays
  BY <1>2, <1>4, ArrayMade
<1>6. ASSUME NEW i \in lo..(hi - 1) PROVE Slot(Resize(arr, lo, hi), i) = Slot(arr, i)
  <2>1. i % c2 \in 0..(c2 - 1) /\ i \in Into(i % c2)
    BY <1>1, <1>3, ModRange
  <2>2. ASSUME NEW j \in Into(i % c2) PROVE j = i
    <3>1. j \in lo..(hi - 1) /\ j % c2 = i % c2 /\ j \in Nat /\ i \in Nat
      BY <2>2, <1>3
    <3>2. CASE i < j
      BY <3>1, <3>2, <1>1, ModDistinct
    <3>3. CASE j < i
      BY <3>1, <3>3, <1>1, ModDistinct
    <3> QED BY <3>1, <3>2, <3>3
  <2>3. (CHOOSE j \in Into(i % c2) : TRUE) = i
    BY <2>1, <2>2
  <2>4. f[i % c2] = Slot(arr, i)
    <3> HIDE DEF Into
    <3> QED BY <2>1, <2>3
  <2> HIDE DEF f
  <2> QED BY <1>2, <2>4 DEF Slot
<1> QED BY <1>2, <1>5, <1>6

-------------------------------------------------------------------------------
(* Types.                                                                  *)

TypeInv ==
    /\ top \in Nat /\ bottom \in Int
    /\ arrays \in Seq(Arrays) /\ arrays # <<>>
    /\ opc \in OwnerPcs /\ ob \in Int /\ ot \in Nat
    /\ popped \in Cells
    /\ pc \in [Thieves -> ThiefPcs]
    /\ t \in [Thieves -> Nat] /\ b \in [Thieves -> Int]
    /\ a \in [Thieves -> 1..Len(arrays)]
    /\ item \in [Thieves -> Cells]
    /\ pushes \in 0..MaxPushes
    /\ taken \subseteq Items

Pushing == {"push_grow", "push_store", "push_publish"}
Popping == {"pop_load", "pop_cas", "pop_restore"}

\* The items are at the indices from _top to LiveEnd, which fit into the array;
\* the owner's locals are what it read, and _top has only grown since.
WindowInv ==
    /\ top <= LiveEnd /\ LiveEnd <= pushes /\ LiveEnd - top <= Current.C
    /\ opc \in Pushing => ob = bottom /\ ot <= top /\ pushes < MaxPushes
    /\ opc = "push_grow" => ob - ot = Current.C
    /\ opc \in {"push_store", "push_publish"} => ob - ot < Current.C
    /\ opc = "push_publish" => Slot(Current, ob) = pushes + 1
    /\ opc \in Popping => ob = bottom
    /\ opc = "pop_cas" => ot = ob /\ top >= ot
    /\ opc = "pop_restore" => top = ob + 1

Racing(p) == pc[p] \in {"load_array", "load_slot", "cas"} /\ t[p] = top

\* What a thief knows while nobody has moved _top since it read it: there is an
\* item at _top, and the array and the item it has read are the queue's.
ThiefInv ==
    \A p \in Thieves :
        /\ pc[p] \in {"load_bottom", "load_array", "load_slot", "cas"} => t[p] <= top
        /\ Racing(p) => top < LiveEnd
        /\ Racing(p) /\ pc[p] = "load_slot" => Slot(arrays[a[p]], top) = Slot(Current, top)
        /\ Racing(p) /\ pc[p] = "cas" => item[p] = Slot(Current, top)

IInv == TypeInv /\ WindowInv /\ ThiefInv /\ ExactlyOnce

LEMMA CurrentType == ASSUME TypeInv PROVE Current \in Arrays /\ Len(arrays) \in Nat \ {0}
  BY DEF TypeInv, Current

\* Items are in the window, and an item in the window is none of those taken.
LEMMA LiveFacts ==
  ASSUME TypeInv, WindowInv
  PROVE  LiveEnd \in Nat /\ Live \subseteq Nat /\ \A i \in Live : Slot(Current, i) \in Cells
<1>1. LiveEnd \in Nat
  BY DEF TypeInv, WindowInv, LiveEnd
<1>2. Live \subseteq Nat
  BY <1>1 DEF Live, TypeInv
<1> QED BY <1>1, <1>2, CurrentType, SlotType

LEMMA TypeInit == Init => TypeInv /\ WindowInv /\ ThiefInv /\ ExactlyOnce
<1> SUFFICES ASSUME Init PROVE TypeInv /\ WindowInv /\ ThiefInv /\ ExactlyOnce
  OBVIOUS
<1>1. NewArray(Capacity) \in Arrays /\ NewArray(Capacity).C \in Nat \ {0}
  BY NewArrayType, ArrayFields
<1>2. TypeInv
  BY <1>1, MaxPushesAssumption DEF Init, TypeInv, OwnerPcs, ThiefPcs, Cells
<1>3. Current = NewArray(Capacity) /\ LiveEnd = 0 /\ Live = {}
  BY DEF Init, Current, LiveEnd, Live
<1>4. WindowInv
  BY <1>1, <1>3 DEF Init, WindowInv, Pushing, Popping
<1>5. ThiefInv
  BY DEF Init, ThiefInv, Racing
<1>6. ExactlyOnce
  BY <1>3 DEF Init, ExactlyOnce
<1> QED BY <1>2, <1>4, <1>5, <1>6

\* An array that is full has room for fewer items than are ever pushed.
LEMMA GrowFits ==
  ASSUME TypeInv, WindowInv, opc = "push_grow"
  PROVE  /\ 2 * Current.C \in Capacities /\ ob \in Nat /\ ot \in Nat
         /\ Resize(Current, ot, ob) \in Arrays
         /\ Resize(Current, ot, ob).C = 2 * Current.C
         /\ \A i \in ot..(ob - 1) : Slot(Resize(Current, ot, ob), i) = Slot(Current, i)
<1>1. Current \in Arrays /\ Current.C \in Nat \ {0}
  BY CurrentType, ArrayFields
<1>2. ob \in Nat /\ ot \in Nat /\ ob - ot = Current.C /\ ob <= pushes /\ pushes < MaxPushes
      /\ pushes \in Nat
  BY MaxPushesAssumption DEF TypeInv, WindowInv, Pushing, LiveEnd
<1>3. 2 * Current.C \in Capacities
  BY <1>1, <1>2, CapacityAssumption, MaxPushesAssumption DEF Capacities
<1> QED BY <1>1, <1>2, <1>3, ResizeFacts

LEMMA LiveItems ==
  ASSUME IInv
  PROVE  \A i \in Live : Slot(Current, i) \in 1..pushes /\ Slot(Current, i) \in Items
<1>1. \A i \in Live : Slot(Current, i) \in 1..pushes
  BY DEF IInv, ExactlyOnce
<1>2. 1..pushes \subseteq Items
  BY MaxPushesAssumption DEF IInv, TypeInv, Items
<1> QED BY <1>1, <1>2

LEMMA TypeStep == ASSUME IInv, [Next]_vars PROVE TypeInv'
<1> USE DEF IInv, TypeInv, OwnerPcs, ThiefPcs
<1>1. CASE PushBegin
  BY <1>1 DEF PushBegin, thiefVars
<1>2. CASE PushGrow
  <2>1. Resize(Current, ot, ob) \in Arrays
    BY <1>2, GrowFits DEF PushGrow
  <2>2. arrays' \in Seq(Arrays) /\ arrays' # <<>> /\ Len(arrays') = Len(arrays) + 1
    BY <1>2, <2>1, AppendProperties DEF PushGrow
  <2>3. a' \in [Thieves -> 1..Len(arrays')]
    BY <1>2, <2>2 DEF PushGrow, thiefVars
  <2> QED BY <1>2, <2>2, <2>3 DEF PushGrow, thiefVars
<1>3. CASE PushStore
  <2>1. pushes + 1 \in Cells /\ ob \in Nat
    BY <1>3, MaxPushesAssumption DEF PushStore, WindowInv, Pushing, LiveEnd, Cells, Items
  <2>2. WithSlot(Current, ob, pushes + 1) \in Arrays
    BY <2>1, CurrentType, WithSlotFacts
  <2>3. arrays' \in Seq(Arrays) /\ arrays' # <<>> /\ Len(arrays') = Len(arrays)
    BY <1>3, <2>2, CurrentType, ExceptSeq DEF PushStore, Current
  <2> QED BY <1>3, <2>3 DEF PushStore, thiefVars
<1>4. CASE PushPublish
  BY <1>4, MaxPushesAssumption DEF PushPublish, OwnerReturns, thiefVars, WindowInv, Pushing
<1>5. CASE PopReserve
  BY <1>5 DEF PopReserve, thiefVars, Cells
<1>6. CASE PopTail
  <2>1. ob \in Live
    BY <1>6, LiveFacts DEF PopTail, WindowInv, Popping, Live, LiveEnd
  <2>2. Slot(Current, ob) \in Items
    BY <2>1, LiveItems
  <2> QED BY <1>6, <2>2 DEF PopTail, OwnerTakes, OwnerReturns, thiefVars, Cells
<1>7. CASE PopLoadTop
  BY <1>7 DEF PopLoadTop, thiefVars
<1>8. CASE PopCas
  <2>1. CASE top = ot
    <3>1. ob \in Live
      BY <1>8, <2>1, LiveFacts DEF PopCas, WindowInv, Popping, Live, LiveEnd
    <3>2. Slot(Current, ob) \in Items
      BY <3>1, LiveItems
    <3> QED BY <1>8, <2>1, <3>2 DEF PopCas, OwnerTakes, thiefVars, Cells
  <2>2. CASE top # ot
    BY <1>8, <2>2 DEF PopCas, thiefVars
  <2> QED BY <2>1, <2>2
<1>9. CASE PopRestore
  BY <1>9 DEF PopRestore, OwnerReturns, thiefVars
<1>10. ASSUME NEW p \in Thieves, Thief(p) PROVE TypeInv'
  <2> USE DEF ownerVars
  <2>1. CASE StealLoadTop(p)
    BY <2>1 DEF StealLoadTop, Cells
  <2>2. CASE StealLoadBottom(p)
    <3>1. pc' \in [Thieves -> ThiefPcs] /\ t' \in [Thieves -> Nat]
      <4>1. CASE pc' = [pc EXCEPT ![p] = "load_array"] /\ t' = t
        BY <4>1
      <4>2. CASE Return(p)
        BY <4>2 DEF Return
      <4> QED BY <2>2, <4>1, <4>2 DEF StealLoadBottom
    <3> QED BY <2>2, <3>1 DEF StealLoadBottom
  <2>3. CASE StealLoadArray(p)
    BY <2>3, CurrentType DEF StealLoadArray
  <2>4. CASE StealLoadSlot(p)
    <3>1. Slot(arrays[a[p]], t[p]) \in Cells
      BY SlotType
    <3> QED BY <2>4, <3>1 DEF StealLoadSlot
  <2>5. CASE StealCas(p)
    <3>0. 1 \in 1..Len(arrays)
      BY CurrentType
    <3>1. CASE top = t[p]
      <4>1. item[p] \in Items
        <5>1. top \in Live /\ item[p] = Slot(Current, top)
          BY <2>5, <3>1, LiveFacts DEF StealCas, ThiefInv, Racing, Live
        <5> QED BY <5>1, LiveItems
      <4> QED BY <2>5, <3>0, <3>1, <4>1 DEF StealCas, Return
    <3>2. CASE top # t[p]
      BY <2>5, <3>0, <3>2 DEF StealCas, Return, Cells
    <3> QED BY <3>1, <3>2
  <2>6. CASE QueryLoadBottom(p)
    BY <2>6 DEF QueryLoadBottom
  <2>7. CASE QueryLoadTop(p)
    BY <2>7 DEF QueryLoadTop, Return
  <2> QED BY <1>10, <2>1, <2>2, <2>3, <2>4, <2>5, <2>6, <2>7 DEF Thief
<1>11. CASE UNCHANGED vars
  BY <1>11 DEF vars, ownerVars, thiefVars
<1> QED BY <1>1, <1>2, <1>3, <1>4, <1>5, <1>6, <1>7, <1>8, <1>9, <1>10, <1>11
        DEF Next, Owner

-------------------------------------------------------------------------------
(* What push() does to the array.                                          *)

LEMMA GrowKeeps ==
  ASSUME IInv, PushGrow
  PROVE  /\ Current'.C = 2 * Current.C /\ LiveEnd' = LiveEnd /\ Live' = Live
         /\ \A i \in Live : Slot(Current, i)' = Slot(Current, i)
         /\ \A g \in 1..Len(arrays) : arrays'[g] = arrays[g]
<1> USE DEF IInv
<1>1. Resize(Current, ot, ob) \in Arrays /\ Resize(Current, ot, ob).C = 2 * Current.C
  BY GrowFits DEF PushGrow
<1>2. /\ Current' = Resize(Current, ot, ob)
      /\ \A g \in 1..Len(arrays) : arrays'[g] = arrays[g]
  BY <1>1, AppendProperties DEF PushGrow, Current, TypeInv
<1>3. LiveEnd' = LiveEnd /\ Live' = Live /\ LiveEnd = ob
  BY DEF PushGrow, LiveEnd, Live, WindowInv, Pushing
<1>4. Live \subseteq ot..(ob - 1)
  BY <1>3 DEF Live, WindowInv, TypeInv, PushGrow, Pushing
<1>5. ASSUME NEW i \in Live PROVE Slot(Resize(Current, ot, ob), i) = Slot(Current, i)
  BY <1>4, GrowFits DEF PushGrow
<1>6. ASSUME NEW i \in Live PROVE Slot(Current, i)' = Slot(Current', i)
  BY DEF Slot
<1> QED BY <1>1, <1>2, <1>3, <1>5, <1>6

LEMMA StoreKeeps ==
  ASSUME IInv, PushStore
  PROVE  /\ Current'.C = Current.C /\ LiveEnd' = LiveEnd /\ Live' = Live
         /\ \A i \in Live : Slot(Current, i)' = Slot(Current, i)
         /\ Slot(Current, ob)' = pushes + 1
         /\ Len(arrays') = Len(arrays)
         /\ \A g \in 1..Len(arrays) : g # Len(arrays) => arrays'[g] = arrays[g]
<1> USE DEF IInv
<1>1. Current \in Arrays /\ pushes + 1 \in Cells /\ ob \in Nat
  BY CurrentType, MaxPushesAssumption
     DEF PushStore, TypeInv, WindowInv, Pushing, LiveEnd, Cells, Items
<1>2. WithSlot(Current, ob, pushes + 1) \in Arrays
  BY <1>1, WithSlotFacts
<1>3. /\ Current' = WithSlot(Current, ob, pushes + 1)
      /\ Len(arrays') = Len(arrays)
      /\ \A g \in 1..Len(arrays) : g # Len(arrays) => arrays'[g] = arrays[g]
  BY <1>2, CurrentType, ExceptSeq DEF PushStore, Current, TypeInv
<1>4. LiveEnd' = LiveEnd /\ Live' = Live /\ LiveEnd = ob /\ ob - top < Current.C
  BY <1>1, ArrayFields DEF PushStore, LiveEnd, Live, WindowInv, Pushing, TypeInv
<1>5. ASSUME NEW i \in Live PROVE i \in Nat /\ ob - i < Current.C /\ i < ob
  BY <1>1, <1>4, ArrayFields DEF Live, TypeInv
<1>6. \A i \in Live : Slot(WithSlot(Current, ob, pushes + 1), i) = Slot(Current, i)
  BY <1>1, <1>5, WithSlotFacts
<1>7. Slot(Current, ob)' = Slot(Current', ob)
  BY DEF Slot, PushStore
<1>8. ASSUME NEW i \in Live PROVE Slot(Current, i)' = Slot(Current', i)
  BY DEF Slot
<1> QED BY <1>1, <1>3, <1>4, <1>6, <1>7, <1>8, WithSlotFacts

\* A step that leaves the arrays alone.
LEMMA ArraysKept ==
  ASSUME UNCHANGED arrays
  PROVE  Current' = Current
  BY DEF Current

-------------------------------------------------------------------------------
(* The window.                                                             *)

LEMMA WindowStep == ASSUME IInv, [Next]_vars PROVE WindowInv'
<1>0. TypeInv /\ WindowInv /\ ThiefInv /\ top \in Nat /\ bottom \in Int /\ ob \in Int
      /\ ot \in Nat /\ pushes \in Int /\ Current.C \in Nat \ {0} /\ t \in [Thieves -> Nat]
  BY CurrentType, ArrayFields, MaxPushesAssumption DEF IInv, TypeInv
<1> USE <1>0 DEF WindowInv, Pushing, Popping, LiveEnd
<1>1. CASE PushBegin
  <2>1. Current' = Current
    BY <1>1, ArraysKept DEF PushBegin
  <2>2. CASE Full(Current, top, bottom)
    <3>1. opc' = "push_grow" /\ bottom - top = Current.C
      BY <1>1, <2>2 DEF PushBegin, Full
    <3> QED BY <1>1, <2>1, <3>1 DEF PushBegin
  <2>3. CASE ~Full(Current, top, bottom)
    <3>1. opc' = "push_store" /\ bottom - top < Current.C
      BY <1>1, <2>3 DEF PushBegin, Full
    <3> QED BY <1>1, <2>1, <3>1 DEF PushBegin
  <2> QED BY <2>2, <2>3
<1>2. CASE PushGrow
  BY <1>2, GrowKeeps DEF PushGrow
<1>3. CASE PushStore
  BY <1>3, StoreKeeps DEF PushStore
<1>4. CASE PushPublish
  BY <1>4, ArraysKept, MaxPushesAssumption DEF PushPublish, OwnerReturns
<1>5. CASE PopReserve
  BY <1>5, ArraysKept DEF PopReserve
<1>6. CASE PopTail
  BY <1>6, ArraysKept DEF PopTail, OwnerReturns
<1>7. CASE PopLoadTop
  BY <1>7, ArraysKept DEF PopLoadTop
<1>8. CASE PopCas
  <2>1. CASE top = ot
    BY <1>8, <2>1, ArraysKept DEF PopCas
  <2>2. CASE top # ot
    BY <1>8, <2>2, ArraysKept DEF PopCas
  <2> QED BY <2>1, <2>2
<1>9. CASE PopRestore
  BY <1>9, ArraysKept DEF PopRestore, OwnerReturns
<1>10. ASSUME NEW p \in Thieves, Thief(p) PROVE WindowInv'
  <2>1. /\ UNCHANGED <<bottom, arrays, opc, ob, ot, popped, pushes>>
        /\ top' = top \/ (top' = top + 1 /\ top < LiveEnd)
    <3>1. CASE StealCas(p)
      <4>1. top = t[p] => top < LiveEnd
        BY <3>1 DEF StealCas, ThiefInv, Racing
      <4> QED BY <3>1, <4>1 DEF StealCas, ownerVars
    <3>2. CASE ~StealCas(p)
      BY <1>10, <3>2 DEF Thief, StealLoadTop, StealLoadBottom, StealLoadArray,
         StealLoadSlot, QueryLoadBottom, QueryLoadTop, ownerVars
    <3> QED BY <3>1, <3>2
  <2>2. Slot(Current, ob)' = Slot(Current, ob) /\ Current' = Current
    BY <2>1, ArraysKept DEF Slot
  <2>3. opc = "pop_restore" => ~(top < LiveEnd)
    OBVIOUS
  <2> QED BY <2>1, <2>2, <2>3
<1>11. CASE UNCHANGED vars
  <2>1. Slot(Current, ob)' = Slot(Current, ob) /\ Current' = Current
    BY <1>11, ArraysKept DEF vars, ownerVars, Slot
  <2> QED BY <1>11, <2>1 DEF vars, ownerVars
<1> QED BY <1>1, <1>2, <1>3, <1>4, <1>5, <1>6, <1>7, <1>8, <1>9, <1>10, <1>11
        DEF IInv, Next, Owner

-------------------------------------------------------------------------------
(* What the thieves know.                                                  *)

\* A step of the owner that keeps what is at the head, unless it moves _top.
LEMMA ThiefKept ==
  ASSUME IInv, UNCHANGED thiefVars, top' \in Nat, top' >= top,
         top' = top /\ top < LiveEnd =>
             /\ top < LiveEnd' /\ Slot(Current, top)' = Slot(Current, top)
             /\ \A g \in 1..Len(arrays) :
                   Slot(arrays[g], top) = Slot(Current, top)
                       => Slot(arrays[g], top)' = Slot(Current, top)
  PROVE  ThiefInv'
<1> SUFFICES ASSUME NEW p \in Thieves
             PROVE  /\ pc'[p] \in {"load_bottom", "load_array", "load_slot", "cas"} => t'[p] <= top'
                    /\ Racing(p)' => top' < LiveEnd'
                    /\ Racing(p)' /\ pc'[p] = "load_slot"
                          => Slot(arrays[a[p]], top)' = Slot(Current, top)'
                    /\ Racing(p)' /\ pc'[p] = "cas" => item'[p] = Slot(Current, top)'
  BY DEF ThiefInv
<1>1. pc' = pc /\ t' = t /\ a' = a /\ item' = item
  BY DEF thiefVars
<1>2. t[p] \in Nat /\ top \in Nat /\ a[p] \in 1..Len(arrays)
  BY DEF IInv, TypeInv
<1>3. pc'[p] \in {"load_bottom", "load_array", "load_slot", "cas"} => t'[p] <= top'
  BY <1>1, <1>2 DEF IInv, ThiefInv
<1>4. ASSUME Racing(p)' PROVE Racing(p) /\ top' = top /\ top < LiveEnd
  <2>1. t[p] = top' /\ t[p] <= top
    BY <1>1, <1>4 DEF Racing, IInv, ThiefInv
  <2>2. top' = top
    BY <1>2, <2>1
  <2>3. Racing(p)
    BY <1>1, <1>4, <2>2 DEF Racing
  <2> QED BY <2>2, <2>3 DEF IInv, ThiefInv
<1>5. ASSUME Racing(p)', pc'[p] = "load_slot"
      PROVE  Slot(arrays[a[p]], top)' = Slot(Current, top)'
  <2>1. Slot(arrays[a[p]], top) = Slot(Current, top)
    BY <1>1, <1>4, <1>5 DEF IInv, ThiefInv
  <2>2. PICK g \in 1..Len(arrays) : g = a[p]
    BY <1>2
  <2>3. Slot(arrays[g], top)' = Slot(Current, top)'
    BY <1>4, <1>5, <2>1, <2>2
  <2>4. g = a'[p]
    BY <1>1, <2>2
  <2> QED BY <2>3, <2>4 DEF Slot
<1>6. ASSUME Racing(p)', pc'[p] = "cas" PROVE item'[p] = Slot(Current, top)'
  <2>1. item[p] = Slot(Current, top)
    BY <1>1, <1>4, <1>6 DEF IInv, ThiefInv
  <2> QED BY <1>1, <1>4, <1>6, <2>1
<1> QED BY <1>3, <1>4, <1>5, <1>6

LEMMA ThiefOwnerStep == ASSUME IInv, Owner PROVE ThiefInv'
<1>0. top \in Nat /\ bottom \in Int /\ ob \in Int /\ ot \in Nat
  BY DEF IInv, TypeInv
<1>1. CASE PushGrow
  <2>1. top' = top /\ UNCHANGED thiefVars
    BY <1>1 DEF PushGrow
  <2>2. ASSUME top < LiveEnd
        PROVE  /\ top < LiveEnd' /\ Slot(Current, top)' = Slot(Current, top)
               /\ \A g \in 1..Len(arrays) : Slot(arrays[g], top)' = Slot(arrays[g], top)
    <3>1. top \in Live
      BY <1>0, <2>2, LiveFacts DEF Live, IInv
    <3>2. \A g \in 1..Len(arrays) : Slot(arrays[g], top)' = Slot(arrays[g], top)
      BY <1>1, <2>1, GrowKeeps DEF Slot
    <3>3. Slot(Current, top)' = Slot(Current, top)
      <4>1. Slot(Current', top) = Slot(Current, top)
        BY <1>1, <3>1, GrowKeeps DEF Slot
      <4> QED BY <4>1, <2>1 DEF Slot
    <3> QED BY <1>1, <2>2, <3>2, <3>3, GrowKeeps
  <2> QED BY <1>0, <2>1, <2>2, ThiefKept
<1>2. CASE PushStore
  <2>1. top' = top /\ UNCHANGED thiefVars
    BY <1>2 DEF PushStore
  <2>2. ASSUME top < LiveEnd
        PROVE  /\ top < LiveEnd' /\ Slot(Current, top)' = Slot(Current, top)
               /\ \A g \in 1..Len(arrays) :
                     Slot(arrays[g], top) = Slot(Current, top)
                        => Slot(arrays[g], top)' = Slot(Current, top)
    <3>1. top \in Live
      BY <1>0, <2>2, LiveFacts DEF Live, IInv
    <3>2. Slot(Current, top)' = Slot(Current, top)
      <4>1. Slot(Current', top) = Slot(Current, top)
        BY <1>2, <3>1, StoreKeeps DEF Slot
      <4> QED BY <4>1, <2>1 DEF Slot
    <3>3. ASSUME NEW g \in 1..Len(arrays), Slot(arrays[g], top) = Slot(Current, top)
          PROVE  Slot(arrays[g], top)' = Slot(Current, top)
      <4>1. CASE g # Len(arrays)
        BY <1>2, <2>1, <3>3, <4>1, StoreKeeps DEF Slot
      <4>2. CASE g = Len(arrays)
        <5>1. Slot(arrays[g], top)' = Slot(Current, top)'
          BY <1>2, <4>2, StoreKeeps DEF Current, Slot
        <5> QED BY <5>1, <3>2
      <4> QED BY <4>1, <4>2
    <3> QED BY <1>2, <2>2, <3>2, <3>3, StoreKeeps
  <2> QED BY <1>0, <2>1, <2>2, ThiefKept
<1>3. CASE ~PushGrow /\ ~PushStore
  <2>1. UNCHANGED <<thiefVars, arrays>>
    BY <1>3 DEF Owner, PushBegin, PushPublish, PopReserve, PopTail, PopLoadTop, PopCas, PopRestore
  <2>2. top' \in Nat /\ top' >= top
    BY <1>0, <1>3 DEF Owner, PushBegin, PushPublish, PopReserve, PopTail, PopLoadTop, PopCas, PopRestore
  <2>3. ASSUME top' = top, top < LiveEnd PROVE top < LiveEnd'
    BY <1>0, <1>3, <2>3 DEF Owner, PushBegin, PushPublish, PopReserve, PopTail, PopLoadTop, PopCas,
       PopRestore, OwnerReturns, LiveEnd, IInv, WindowInv, Pushing, Popping
  <2>4. ASSUME top' = top
        PROVE  /\ Slot(Current, top)' = Slot(Current, top)
               /\ \A g \in 1..Len(arrays) : Slot(arrays[g], top)' = Slot(arrays[g], top)
    BY <2>1, <2>4, ArraysKept DEF Slot
  <2> QED BY <2>1, <2>2, <2>3, <2>4, ThiefKept
<1> QED BY <1>1, <1>2, <1>3

LEMMA ThiefThiefStep == ASSUME IInv, NEW q \in Thieves, Thief(q) PROVE ThiefInv'
<1>0. /\ top \in Nat /\ bottom \in Int /\ t \in [Thieves -> Nat] /\ pc \in [Thieves -> ThiefPcs]
      /\ a \in [Thieves -> 1..Len(arrays)] /\ item \in [Thieves -> Cells]
  BY DEF IInv, TypeInv
<1>1. UNCHANGED <<bottom, arrays, ownerVars>> /\ top' \in {top, top + 1}
  BY DEF Thief, StealLoadTop, StealLoadBottom, StealLoadArray, StealLoadSlot, StealCas,
     QueryLoadBottom, QueryLoadTop
<1>2. Current' = Current /\ LiveEnd' = LiveEnd
  BY <1>1, ArraysKept DEF LiveEnd, ownerVars
<1>3. \A p \in Thieves \ {q} : pc'[p] = pc[p] /\ t'[p] = t[p] /\ a'[p] = a[p] /\ item'[p] = item[p]
  BY <1>0 DEF Thief, StealLoadTop, StealLoadBottom, StealLoadArray, StealLoadSlot, StealCas,
     QueryLoadBottom, QueryLoadTop, Return
<1>4. ASSUME NEW p \in Thieves \ {q}
      PROVE  /\ pc'[p] \in {"load_bottom", "load_array", "load_slot", "cas"} => t'[p] <= top'
             /\ Racing(p)' => top' < LiveEnd'
             /\ Racing(p)' /\ pc'[p] = "load_slot"
                   => Slot(arrays[a[p]], top)' = Slot(Current, top)'
             /\ Racing(p)' /\ pc'[p] = "cas" => item'[p] = Slot(Current, top)'
  <2>1. Racing(p)' => Racing(p) /\ top' = top
    BY <1>0, <1>1, <1>3 DEF IInv, ThiefInv, Racing
  <2> QED BY <1>0, <1>1, <1>2, <1>3, <2>1 DEF IInv, ThiefInv, Slot
<1>5. /\ pc'[q] \in {"load_bottom", "load_array", "load_slot", "cas"} => t'[q] <= top'
      /\ Racing(q)' => top' < LiveEnd'
      /\ Racing(q)' /\ pc'[q] = "load_slot"
            => Slot(arrays[a[q]], top)' = Slot(Current, top)'
      /\ Racing(q)' /\ pc'[q] = "cas" => item'[q] = Slot(Current, top)'
  <2>1. CASE StealLoadTop(q)
    BY <1>0, <1>1, <2>1 DEF StealLoadTop, Racing
  <2>2. CASE StealLoadBottom(q)
    <3>1. CASE pc' = [pc EXCEPT ![q] = "load_array"] /\ t' = t /\ t[q] < bottom
      <4>1. pc'[q] = "load_array" /\ top' = top /\ t[q] <= top
        BY <1>0, <2>2, <3>1 DEF StealLoadBottom, IInv, ThiefInv
      <4>2. bottom <= LiveEnd
        BY <1>0 DEF LiveEnd
      <4> QED BY <1>0, <1>2, <3>1, <4>1, <4>2 DEF Racing, LiveEnd
    <3>2. CASE Return(q)
      BY <1>0, <3>2 DEF Return, Racing
    <3> QED BY <2>2, <3>1, <3>2 DEF StealLoadBottom
  <2>3. CASE StealLoadArray(q)
    <3>1. pc'[q] = "load_slot" /\ t' = t /\ top' = top /\ a'[q] = Len(arrays)
      BY <1>0, <2>3 DEF StealLoadArray
    <3>2. t[q] <= top /\ (Racing(q)' => top < LiveEnd)
      BY <2>3, <3>1 DEF StealLoadArray, IInv, ThiefInv, Racing
    <3>3. arrays'[a'[q]] = Current'
      BY <1>1, <3>1 DEF Current
    <3> QED BY <1>2, <3>1, <3>2, <3>3
  <2>4. CASE StealLoadSlot(q)
    <3>1. /\ pc'[q] = "cas" /\ t' = t /\ top' = top
          /\ item'[q] = Slot(arrays[a[q]], t[q])
      BY <1>0, <2>4 DEF StealLoadSlot
    <3>2. t[q] <= top /\ (Racing(q)' => Racing(q))
      BY <2>4, <3>1 DEF StealLoadSlot, IInv, ThiefInv, Racing
    <3>3. Racing(q) => top < LiveEnd /\ t[q] = top /\ Slot(arrays[a[q]], top) = Slot(Current, top)
      BY <2>4 DEF StealLoadSlot, IInv, ThiefInv, Racing
    <3> QED BY <1>2, <3>1, <3>2, <3>3
  <2>5. CASE StealCas(q)
    BY <1>0, <2>5 DEF StealCas, Return, Racing
  <2>6. CASE QueryLoadBottom(q)
    BY <1>0, <2>6 DEF QueryLoadBottom, Racing
  <2>7. CASE QueryLoadTop(q)
    BY <1>0, <2>7 DEF QueryLoadTop, Return, Racing
  <2> QED BY <2>1, <2>2, <2>3, <2>4, <2>5, <2>6, <2>7 DEF Thief
<1> QED BY <1>4, <1>5 DEF ThiefInv

LEMMA ThiefStep == ASSUME IInv, [Next]_vars PROVE ThiefInv'
<1>1. CASE UNCHANGED vars
  BY <1>1, ArraysKept DEF IInv, ThiefInv, Racing, LiveEnd, Slot, vars, ownerVars, thiefVars
<1> QED BY <1>1, ThiefOwnerStep, ThiefThiefStep DEF Next

-------------------------------------------------------------------------------
(* The contents.                                                           *)

Contents == {Slot(Current, i) : i \in Live}

\* Nothing enters the queue and nothing leaves it.
LEMMA NothingMoves ==
  ASSUME ExactlyOnce, UNCHANGED <<Live, taken, pushes>>,
         \A i \in Live : Slot(Current, i)' = Slot(Current, i)
  PROVE  ExactlyOnce'
<1>1. {Slot(Current, i)' : i \in Live'} = {Slot(Current, i) : i \in Live}
  OBVIOUS
<1> QED BY <1>1 DEF ExactlyOnce

\* The item at one index of the window is taken.
LEMMA OneIsTaken ==
  ASSUME ExactlyOnce, UNCHANGED pushes, NEW x \in Live, Live' = Live \ {x},
         taken' = taken \cup {Slot(Current, x)},
         \A i \in Live : Slot(Current, i)' = Slot(Current, i)
  PROVE  ExactlyOnce'
<1>1. {Slot(Current, i)' : i \in Live'} = {Slot(Current, i) : i \in Live} \ {Slot(Current, x)}
  BY DEF ExactlyOnce
<1>2. \A i, j \in Live' : Slot(Current, i)' = Slot(Current, j)' => i = j
  BY DEF ExactlyOnce
<1>3. Slot(Current, x) \in {Slot(Current, i) : i \in Live}
  OBVIOUS
<1> QED BY <1>1, <1>2, <1>3 DEF ExactlyOnce

\* A new item appears at an index outside of the window.
LEMMA OneIsAdded ==
  ASSUME ExactlyOnce, pushes \in Nat, pushes' = pushes + 1, UNCHANGED taken,
         NEW x, x \notin Live, Live' = Live \cup {x}, Slot(Current, x)' = pushes + 1,
         \A i \in Live : Slot(Current, i)' = Slot(Current, i)
  PROVE  ExactlyOnce'
<1>1. {Slot(Current, i)' : i \in Live'} = {Slot(Current, i) : i \in Live} \cup {pushes + 1}
  OBVIOUS
<1>2. pushes + 1 \notin 1..pushes /\ 1..(pushes + 1) = (1..pushes) \cup {pushes + 1}
  OBVIOUS
<1>3. pushes + 1 \notin taken /\ pushes + 1 \notin {Slot(Current, i) : i \in Live}
  BY <1>2 DEF ExactlyOnce
<1>4. \A i, j \in Live' : Slot(Current, i)' = Slot(Current, j)' => i = j
  BY <1>3 DEF ExactlyOnce
<1> QED BY <1>1, <1>2, <1>3, <1>4 DEF ExactlyOnce

LEMMA ContentStep == ASSUME IInv, [Next]_vars PROVE ExactlyOnce'
<1>0. /\ top \in Nat /\ bottom \in Int /\ ob \in Int /\ ot \in Nat /\ pushes \in Nat
      /\ LiveEnd \in Nat /\ ExactlyOnce
  BY LiveFacts, MaxPushesAssumption DEF IInv, TypeInv
<1>1. CASE PushGrow
  BY <1>0, <1>1, GrowKeeps, NothingMoves DEF PushGrow
<1>2. CASE PushStore
  BY <1>0, <1>2, StoreKeeps, NothingMoves DEF PushStore
<1>3. ASSUME UNCHANGED <<arrays, Live, taken, pushes>> PROVE ExactlyOnce'
  <2>1. \A i \in Live : Slot(Current, i)' = Slot(Current, i)
    BY <1>3, ArraysKept DEF Slot
  <2> QED BY <1>0, <1>3, <2>1, NothingMoves
<1>4. CASE PushBegin \/ PopReserve \/ PopLoadTop \/ PopRestore
  <2>1. LiveEnd' = LiveEnd
    BY <1>0, <1>4 DEF PushBegin, PopReserve, PopLoadTop, PopRestore, OwnerReturns, LiveEnd,
       IInv, WindowInv, Popping
  <2>2. UNCHANGED <<top, arrays, taken, pushes>>
    BY <1>4 DEF PushBegin, PopReserve, PopLoadTop, PopRestore
  <2> QED BY <1>3, <2>1, <2>2 DEF Live
<1>5. CASE PushPublish
  <2>1. LiveEnd = ob /\ LiveEnd' = ob + 1 /\ top' = top /\ top <= ob
    BY <1>0, <1>5 DEF PushPublish, OwnerReturns, LiveEnd, IInv, WindowInv, Pushing
  <2>2. ob \notin Live /\ Live' = Live \cup {ob}
    BY <1>0, <2>1 DEF Live
  <2>3. Slot(Current', ob) = pushes + 1
    <3>1. Slot(Current, ob) = pushes + 1
      BY <1>5 DEF PushPublish, IInv, WindowInv
    <3>2. Slot(Current', ob) = pushes + 1
      BY <1>5, <3>1, ArraysKept DEF PushPublish
    <3> QED BY <3>2
  <2>4. \A i \in Live : Slot(Current, i)' = Slot(Current, i)
    BY <1>5, ArraysKept DEF PushPublish, Slot
  <2>5. PICK x \in Int : x = ob
    BY <1>0
  <2>6. x \notin Live /\ Live' = Live \cup {x} /\ Slot(Current, x)' = pushes + 1
    BY <2>2, <2>3, <2>5 DEF Slot
  <2> QED BY <1>0, <1>5, <2>4, <2>6, OneIsAdded DEF PushPublish
<1>6. ASSUME NEW x \in Live, Live' = Live \ {x}, taken' = taken \cup {Slot(Current, x)},
             UNCHANGED <<arrays, pushes>>
      PROVE  ExactlyOnce'
  <2>1. \A i \in Live : Slot(Current, i)' = Slot(Current, i)
    BY <1>6, ArraysKept DEF Slot
  <2> QED BY <1>0, <1>6, <2>1, OneIsTaken
<1>7. CASE PopTail
  <2>1. LiveEnd = ob + 1 /\ LiveEnd' = ob /\ top' = top /\ top < ob
    BY <1>0, <1>7 DEF PopTail, OwnerReturns, LiveEnd, IInv, WindowInv, Popping
  <2>2. ob \in Live /\ Live' = Live \ {ob}
    BY <1>0, <2>1 DEF Live
  <2> QED BY <1>6, <1>7, <2>2 DEF PopTail, OwnerTakes
<1>8. CASE PopCas
  <2>1. LiveEnd = ob + 1 /\ LiveEnd' = LiveEnd
    BY <1>0, <1>8 DEF PopCas, LiveEnd, IInv, WindowInv, Popping
  <2>2. CASE top = ot
    <3>1. top = ob /\ top' = ob + 1
      BY <1>8, <2>2 DEF PopCas, IInv, WindowInv
    <3>2. ob \in Live /\ Live' = Live \ {ob}
      BY <1>0, <2>1, <3>1 DEF Live
    <3> QED BY <1>6, <1>8, <2>2, <3>2 DEF PopCas, OwnerTakes
  <2>3. CASE top # ot
    BY <1>3, <1>8, <2>1, <2>3 DEF PopCas, Live
  <2> QED BY <2>2, <2>3
<1>9. ASSUME NEW p \in Thieves, Thief(p) PROVE ExactlyOnce'
  <2>1. UNCHANGED <<arrays, pushes, LiveEnd>>
    BY <1>9 DEF Thief, StealLoadTop, StealLoadBottom, StealLoadArray, StealLoadSlot, StealCas,
       QueryLoadBottom, QueryLoadTop, ownerVars, LiveEnd
  <2>2. CASE StealCas(p) /\ top = t[p]
    <3>1. top < LiveEnd /\ item[p] = Slot(Current, top)
      BY <2>2 DEF StealCas, IInv, ThiefInv, Racing
    <3>2. top \in Live /\ Live' = Live \ {top}
      BY <1>0, <2>1, <2>2, <3>1 DEF StealCas, Live
    <3> QED BY <1>6, <2>1, <2>2, <3>1, <3>2 DEF StealCas
  <2>3. CASE ~(StealCas(p) /\ top = t[p])
    <3>1. UNCHANGED <<top, taken>>
      BY <1>9, <2>3 DEF Thief, StealLoadTop, StealLoadBottom, StealLoadArray, StealLoadSlot,
         StealCas, QueryLoadBottom, QueryLoadTop
    <3> QED BY <1>3, <2>1, <3>1 DEF Live
  <2> QED BY <2>2, <2>3
<1>10. CASE UNCHANGED vars
  BY <1>3, <1>10 DEF vars, ownerVars, Live, LiveEnd
<1> QED BY <1>1, <1>2, <1>4, <1>5, <1>7, <1>8, <1>9, <1>10 DEF Next, Owner

-------------------------------------------------------------------------------
(* The theorems.                                                           *)

LEMMA Inductive == Spec => []IInv
<1>1. Init => IInv
  BY TypeInit DEF IInv
<1>2. IInv /\ [Next]_vars => IInv'
  <2> SUFFICES ASSUME IInv, [Next]_vars PROVE IInv'
    OBVIOUS
  <2>1. TypeInv' /\ WindowInv' /\ ThiefInv' /\ ExactlyOnce'
    BY TypeStep, WindowStep, ThiefStep, ContentStep DEF IInv
  <2> QED BY <2>1 DEF IInv
<1> QED BY <1>1, <1>2, PTL DEF Spec

\* Every variable has its type; in particular the memory that the queue holds
\* is bounded by the number of pushes.
THEOREM TypeCorrect == Spec => []TypeOK
<1>1. IInv => TypeOK
  <2> SUFFICES ASSUME IInv PROVE TypeOK
    OBVIOUS
  <2>1. ASSUME NEW g \in 1..Len(arrays) PROVE \E c \in Capacities : arrays[g] \in ArraysOf(c)
    <3>1. arrays[g] \in Arrays
      BY DEF IInv, TypeInv
    <3> QED BY <3>1 DEF Arrays
  <2> QED BY <2>1 DEF IInv, TypeInv, TypeOK, Cells
<1> QED BY <1>1, Inductive, PTL

\* push(), pop() and steal() lose no item and hand out none twice, whatever the
\* interleaving of the owner and of any number of thieves.
THEOREM NoItemLostOrTakenTwice == Spec => []ExactlyOnce
<1>1. IInv => ExactlyOnce
  BY DEF IInv
<1> QED BY <1>1, Inductive, PTL

\* A thief whose compare-and-swap succeeds has read the item at the head, even
\* when the owner has replaced the array in the meantime.
THEOREM StealsTheHead == Spec => []StealReadsHead
<1>1. IInv => StealReadsHead
  <2> SUFFICES ASSUME IInv, NEW p \in Thieves, pc[p] = "cas", t[p] = top
               PROVE  top \in Live /\ item[p] = Slot(Current, top)
    BY DEF StealReadsHead
  <2>1. top < LiveEnd /\ item[p] = Slot(Current, top)
    BY DEF IInv, ThiefInv, Racing
  <2>2. top \in Nat /\ LiveEnd \in Nat
    BY LiveFacts DEF IInv, TypeInv
  <2> QED BY <2>1, <2>2 DEF Live
<1> QED BY <1>1, Inductive, PTL

-------------------------------------------------------------------------------
(* The refinement of AbstractStealQueue.                                   *)

\* What arr holds at the indices lo..hi-1, as a sequence.
Window(arr, lo, hi) == [k \in 1..(hi - lo) |-> Slot(arr, lo + k - 1)]

LEMMA WindowSeq ==
  ASSUME NEW arr \in Arrays, NEW lo \in Nat, NEW hi \in Nat, lo <= hi
  PROVE  /\ Window(arr, lo, hi) \in Seq(Cells) /\ Len(Window(arr, lo, hi)) = hi - lo
         /\ \A k \in 1..(hi - lo) : Window(arr, lo, hi)[k] = Slot(arr, lo + k - 1)
<1>1. ASSUME NEW k \in 1..(hi - lo) PROVE Slot(arr, lo + k - 1) \in Cells
  BY SlotType
<1> QED BY <1>1 DEF Window

LEMMA WindowSame ==
  ASSUME NEW arr, NEW new, NEW lo \in Nat, NEW hi \in Nat,
         \A i \in lo..(hi - 1) : Slot(new, i) = Slot(arr, i)
  PROVE  Window(new, lo, hi) = Window(arr, lo, hi)
<1>1. ASSUME NEW k \in 1..(hi - lo) PROVE Slot(new, lo + k - 1) = Slot(arr, lo + k - 1)
  <2>1. lo + k - 1 \in lo..(hi - 1)
    OBVIOUS
  <2> QED BY <2>1
<1> QED BY <1>1 DEF Window

\* One index more: the item there is appended.
LEMMA WindowAppend ==
  ASSUME NEW arr \in Arrays, NEW lo \in Nat, NEW hi \in Nat, lo <= hi
  PROVE  Window(arr, lo, hi + 1) = Append(Window(arr, lo, hi), Slot(arr, hi))
<1> DEFINE s == Window(arr, lo, hi)
           r == Window(arr, lo, hi + 1)
           x == Slot(arr, hi)
<1>1. s \in Seq(Cells) /\ Len(s) = hi - lo /\ x \in Cells
  BY WindowSeq, SlotType
<1>2. /\ r \in Seq(Cells) /\ Len(r) = hi + 1 - lo
      /\ \A k \in 1..(hi + 1 - lo) : r[k] = Slot(arr, lo + k - 1)
  <2>1. hi + 1 \in Nat /\ lo <= hi + 1
    OBVIOUS
  <2> QED BY <2>1, WindowSeq
<1>3. \A k \in 1..(hi - lo) : s[k] = Slot(arr, lo + k - 1)
  BY WindowSeq
<1>4. r[hi + 1 - lo] = x
  <2>1. hi + 1 - lo \in 1..(hi + 1 - lo) /\ lo + (hi + 1 - lo) - 1 = hi
    OBVIOUS
  <2>2. r[hi + 1 - lo] = Slot(arr, lo + (hi + 1 - lo) - 1)
    BY <1>2, <2>1
  <2> QED BY <2>1, <2>2
<1> HIDE DEF s, r, x
<1>5. /\ Append(s, x) \in Seq(Cells) /\ Len(Append(s, x)) = Len(s) + 1
      /\ \A k \in 1..Len(s) : Append(s, x)[k] = s[k]
      /\ Append(s, x)[Len(s) + 1] = x
  BY <1>1, AppendProperties
<1>6. ASSUME NEW k \in 1..Len(r) PROVE r[k] = Append(s, x)[k]
  <2>1. CASE k = hi + 1 - lo
    BY <1>1, <1>4, <1>5, <2>1
  <2>2. CASE k # hi + 1 - lo
    BY <1>1, <1>2, <1>3, <1>5, <2>2
  <2> QED BY <2>1, <2>2
<1>7. r = Append(s, x)
  BY <1>1, <1>2, <1>5, <1>6, SeqEqual
<1> QED BY <1>7 DEF s, r, x

\* One index less at the front: the head leaves.
LEMMA WindowTail ==
  ASSUME NEW arr \in Arrays, NEW lo \in Nat, NEW hi \in Nat, lo < hi
  PROVE  /\ Window(arr, lo, hi) # <<>> /\ Head(Window(arr, lo, hi)) = Slot(arr, lo)
         /\ Tail(Window(arr, lo, hi)) = Window(arr, lo + 1, hi)
<1> DEFINE s == Window(arr, lo, hi)
           r == Window(arr, lo + 1, hi)
<1>1. s \in Seq(Cells) /\ Len(s) = hi - lo /\ \A k \in 1..(hi - lo) : s[k] = Slot(arr, lo + k - 1)
  BY WindowSeq
<1>2. /\ r \in Seq(Cells) /\ Len(r) = hi - (lo + 1)
      /\ \A k \in 1..(hi - (lo + 1)) : r[k] = Slot(arr, (lo + 1) + k - 1)
  <2>1. lo + 1 \in Nat /\ lo + 1 <= hi
    OBVIOUS
  <2> QED BY <2>1, WindowSeq
<1>3. s[1] = Slot(arr, lo)
  <2>1. 1 \in 1..(hi - lo) /\ lo + 1 - 1 = lo
    OBVIOUS
  <2> QED BY <1>1, <2>1
<1>4. ASSUME NEW k \in 1..(hi - (lo + 1)) PROVE r[k] = s[k + 1]
  <2>1. k + 1 \in 1..(hi - lo) /\ (lo + 1) + k - 1 = lo + (k + 1) - 1
    OBVIOUS
  <2> QED BY <1>1, <1>2, <2>1
<1> HIDE DEF s, r
<1>5. s # <<>> /\ Head(s) = s[1]
  BY <1>1
<1>6. /\ Tail(s) \in Seq(Cells) /\ Len(Tail(s)) = Len(s) - 1
      /\ \A k \in 1..Len(Tail(s)) : Tail(s)[k] = s[k + 1]
  BY <1>1, <1>5, HeadTailProperties
<1>7. Tail(s) = r
  <2>1. Len(Tail(s)) = Len(r)
    BY <1>1, <1>2, <1>6
  <2>2. \A k \in 1..Len(Tail(s)) : Tail(s)[k] = r[k]
    BY <1>1, <1>2, <1>4, <1>6
  <2> QED BY <1>2, <1>6, <2>1, <2>2, SeqEqual
<1>8. s # <<>> /\ Head(s) = Slot(arr, lo) /\ Tail(s) = r
  BY <1>3, <1>5, <1>7
<1> QED BY <1>8 DEF s, r

\* One index less at the end: the last item leaves.
LEMMA WindowFront ==
  ASSUME NEW arr \in Arrays, NEW lo \in Nat, NEW hi \in Nat, lo <= hi
  PROVE  /\ Window(arr, lo, hi + 1)[Len(Window(arr, lo, hi + 1))] = Slot(arr, hi)
         /\ SubSeq(Window(arr, lo, hi + 1), 1, Len(Window(arr, lo, hi + 1)) - 1)
              = Window(arr, lo, hi)
<1> DEFINE s == Window(arr, lo, hi)
           r == Window(arr, lo, hi + 1)
           x == Slot(arr, hi)
<1>1. s \in Seq(Cells) /\ Len(s) = hi - lo /\ x \in Cells
  BY WindowSeq, SlotType
<1>2. r = Append(s, x)
  BY WindowAppend
<1> HIDE DEF s, r, x
<1>3. /\ r \in Seq(Cells) /\ Len(r) = Len(s) + 1 /\ r[Len(s) + 1] = x
      /\ \A k \in 1..Len(s) : r[k] = s[k]
  BY <1>1, <1>2, AppendProperties
<1>4. SubSeq(r, 1, Len(r) - 1) = s
  <2>1. Len(r) - 1 = Len(s) /\ Len(s) \in Nat
    BY <1>1, <1>3
  <2>2. \A k \in 1..Len(s) : r[k] \in Cells
    BY <1>1, <1>3
  <2>3. /\ SubSeq(r, 1, Len(s)) \in Seq(Cells)
        /\ Len(SubSeq(r, 1, Len(s))) = Len(s)
        /\ \A k \in 1..Len(s) : SubSeq(r, 1, Len(s))[k] = r[k]
    BY <1>3, <2>1, <2>2, SubSeqProperties
  <2>4. \A k \in 1..Len(s) : SubSeq(r, 1, Len(s))[k] = s[k]
    BY <1>3, <2>3
  <2>5. SubSeq(r, 1, Len(s)) = s
    BY <1>1, <2>3, <2>4, SeqEqual
  <2> QED BY <2>1, <2>5
<1>5. r[Len(r)] = x /\ SubSeq(r, 1, Len(r) - 1) = s
  BY <1>3, <1>4
<1> QED BY <1>5 DEF s, r, x

LEMMA WindowEmpty ==
  ASSUME NEW arr, NEW lo \in Nat, NEW hi \in Nat, hi = lo
  PROVE  Window(arr, lo, hi) = <<>>
<1>1. 1..(hi - lo) = {}
  OBVIOUS
<1> QED BY <1>1 DEF Window

\* The variables of the abstract queue, as Abstract substitutes them.
AItems == Window(Current, top, LiveEnd)
AMark == [p \in Thieves |-> IF pc[p] \in {"idle", "query"} THEN -1 ELSE t[p]]
AGot == [p \in Thieves |-> IF pc[p] = "cas" THEN NoItem ELSE item[p]]
APopping == CASE opc \in {"pop_load", "pop_cas"} -> "trying"
              [] opc = "pop_restore" -> (IF popped = NoItem THEN "trying" ELSE "took")
              [] OTHER -> "no"
AVars == <<AItems, top, AMark, AGot, APopping, popped>>

\* A call that has not taken an item returns none.
EmptyHanded ==
    /\ opc \in {"pop_load", "pop_cas"} => popped = NoItem
    /\ \A p \in Thieves : pc[p] \in {"load_bottom", "load_array", "load_slot"} => item[p] = NoItem

LEMMA EmptyHandedStep == ASSUME IInv, EmptyHanded, [Next]_vars PROVE EmptyHanded'
<1>0. pc \in [Thieves -> ThiefPcs] /\ item \in [Thieves -> Cells]
  BY DEF IInv, TypeInv
<1> USE DEF EmptyHanded
<1>1. CASE Owner
  <2>1. UNCHANGED thiefVars /\ (opc' \in {"pop_load", "pop_cas"} => popped' = NoItem)
    BY <1>1 DEF Owner, PushBegin, PushGrow, PushStore, PushPublish, PopReserve, PopTail,
       PopLoadTop, PopCas, PopRestore, OwnerReturns
  <2> QED BY <2>1 DEF thiefVars
<1>2. ASSUME NEW q \in Thieves, Thief(q) PROVE EmptyHanded'
  <2>1. UNCHANGED ownerVars
    BY <1>2 DEF Thief, StealLoadTop, StealLoadBottom, StealLoadArray, StealLoadSlot, StealCas,
       QueryLoadBottom, QueryLoadTop
  <2>2. ASSUME NEW p \in Thieves \ {q} PROVE pc'[p] = pc[p] /\ item'[p] = item[p]
    BY <1>0, <1>2 DEF Thief, StealLoadTop, StealLoadBottom, StealLoadArray, StealLoadSlot,
       StealCas, QueryLoadBottom, QueryLoadTop, Return
  <2>3. pc'[q] \in {"load_bottom", "load_array", "load_slot"} => item'[q] = NoItem
    BY <1>0, <1>2 DEF Thief, StealLoadTop, StealLoadBottom, StealLoadArray, StealLoadSlot,
       StealCas, QueryLoadBottom, QueryLoadTop, Return
  <2> QED BY <2>1, <2>2, <2>3 DEF ownerVars
<1>3. CASE UNCHANGED vars
  BY <1>3 DEF vars, ownerVars, thiefVars
<1> QED BY <1>1, <1>2, <1>3 DEF Next

\* The types the steps below use.
LEMMA RefineTypes ==
  ASSUME IInv
  PROVE  /\ top \in Nat /\ bottom \in Int /\ ob \in Int /\ ot \in Nat /\ LiveEnd \in Nat
         /\ top <= LiveEnd /\ Current \in Arrays /\ pushes \in Nat
         /\ pc \in [Thieves -> ThiefPcs] /\ t \in [Thieves -> Nat]
         /\ item \in [Thieves -> Cells]
  BY LiveFacts, CurrentType, MaxPushesAssumption DEF IInv, TypeInv, WindowInv

LEMMA RefinePush ==
  ASSUME IInv, PushPublish
  PROVE  /\ pushes + 1 \in Items /\ APopping = "no" /\ AItems' = Append(AItems, pushes + 1)
         /\ UNCHANGED <<top, AMark, AGot, APopping, popped>>
<1>1. /\ LiveEnd = ob /\ LiveEnd' = ob + 1 /\ Slot(Current, ob) = pushes + 1
      /\ pushes + 1 \in Items /\ top' = top
  BY RefineTypes, MaxPushesAssumption DEF PushPublish, OwnerReturns, LiveEnd, IInv, TypeInv,
     WindowInv, Pushing, Items
<1>2. AItems' = Window(Current, top, LiveEnd + 1)
  BY <1>1, ArraysKept DEF PushPublish, AItems
<1>3. AItems' = Append(AItems, pushes + 1)
  <2>1. PICK arr \in Arrays, lo \in Nat, hi \in Nat : arr = Current /\ lo = top /\ hi = LiveEnd
    BY RefineTypes
  <2>2. /\ lo <= hi /\ AItems = Window(arr, lo, hi) /\ AItems' = Window(arr, lo, hi + 1)
        /\ Slot(arr, hi) = pushes + 1
    BY <1>1, <1>2, <2>1, RefineTypes DEF AItems
  <2> QED BY <2>2, WindowAppend
<1> QED BY <1>1, <1>3 DEF PushPublish, OwnerReturns, thiefVars, AMark, AGot, APopping

LEMMA RefinePopTail ==
  ASSUME IInv, EmptyHanded, PopTail
  PROVE  /\ APopping = "trying" /\ Len(AItems) > 1 /\ popped' = AItems[Len(AItems)]
         /\ AItems' = SubSeq(AItems, 1, Len(AItems) - 1) /\ APopping' = "no"
         /\ UNCHANGED <<top, AMark, AGot>>
<1>1. /\ LiveEnd = ob + 1 /\ LiveEnd' = ob /\ top < ob /\ top' = top /\ ob \in Nat
      /\ popped' = Slot(Current, ob)
  BY RefineTypes DEF PopTail, OwnerTakes, OwnerReturns, LiveEnd, IInv, WindowInv, Popping
<1>2. AItems = Window(Current, top, ob + 1) /\ AItems' = Window(Current, top, ob)
  BY <1>1, ArraysKept DEF PopTail, AItems
<1>3. Len(AItems) > 1
  <2>1. PICK arr \in Arrays, lo \in Nat, hi \in Nat : arr = Current /\ lo = top /\ hi = LiveEnd
    BY RefineTypes
  <2>2. lo <= hi /\ AItems = Window(arr, lo, hi) /\ hi - lo > 1
    BY <1>1, <2>1, RefineTypes DEF AItems
  <2> QED BY <2>2, WindowSeq
<1>4. AItems[Len(AItems)] = Slot(Current, ob) /\ AItems' = SubSeq(AItems, 1, Len(AItems) - 1)
  <2>1. PICK arr \in Arrays, lo \in Nat, hi \in Nat : arr = Current /\ lo = top /\ hi = ob
    BY <1>1, RefineTypes
  <2>2. /\ lo <= hi /\ AItems = Window(arr, lo, hi + 1) /\ AItems' = Window(arr, lo, hi)
        /\ Slot(arr, hi) = Slot(Current, ob)
    BY <1>1, <1>2, <2>1
  <2> QED BY <2>2, WindowFront
<1> QED BY <1>1, <1>3, <1>4 DEF PopTail, OwnerReturns, thiefVars, AMark, AGot, APopping

LEMMA RefinePopLast ==
  ASSUME IInv, EmptyHanded, PopCas, top = ot
  PROVE  /\ APopping = "trying" /\ Len(AItems) = 1 /\ popped' = Head(AItems)
         /\ AItems' = <<>> /\ top' = top + 1 /\ APopping' = "took"
         /\ UNCHANGED <<AMark, AGot>>
<1>1. /\ LiveEnd = top + 1 /\ LiveEnd' = top + 1 /\ top' = top + 1 /\ ob = top
      /\ popped' = Slot(Current, ob)
  BY RefineTypes DEF PopCas, OwnerTakes, LiveEnd, IInv, WindowInv, Popping
<1>2. AItems' = <<>>
  BY <1>1, RefineTypes, WindowEmpty DEF AItems
<1>3. Len(AItems) = 1 /\ Head(AItems) = Slot(Current, top)
  <2>1. PICK arr \in Arrays, lo \in Nat, hi \in Nat : arr = Current /\ lo = top /\ hi = LiveEnd
    BY RefineTypes
  <2>2. /\ lo < hi /\ lo <= hi /\ AItems = Window(arr, lo, hi) /\ hi - lo = 1
        /\ Slot(arr, lo) = Slot(Current, top)
    BY <1>1, <2>1, RefineTypes DEF AItems
  <2>3. Len(AItems) = 1
    BY <2>2, WindowSeq
  <2>4. Head(AItems) = Slot(Current, top)
    BY <2>2, WindowTail
  <2> QED BY <2>3, <2>4
<1>4. popped' # NoItem
  <2>1. top \in Live
    BY <1>1, RefineTypes DEF Live
  <2>2. Slot(Current, top) \in Items
    BY <2>1, LiveItems
  <2> QED BY <1>1, <2>2 DEF Items, NoItem
<1> QED BY <1>1, <1>2, <1>3, <1>4 DEF PopCas, thiefVars, AMark, AGot, APopping

LEMMA RefineEndPop ==
  ASSUME IInv, PopRestore
  PROVE  /\ APopping = "took" \/ (APopping = "trying" /\ AItems = <<>>)
         /\ APopping' = "no"
         /\ UNCHANGED <<AItems, top, AMark, AGot, popped>>
<1>1. LiveEnd = top /\ LiveEnd' = LiveEnd /\ top' = top
  BY RefineTypes DEF PopRestore, OwnerReturns, LiveEnd, IInv, WindowInv, Popping
<1>2. AItems = <<>>
  BY <1>1, RefineTypes, WindowEmpty DEF AItems
<1>3. AItems' = AItems
  BY <1>1, ArraysKept DEF PopRestore, AItems
<1> QED BY <1>1, <1>2, <1>3 DEF PopRestore, OwnerReturns, thiefVars, AMark, AGot, APopping

\* A step of the owner that the callers cannot see.
LEMMA RefineOwnerHidden ==
  ASSUME IInv, EmptyHanded,
         PushBegin \/ PushGrow \/ PushStore \/ PopLoadTop \/ (PopCas /\ top # ot)
  PROVE  UNCHANGED AVars
<1>1. UNCHANGED <<top, popped, thiefVars, LiveEnd>>
  BY RefineTypes DEF PushBegin, PushGrow, PushStore, PopLoadTop, PopCas, LiveEnd, IInv, WindowInv,
     Popping
<1>2. UNCHANGED APopping
  BY <1>1 DEF PushBegin, PushGrow, PushStore, PopLoadTop, PopCas, APopping, EmptyHanded
<1>3. UNCHANGED AItems
  <2>1. \A i \in Live : Slot(Current', i) = Slot(Current, i)
    <3>1. CASE PushGrow
      BY <3>1, GrowKeeps DEF Slot
    <3>2. CASE PushStore
      BY <3>2, StoreKeeps DEF Slot
    <3>3. CASE ~PushGrow /\ ~PushStore
      BY <3>3, ArraysKept DEF PushBegin, PopLoadTop, PopCas
    <3> QED BY <3>1, <3>2, <3>3
  <2>2. Window(Current', top, LiveEnd) = Window(Current, top, LiveEnd)
    BY <2>1, RefineTypes, WindowSame DEF Live
  <2> QED BY <1>1, <2>2 DEF AItems
<1> QED BY <1>1, <1>2, <1>3 DEF AVars, AMark, AGot, thiefVars

\* A step of a thief leaves the owner and the array alone.
LEMMA RefineThiefKeeps ==
  ASSUME NEW p \in Thieves, Thief(p)
  PROVE  /\ UNCHANGED <<Current, LiveEnd, APopping, popped>>
         /\ top' = top => UNCHANGED AItems
<1>1. UNCHANGED <<bottom, arrays, ownerVars>>
  BY DEF Thief, StealLoadTop, StealLoadBottom, StealLoadArray, StealLoadSlot, StealCas,
     QueryLoadBottom, QueryLoadTop
<1> QED BY <1>1, ArraysKept DEF ownerVars, LiveEnd, APopping, AItems

LEMMA RefineBeginSteal ==
  ASSUME IInv, NEW p \in Thieves, StealLoadTop(p)
  PROVE  /\ AMark[p] = -1 /\ AMark' = [AMark EXCEPT ![p] = top]
         /\ AGot' = [AGot EXCEPT ![p] = NoItem] /\ UNCHANGED top
  BY RefineTypes DEF StealLoadTop, AMark, AGot

\* A thief gives up when the queue is empty, when _top has moved, or when pop()
\* holds the only item back.
LEMMA RefineFailSteal ==
  ASSUME IInv, EmptyHanded, NEW p \in Thieves,
         \/ StealLoadBottom(p) /\ t[p] >= bottom
         \/ StealCas(p) /\ t[p] # top
  PROVE  /\ AMark[p] # -1
         /\ AMark[p] # top \/ AItems = <<>> \/ (Len(AItems) = 1 /\ APopping = "trying")
         /\ AMark' = [AMark EXCEPT ![p] = -1]
         /\ UNCHANGED <<top, AGot>>
<1>1. AMark[p] = t[p] /\ t[p] \in Nat /\ t[p] <= top
  BY RefineTypes DEF StealLoadBottom, StealCas, AMark, IInv, ThiefInv
<1>2. AMark' = [AMark EXCEPT ![p] = -1] /\ top' = top
  <2>1. pc' = [pc EXCEPT ![p] = "idle"] /\ t' = [t EXCEPT ![p] = 0] /\ top' = top
    <3>1. CASE StealLoadBottom(p) /\ t[p] >= bottom
      BY <3>1, RefineTypes DEF StealLoadBottom, Return
    <3>2. CASE StealCas(p) /\ t[p] # top
      BY <3>2 DEF StealCas, Return
    <3> QED BY <3>1, <3>2
  <2> QED BY <2>1, RefineTypes DEF AMark
<1>3. AGot' = AGot
  <2>1. CASE StealLoadBottom(p) /\ t[p] >= bottom
    BY <2>1, RefineTypes DEF StealLoadBottom, Return, AGot
  <2>2. CASE StealCas(p) /\ t[p] # top
    BY <2>2, RefineTypes DEF StealCas, Return, AGot
  <2> QED BY <2>1, <2>2
<1>4. CASE t[p] = top /\ LiveEnd = top
  <2>1. AItems = <<>>
    BY <1>4, RefineTypes, WindowEmpty DEF AItems
  <2> QED BY <1>1, <1>2, <1>3, <2>1
<1>5. CASE t[p] = top /\ LiveEnd # top
  <2>1. top >= bottom
    BY <1>5 DEF StealCas
  <2>2. LiveEnd = top + 1 /\ bottom = top /\ opc \in {"pop_load", "pop_cas"}
    BY <1>5, <2>1, RefineTypes DEF LiveEnd, IInv, WindowInv, Popping
  <2>3. APopping = "trying"
    BY <2>2 DEF APopping
  <2>4. Len(AItems) = 1
    <3>1. PICK arr \in Arrays, lo \in Nat, hi \in Nat :
             arr = Current /\ lo = top /\ hi = LiveEnd
      BY RefineTypes
    <3>2. lo <= hi /\ AItems = Window(arr, lo, hi) /\ hi - lo = 1
      BY <2>2, <3>1, RefineTypes DEF AItems
    <3> QED BY <3>2, WindowSeq
  <2> QED BY <1>1, <1>2, <1>3, <2>3, <2>4
<1> QED BY <1>1, <1>2, <1>3, <1>4, <1>5

LEMMA RefineSteal ==
  ASSUME IInv, NEW p \in Thieves, StealCas(p), t[p] = top
  PROVE  /\ AMark[p] = top /\ AItems # <<>> /\ AItems' = Tail(AItems) /\ top' = top + 1
         /\ AMark' = [AMark EXCEPT ![p] = -1]
         /\ AGot' = [AGot EXCEPT ![p] = Head(AItems)]
<1>1. top < LiveEnd /\ item[p] = Slot(Current, top) /\ top' = top + 1 /\ item' = item
  BY DEF StealCas, IInv, ThiefInv, Racing
<1>2. AMark[p] = top /\ AMark' = [AMark EXCEPT ![p] = -1]
  BY RefineTypes DEF StealCas, Return, AMark
<1>3. AGot' = [AGot EXCEPT ![p] = item[p]]
  BY <1>1, RefineTypes DEF StealCas, Return, AGot
<1>4. UNCHANGED <<Current, LiveEnd>>
  BY RefineThiefKeeps DEF Thief
<1>5. PICK arr \in Arrays, lo \in Nat, hi \in Nat : arr = Current /\ lo = top /\ hi = LiveEnd
  BY RefineTypes
<1>6. /\ lo < hi /\ AItems = Window(arr, lo, hi) /\ AItems' = Window(arr, lo + 1, hi)
      /\ item[p] = Slot(arr, lo)
  BY <1>1, <1>4, <1>5 DEF AItems
<1>7. AItems # <<>> /\ Head(AItems) = item[p] /\ AItems' = Tail(AItems)
  BY <1>6, WindowTail
<1> QED BY <1>1, <1>2, <1>3, <1>7

\* A step of a thief that the callers cannot see.
LEMMA RefineThiefHidden ==
  ASSUME IInv, EmptyHanded, NEW p \in Thieves,
         \/ StealLoadBottom(p) /\ t[p] < bottom
         \/ StealLoadArray(p) \/ StealLoadSlot(p) \/ QueryLoadBottom(p) \/ QueryLoadTop(p)
  PROVE  UNCHANGED AVars
<1>1. UNCHANGED top /\ Thief(p)
  BY DEF StealLoadBottom, StealLoadArray, StealLoadSlot, QueryLoadBottom, QueryLoadTop, Thief
<1>2. AMark' = AMark
  BY RefineTypes DEF StealLoadBottom, StealLoadArray, StealLoadSlot, QueryLoadBottom, QueryLoadTop,
     Return, AMark
<1>3. AGot' = AGot
  BY RefineTypes DEF StealLoadBottom, StealLoadArray, StealLoadSlot, QueryLoadBottom, QueryLoadTop,
     Return, AGot, EmptyHanded
<1> QED BY <1>1, <1>2, <1>3, RefineThiefKeeps DEF AVars

\* Every step is a step of the abstract queue, or none that its callers can see.
LEMMA RefineStep ==
  ASSUME IInv, EmptyHanded, [Next]_vars PROVE [Abstract!ANext]_(Abstract!avars)
<1>0. AVars = Abstract!avars
  BY DEF AVars, AItems, AMark, AGot, APopping, Window, Abstract!avars
<1>00. AVars' = (Abstract!avars)'
  BY DEF AVars, AItems, AMark, AGot, APopping, Window, Abstract!avars
<1>h. ASSUME UNCHANGED AVars PROVE [Abstract!ANext]_(Abstract!avars)
  BY <1>h, <1>0, <1>00
<1>1. CASE PushPublish
  <2>1. Abstract!Push(pushes + 1) /\ UNCHANGED <<APopping, popped>>
    BY <1>1, RefinePush DEF Abstract!Push, AItems, AMark, AGot, APopping, Window
  <2> QED BY <1>1, <2>1, RefinePush DEF Abstract!ANext, APopping
<1>2. CASE PopReserve
  <2>1. LiveEnd' = LiveEnd /\ UNCHANGED <<top, thiefVars>> /\ Current' = Current
    BY <1>2, RefineTypes, ArraysKept DEF PopReserve, LiveEnd
  <2>2. UNCHANGED <<AItems, top, AMark, AGot>>
    BY <2>1 DEF AItems, AMark, AGot, thiefVars
  <2>3. APopping = "no" /\ APopping' = "trying" /\ popped' = NoItem
    BY <1>2 DEF PopReserve, APopping
  <2>4. Abstract!BeginPop
    BY <2>2, <2>3 DEF Abstract!BeginPop, AItems, AMark, AGot, APopping, Window
  <2> QED BY <2>4 DEF Abstract!ANext
<1>3. CASE PopTail
  <2>1. Abstract!PopTail
    BY <1>3, RefinePopTail DEF Abstract!PopTail, AItems, AMark, AGot, APopping, Window
  <2> QED BY <2>1 DEF Abstract!ANext
<1>4. CASE PopCas /\ top = ot
  <2>1. Abstract!PopLast
    BY <1>4, RefinePopLast DEF Abstract!PopLast, AItems, AMark, AGot, APopping, Window
  <2> QED BY <2>1 DEF Abstract!ANext
<1>5. CASE PopRestore
  <2>1. Abstract!EndPop
    BY <1>5, RefineEndPop DEF Abstract!EndPop, AItems, AMark, AGot, APopping, Window
  <2> QED BY <2>1 DEF Abstract!ANext
<1>6. CASE PushBegin \/ PushGrow \/ PushStore \/ PopLoadTop \/ (PopCas /\ top # ot)
  BY <1>6, <1>h, RefineOwnerHidden
<1>7. ASSUME NEW p \in Thieves, Thief(p) PROVE [Abstract!ANext]_(Abstract!avars)
  <2>0. UNCHANGED <<APopping, popped>> /\ (top' = top => UNCHANGED AItems)
    BY <1>7, RefineThiefKeeps
  <2>1. CASE StealLoadTop(p)
    <3>1. Abstract!BeginSteal(p)
      BY <2>0, <2>1, RefineBeginSteal
         DEF Abstract!BeginSteal, Abstract!NotStealing, AItems, AMark, AGot, APopping, Window
    <3> QED BY <2>0, <3>1 DEF Abstract!ANext, APopping
  <2>2. CASE (StealLoadBottom(p) /\ t[p] >= bottom) \/ (StealCas(p) /\ t[p] # top)
    <3>1. Abstract!FailSteal(p)
      BY <2>0, <2>2, RefineFailSteal
         DEF Abstract!FailSteal, Abstract!NotStealing, AItems, AMark, AGot, APopping, Window
    <3> QED BY <2>0, <3>1 DEF Abstract!ANext, APopping
  <2>3. CASE StealCas(p) /\ t[p] = top
    <3>1. Abstract!Steal(p)
      BY <2>0, <2>3, RefineSteal
         DEF Abstract!Steal, Abstract!NotStealing, AItems, AMark, AGot, APopping, Window
    <3> QED BY <2>0, <3>1 DEF Abstract!ANext, APopping
  <2>4. CASE \/ StealLoadBottom(p) /\ t[p] < bottom
             \/ StealLoadArray(p) \/ StealLoadSlot(p) \/ QueryLoadBottom(p) \/ QueryLoadTop(p)
    BY <1>h, <2>4, RefineThiefHidden
  <2> QED BY <1>7, <2>1, <2>2, <2>3, <2>4 DEF Thief, StealLoadBottom
<1>8. CASE UNCHANGED vars
  <2>1. UNCHANGED AVars
    BY <1>8, ArraysKept DEF vars, ownerVars, thiefVars, AVars, AItems, AMark, AGot, APopping, LiveEnd
  <2> QED BY <2>1, <1>h
<1> QED BY <1>1, <1>2, <1>3, <1>4, <1>5, <1>6, <1>7, <1>8 DEF Next, Owner

\* The queue of arrays, indices, loads, stores and compare-and-swaps is the
\* abstract queue, in which every push, pop and steal happens at one instant.
THEOREM QueueIsLinearizable == Spec => ImplementsAbstract
<1>1. Init => Abstract!AInit /\ EmptyHanded
  <2> SUFFICES ASSUME Init PROVE Abstract!AInit /\ EmptyHanded
    OBVIOUS
  <2>1. LiveEnd = 0 /\ top = 0
    BY DEF Init, LiveEnd
  <2>2. AItems = <<>>
    BY <2>1, WindowEmpty DEF AItems
  <2>3. AMark = [p \in Thieves |-> -1] /\ AGot = [p \in Thieves |-> NoItem] /\ APopping = "no"
    BY DEF Init, AMark, AGot, APopping
  <2>4. Abstract!AInit
    BY <2>1, <2>2, <2>3
       DEF Init, Abstract!AInit, Abstract!NotStealing, AItems, AMark, AGot, APopping, Window
  <2> QED BY <2>4 DEF Init, EmptyHanded
<1>2. IInv /\ EmptyHanded /\ [Next]_vars => EmptyHanded'
  BY EmptyHandedStep
<1>3. IInv /\ EmptyHanded /\ [Next]_vars => [Abstract!ANext]_(Abstract!avars)
  BY RefineStep
<1> QED BY <1>1, <1>2, <1>3, Inductive, PTL DEF Spec, ImplementsAbstract, Abstract!ASpec

-------------------------------------------------------------------------------
(* What empty() and size() answer.                                         *)

\* From the load of _bottom on, the answer that the load of _top would give is no
\* larger than the queue has been: the load noted a size, and _top only grows.
MostInv ==
    \A p \in Thieves :
        most[p] \in Nat /\ (Asking(p) => b[p] - top <= most[p])

LEMMA TopOnlyGrows == ASSUME IInv, [Next]_vars PROVE top' \in Nat /\ top <= top'
<1>1. top \in Nat
  BY DEF IInv, TypeInv
<1>2. CASE Owner
  BY <1>1, <1>2 DEF Owner, PushBegin, PushGrow, PushStore, PushPublish,
     PopReserve, PopTail, PopLoadTop, PopCas, PopRestore
<1>3. ASSUME NEW p \in Thieves, Thief(p) PROVE top' = top \/ top' = top + 1
  BY <1>3 DEF Thief, StealLoadTop, StealLoadBottom, StealLoadArray, StealLoadSlot, StealCas,
     QueryLoadBottom, QueryLoadTop
<1>4. CASE UNCHANGED vars
  BY <1>1, <1>4 DEF vars
<1> QED BY <1>1, <1>2, <1>3, <1>4 DEF Next

\* A call that goes on has its local b; one that begins has just loaded it.
LEMMA AskingStep ==
  ASSUME IInv, Next, NEW p \in Thieves, Asking(p)'
  PROVE  (Asking(p) /\ b'[p] = b[p]) \/ (~Asking(p) /\ b'[p] = bottom')
<1> USE DEF IInv, TypeInv, Asking
<1>1. CASE Owner
  BY <1>1 DEF Owner, PushBegin, PushGrow, PushStore, PushPublish,
     PopReserve, PopTail, PopLoadTop, PopCas, PopRestore, thiefVars
<1>2. ASSUME NEW q \in Thieves, Thief(q), q # p
      PROVE  Asking(p) /\ b'[p] = b[p]
  BY <1>2 DEF Thief, StealLoadTop, StealLoadBottom, StealLoadArray, StealLoadSlot, StealCas,
     QueryLoadBottom, QueryLoadTop, Return
<1>3. CASE Thief(p)
  BY <1>3 DEF Thief, StealLoadTop, StealLoadBottom, StealLoadArray, StealLoadSlot, StealCas,
     QueryLoadBottom, QueryLoadTop, Return
<1> QED BY <1>1, <1>2, <1>3 DEF Next

LEMMA MostStep == ASSUME IInv, IInv', MostInv, [HNext]_hvars PROVE MostInv'
<1>1. CASE UNCHANGED hvars
  BY <1>1 DEF hvars, vars, thiefVars, MostInv, Asking
<1>2. CASE HNext
  <2>1. top \in Nat /\ top' \in Nat /\ top <= top' /\ bottom' \in Int
    BY <1>2, TopOnlyGrows DEF HNext, IInv, TypeInv
  <2>2. Size' \in Nat /\ bottom' - top' <= Size'
    <3>1. \A bot \in Int, hd \in Nat :
            LET size == IF bot > hd THEN bot - hd ELSE 0 IN size \in Nat /\ bot - hd <= size
      OBVIOUS
    <3> QED BY ONLY <2>1, <3>1, Zenon DEF Size
  <2> SUFFICES ASSUME NEW p \in Thieves
               PROVE  most'[p] \in Nat /\ (Asking(p)' => b'[p] - top' <= most'[p])
    BY DEF MostInv
  <2>3. most'[p] = IF ~Asking(p)' THEN 0
                   ELSE IF Asking(p) /\ most[p] > Size' THEN most[p] ELSE Size'
    BY <1>2 DEF HNext
  <2>4. most[p] \in Nat /\ b[p] \in Int
    BY DEF MostInv, IInv, TypeInv
  <2>5. CASE ~Asking(p)'
    BY <2>3, <2>5
  <2>6. CASE Asking(p)' /\ Asking(p)
    <3>1. b'[p] = b[p] /\ b[p] - top <= most[p]
      BY <1>2, <2>6, AskingStep DEF HNext, MostInv
    <3>2. most'[p] \in Nat /\ most[p] <= most'[p]
      BY <2>2, <2>3, <2>4, <2>6
    <3> QED BY <2>1, <2>4, <3>1, <3>2
  <2>7. CASE Asking(p)' /\ ~Asking(p)
    <3>1. b'[p] = bottom' /\ most'[p] = Size'
      BY <1>2, <2>3, <2>7, AskingStep DEF HNext
    <3> QED BY <2>2, <3>1
  <2> QED BY <2>5, <2>6, <2>7
<1> QED BY <1>1, <1>2

\* However many pushes, pops and steals come between its two loads, size() never
\* counts more items than the queue has held during the call, and empty() says no
\* only when there has been one.
THEOREM SizeIsNeverOverstated == HSpec => NeverOverstated
<1>1. HInit => MostInv
  <2> SUFFICES ASSUME HInit, NEW p \in Thieves
               PROVE  most[p] \in Nat /\ (Asking(p) => b[p] - top <= most[p])
    BY DEF MostInv
  <2>1. most[p] = 0 /\ pc[p] = "idle"
    BY DEF HInit, Init
  <2> QED BY <2>1 DEF Asking
<1>2. IInv /\ IInv' /\ MostInv /\ [HNext]_hvars => MostInv'
  BY MostStep
<1>3. IInv /\ MostInv =>
        \A p \in Thieves : pc[p] = "query" /\ pc'[p] = "idle" => SizeResult(p) <= most[p]
  BY DEF IInv, TypeInv, MostInv, Asking, SizeResult
<1>4. [HNext]_hvars => [Next]_vars
  BY DEF HNext, hvars
<1>5. HInit => Init
  BY DEF HInit
<1>6. HSpec => Spec
  BY <1>4, <1>5, PTL DEF HSpec, Spec
<1> QED BY <1>1, <1>2, <1>3, <1>6, Inductive, PTL DEF HSpec, NeverOverstated
===============================================================================
