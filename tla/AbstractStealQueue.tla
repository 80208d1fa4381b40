-------------------------- MODULE AbstractStealQueue --------------------------
(***************************************************************************)
(* What base/wsq.h promises to its callers, without arrays, indices or     *)
(* memory operations: one owner pushes and pops at the tail of a queue,    *)
(* any other thread steals from its head.                                  *)
(*                                                                         *)
(*   - push and every successful removal happen at one instant;            *)
(*   - steal hands out the head of the queue, pop its tail;                *)
(*   - pop comes back empty-handed only when the queue is empty;           *)
(*   - steal "can be a nullopt if this operation failed (not necessary     *)
(*     empty)": it may fail when the queue is empty, when another removal  *)
(*     from the head happened since the call began, or when it races with  *)
(*     an owner that is popping the only item left.                        *)
(***************************************************************************)
EXTENDS Integers, Sequences

CONSTANTS Thieves,  \* the threads that steal
          Items,    \* what can be stored
          NoItem    \* std::nullopt

VARIABLES items,    \* the queue, head first
          head,     \* how many items have left at the head
          mark,     \* mark[p] = head when p's steal() began, or NotStealing
          got,      \* got[p] = what p's last steal() returned
          popping,  \* where the owner is in pop(): "no", "trying" or "took"
          popped    \* what the owner's last pop() returned

\* push() and steal() leave the owner's popping and popped alone: ANext says
\* so, and a caller that never pops has no such variables.
avars == <<items, head, mark, got, popping, popped>>

NotStealing == -1

AInit ==
    /\ items = <<>>
    /\ head = 0
    /\ mark = [p \in Thieves |-> NotStealing]
    /\ got = [p \in Thieves |-> NoItem]
    /\ popping = "no"
    /\ popped = NoItem

\* push() takes effect: the item becomes visible to the thieves.
Push(x) ==
    /\ popping = "no"
    /\ items' = Append(items, x)
    /\ UNCHANGED <<head, mark, got>>

BeginSteal(p) ==
    /\ mark[p] = NotStealing
    /\ mark' = [mark EXCEPT ![p] = head]
    /\ got' = [got EXCEPT ![p] = NoItem]
    /\ UNCHANGED <<items, head>>

\* A steal succeeds when nothing left at the head since it began.
Steal(p) ==
    /\ mark[p] = head
    /\ items # <<>>
    /\ items' = Tail(items)
    /\ head' = head + 1
    /\ mark' = [mark EXCEPT ![p] = NotStealing]
    /\ got' = [got EXCEPT ![p] = Head(items)]

FailSteal(p) ==
    /\ mark[p] # NotStealing
    /\ \/ mark[p] # head
       \/ items = <<>>
       \/ Len(items) = 1 /\ popping = "trying"
    /\ mark' = [mark EXCEPT ![p] = NotStealing]
    /\ UNCHANGED <<items, head, got>>

BeginPop ==
    /\ popping = "no"
    /\ popping' = "trying"
    /\ popped' = NoItem
    /\ UNCHANGED <<items, head, mark, got>>

\* The owner takes the tail of a queue of two items or more.
PopTail ==
    /\ popping = "trying"
    /\ Len(items) > 1
    /\ popped' = items[Len(items)]
    /\ items' = SubSeq(items, 1, Len(items) - 1)
    /\ popping' = "no"
    /\ UNCHANGED <<head, mark, got>>

\* The owner takes the only item: to the thieves it left at the head.
PopLast ==
    /\ popping = "trying"
    /\ Len(items) = 1
    /\ popped' = Head(items)
    /\ items' = <<>>
    /\ head' = head + 1
    /\ popping' = "took"
    /\ UNCHANGED <<mark, got>>

EndPop ==
    /\ \/ popping = "took"
       \/ popping = "trying" /\ items = <<>>
    /\ popping' = "no"
    /\ UNCHANGED <<items, head, mark, got, popped>>

ANext ==
    \/ /\ \/ \E x \in Items : Push(x)
          \/ \E p \in Thieves : BeginSteal(p) \/ Steal(p) \/ FailSteal(p)
       /\ UNCHANGED <<popping, popped>>
    \/ BeginPop \/ PopTail \/ PopLast \/ EndPop

ASpec == AInit /\ [][ANext]_avars
===============================================================================
