-------------------------- MODULE InputHIDDeviceProofs --------------------------
(***************************************************************************)
(* Proofs about InputHIDDevice: its safety invariants hold for any number  *)
(* of starts.                                                              *)
(***************************************************************************)
EXTENDS InputHIDDevice, TLAPS

Stopping == {"stop_cancel", "stop_join", "destroy_cancel", "destroy_join"}
Joining == {"stop_join", "destroy_join"}

\* A thread has been started, and the transfer has a thread.
ThreadInv ==
    /\ reader # None => starts >= 1
    /\ flying => reader # None
    /\ reader \in {"callback", "test", "resubmit"} => ~flying
    /\ reader = "submit" /\ flying => starts > 1

\* Who has cleared is_running: the owner, until it has joined, or the thread
\* itself, and then no completion can be on its way to the callback.
StopInv ==
    /\ owner = "new" => ~unplugged /\ reader = None
    /\ owner \in Stopping \cup {"free", "destroyed"} => ~is_running
    /\ stopped => ~is_running /\ owner \notin Stopping
    /\ ~is_running /\ owner \notin Stopping /\ reader \notin {None, "exited", "cancel"} =>
          reader \in {"test", "handle", "loop"} /\ ~flying

\* Why: only StopReadInput() cancels a transfer whose thread is alive, so every
\* other end of the thread is a failure.
BlameInv ==
    /\ unplugged => failed
    /\ outcome = "cancelled" => cancelled
    /\ outcome \in {"error", "no_device"} => failed
    /\ status \in {"error", "no_device"} => failed
    /\ status = "cancelled" => owner \in Joining
    /\ reader \in {"loop", "handle", "cancel"} /\ flying /\ cancelled => owner \in Joining
    /\ joinable /\ ~is_running /\ owner \notin Stopping => failed \/ starts > 1

\* The inductive invariant.
IInv ==
    /\ TypeOK /\ ThreadInv /\ StopInv /\ BlameInv
    /\ ReaderIsFed /\ OrphanIsCancelled /\ OneRunIsSafe
LEMMA InitIInv == Init => IInv
<1> SUFFICES ASSUME Init
             PROVE  IInv
  OBVIOUS
<1>1. TypeOK
  <2>1. starts \in 0..MaxStarts
    BY MaxStartsAssumption DEF Init
  <2> QED
    BY <2>1 DEF Init, TypeOK, None, Statuses, OwnerPcs, ReaderPcs
<1>2. ThreadInv /\ ReaderIsFed /\ OrphanIsCancelled /\ OneRunIsSafe
  BY DEF Init, ThreadInv, ReaderIsFed, OrphanIsCancelled, OneRunIsSafe, None
<1>3. StopInv /\ BlameInv
  BY DEF Init, StopInv, BlameInv, None, Stopping, Joining
<1> QED
  BY <1>1, <1>2, <1>3 DEF IInv

\* Every step keeps the inductive invariant.
LEMMA StepIInv == IInv /\ [Next]_vars => IInv'
<1> SUFFICES ASSUME IInv, [Next]_vars
             PROVE  IInv'
  OBVIOUS
<1> USE MaxStartsAssumption
    DEF IInv, TypeOK, ThreadInv, StopInv, BlameInv, ReaderIsFed, OrphanIsCancelled,
        OneRunIsSafe, None, Statuses, Fatal, OwnerPcs, ReaderPcs, Stopping, Joining,
        vars, threadVars, usbVars
<1>1. CASE ~terminated /\ Open
  BY <1>1 DEF Open
<1>2. CASE ~terminated /\ StartReadInput
  <2>1. TypeOK'
    <3>1. starts' \in 0..MaxStarts
      BY <1>2 DEF StartReadInput
    <3>2. terminated' \in BOOLEAN /\ joinable' \in BOOLEAN /\ reader' \in ReaderPcs
      BY <1>2 DEF StartReadInput
    <3>3. (reader \notin {None, "exited"} => joinable)' /\ (joinable => reader # None)'
      BY <1>2 DEF StartReadInput
    <3> QED
      <4>1. starts' \in 0..MaxStarts /\ is_running' \in BOOLEAN /\ stopped' \in BOOLEAN
        BY <1>2, <3>1 DEF StartReadInput
      <4>2. (status # None <=> reader = "callback")' /\ (outcome # None => flying)'
        BY <1>2 DEF StartReadInput
      <4>3. UNCHANGED <<owner, allocated, status, usbVars, failed>>
        BY <1>2 DEF StartReadInput
      <4> QED
        BY <3>2, <3>3, <4>1, <4>2, <4>3
  <2>2. ThreadInv'
    BY <1>2 DEF StartReadInput
  <2>3. StopInv'
    BY <1>2 DEF StartReadInput
  <2>4. BlameInv'
    BY <1>2 DEF StartReadInput
  <2>5. (ReaderIsFed /\ OrphanIsCancelled /\ OneRunIsSafe)'
    BY <1>2 DEF StartReadInput
  <2> QED
    BY <2>1, <2>2, <2>3, <2>4, <2>5
<1>3. CASE ~terminated /\ StopNothing
  BY <1>3 DEF StopNothing
<1>4. CASE ~terminated /\ StopReadInput
  <2>1. TypeOK'
    BY <1>4 DEF StopReadInput
  <2>2. ThreadInv'
    BY <1>4 DEF StopReadInput
  <2>3. StopInv'
    BY <1>4 DEF StopReadInput
  <2>4. BlameInv'
    BY <1>4 DEF StopReadInput
  <2>5. (ReaderIsFed /\ OrphanIsCancelled /\ OneRunIsSafe)'
    BY <1>4 DEF StopReadInput
  <2> QED
    BY <2>1, <2>2, <2>3, <2>4, <2>5
<1>5. CASE ~terminated /\ StopCancel
  BY <1>5 DEF StopCancel, Cancel
<1>6. CASE ~terminated /\ StopJoin
  BY <1>6 DEF StopJoin
<1>7. CASE ~terminated /\ Destroy
  BY <1>7 DEF Destroy
<1>8. CASE ~terminated /\ Free
  BY <1>8 DEF Free
<1>9. CASE ~terminated /\ FirstSubmit
  <2>1. TypeOK'
    <3>1. CASE Goto("submit", "loop") /\ Submit
      <4>1. terminated' \in BOOLEAN /\ failed' \in BOOLEAN
        BY <1>9 DEF FirstSubmit
      <4>2. (reader \notin {None, "exited"} => joinable)' /\ (joinable => reader # None)'
        BY <1>9, <3>1 DEF FirstSubmit, Goto
      <4>3. (outcome # None => flying)' /\ (status # None <=> reader = "callback")'
        BY <1>9, <3>1 DEF FirstSubmit, Submit, Goto
      <4> QED
        BY <1>9, <3>1, <4>1, <4>2, <4>3 DEF FirstSubmit, Submit, Goto
    <3>2. CASE UNCHANGED <<threadVars, usbVars>>
      <4>1. terminated' \in BOOLEAN /\ failed' \in BOOLEAN
        BY <1>9 DEF FirstSubmit
      <4> QED
        BY <1>9, <3>2, <4>1 DEF FirstSubmit, Goto
    <3> QED
      BY <1>9, <3>1, <3>2 DEF FirstSubmit
  <2>2. ThreadInv'
    BY <1>9 DEF FirstSubmit, Submit, CanSubmit, Goto
  <2>3. StopInv'
    BY <1>9 DEF FirstSubmit, Submit, CanSubmit, Goto
  <2>4. BlameInv'
    BY <1>9 DEF FirstSubmit, Submit, CanSubmit, Goto
  <2>5. (ReaderIsFed /\ OrphanIsCancelled /\ OneRunIsSafe)'
    BY <1>9 DEF FirstSubmit, Submit, CanSubmit, Goto
  <2> QED
    BY <2>1, <2>2, <2>3, <2>4, <2>5
<1>10. CASE ~terminated /\ LoopTest
  BY <1>10 DEF LoopTest, Goto
<1>11. CASE ~terminated /\ Reap
  BY <1>11 DEF Reap, Goto
<1>12. CASE ~terminated /\ HandleReturns
  BY <1>12 DEF HandleReturns, Goto
<1>13. CASE ~terminated /\ HandleFails
  BY <1>13 DEF HandleFails, Goto
<1>14. CASE ~terminated /\ Callback
  BY <1>14 DEF Callback, Goto
<1>15. CASE ~terminated /\ CallbackTest
  BY <1>15 DEF CallbackTest, Goto
<1>16. CASE ~terminated /\ Resubmit
  <2>1. TypeOK'
    BY <1>16 DEF Resubmit, Submit, CanSubmit, Goto
  <2>2. ThreadInv'
    BY <1>16 DEF Resubmit, Submit, CanSubmit, Goto
  <2>3. StopInv'
    BY <1>16 DEF Resubmit, Submit, CanSubmit, Goto
  <2>4. BlameInv'
    BY <1>16 DEF Resubmit, Submit, CanSubmit, Goto
  <2>5. (ReaderIsFed /\ OrphanIsCancelled /\ OneRunIsSafe)'
    BY <1>16 DEF Resubmit, Submit, CanSubmit, Goto
  <2> QED
    BY <2>1, <2>2, <2>3, <2>4, <2>5
<1>17. CASE ~terminated /\ FinalCancel
  BY <1>17 DEF FinalCancel, Cancel, Goto
<1>18. CASE ~terminated /\ Complete
  BY <1>18 DEF Complete
<1>19. CASE ~terminated /\ Unplug
  BY <1>19 DEF Unplug
<1>20. CASE UNCHANGED vars
  BY <1>20
<1> QED
  BY <1>1, <1>2, <1>3, <1>4, <1>5, <1>6, <1>7, <1>8, <1>9, <1>10, <1>11, <1>12, <1>13, <1>14, <1>15, <1>16, <1>17, <1>18, <1>19, <1>20
     DEF Next, OwnerCalls, OwnerContinues, Reader

LEMMA Invariant == Spec => []IInv
  BY InitIInv, StepIInv, PTL DEF Spec

\* The state has its types.
THEOREM TypeCorrect == Spec => []TypeOK
<1>1. IInv => TypeOK
  BY DEF IInv
<1> QED
  BY <1>1, Invariant, PTL

\* The loop of the reader never waits without a transfer in flight.
THEOREM ReaderAlwaysFed == Spec => []ReaderIsFed
<1>1. IInv => ReaderIsFed
  BY DEF IInv
<1> QED
  BY <1>1, Invariant, PTL

\* HandleInput() is not called after StopReadInput() has returned: whoever cleared
\* is_running, no completion is on its way to the callback.
THEOREM StopMeansNoInput == Spec => []NoInputAfterStop
<1>1. IInv => NoInputAfterStop
  BY DEF IInv, TypeOK, StopInv, NoInputAfterStop, None
<1> QED
  BY <1>1, Invariant, PTL

\* A transfer that outlives its thread has been cancelled.
THEOREM OrphansAreCancelled == Spec => []OrphanIsCancelled
<1>1. IInv => OrphanIsCancelled
  BY DEF IInv
<1> QED
  BY <1>1, Invariant, PTL

\* A single run terminates the program only when the device or libusb has failed.
THEOREM SingleRunIsSafe == Spec => []OneRunIsSafe
<1>1. IInv => OneRunIsSafe
  BY DEF IInv
<1> QED
  BY <1>1, Invariant, PTL
===============================================================================
