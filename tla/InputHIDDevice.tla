----------------------------- MODULE InputHIDDevice -----------------------------
(***************************************************************************)
(* core/usb/input_hid_device.cpp: reading the reports of a USB device with *)
(* one libusb interrupt transfer.                                          *)
(*                                                                         *)
(*   the owner    opens the device, starts and stops the reading and at    *)
(*                last destroys the object;                                *)
(*   the reader   is the thread of StartReadInput(): it submits the        *)
(*                transfer, and every completion that libusb_handle_events *)
(*                reaps calls ReadCallback(), which submits it again;      *)
(*   the device   completes a submitted transfer, or is unplugged.         *)
(*                                                                         *)
(* is_running is a plain bool that both threads read and write.  Every     *)
(* read and every write of it is a step of its own, except that the owner  *)
(* tests and writes it in one step: between the two the reader could only  *)
(* clear the flag, which StopReadInput() is about to do and which          *)
(* StartReadInput() has found cleared.                                     *)
(***************************************************************************)
EXTENDS Integers

CONSTANT MaxStarts  \* bound: how often StartReadInput() starts a thread

ASSUME MaxStartsAssumption == MaxStarts \in Nat

VARIABLES
    terminated,  \* an exception has left the thread, or a joinable std::thread was lost
    owner,       \* where the owner is
    allocated,   \* usb_transfer is not null
    is_running,
    joinable,    \* thread.joinable()
    reader,      \* where the thread is
    status,      \* transfer->status, of the completion that ReadCallback() handles
    flying,      \* libusb holds the transfer: submitted and not reaped yet
    cancelled,   \* libusb_cancel_transfer() found it flying
    outcome,     \* the status the device has completed it with, not reaped yet
    unplugged,
    failed,      \* history: the device or a libusb call has failed
    starts,      \* history: how often a thread has been started
    stopped      \* history: StopReadInput() has returned and nothing was started since

threadVars == <<is_running, joinable, reader, status>>
usbVars == <<flying, cancelled, outcome, unplugged>>
vars == <<terminated, owner, allocated, threadVars, usbVars, failed, starts, stopped>>

None == "none"
Fatal == {"error", "cancelled", "no_device"}

\* "other" stands for LIBUSB_TRANSFER_TIMED_OUT, _STALL and _OVERFLOW.
Statuses == {"completed", "other"} \cup Fatal

Init ==
    /\ terminated = FALSE
    /\ owner = "new" /\ allocated = FALSE
    /\ is_running = FALSE /\ joinable = FALSE
    /\ reader = None /\ status = None
    /\ flying = FALSE /\ cancelled = FALSE /\ outcome = None
    /\ unplugged = FALSE
    /\ failed = FALSE /\ starts = 0 /\ stopped = FALSE

-------------------------------------------------------------------------------
(* libusb.                                                                 *)

\* libusb_submit_transfer() puts an idle transfer in flight.
Submit == flying' = TRUE /\ cancelled' = FALSE /\ UNCHANGED <<outcome, unplugged>>

\* It fails when the transfer is in flight already (LIBUSB_ERROR_BUSY) or the
\* device is gone, and may fail for other reasons.
CanSubmit == ~flying /\ ~unplugged

\* libusb_cancel_transfer() asks for a cancellation, which completes later.
Cancel == cancelled' = (cancelled \/ flying) /\ UNCHANGED <<flying, outcome, unplugged>>

\* The device, or the kernel, completes the transfer.
Complete ==
    /\ flying /\ outcome = None
    /\ \E s \in Statuses :
          /\ s = "cancelled" => cancelled
          /\ s = "no_device" => unplugged
          /\ s \in {"completed", "other"} => ~unplugged
          /\ outcome' = s
          /\ failed' = (failed \/ s = "error")
    /\ UNCHANGED <<terminated, owner, allocated, threadVars, flying, cancelled, unplugged,
                   starts, stopped>>

Unplug ==
    /\ owner # "new" /\ ~unplugged
    /\ unplugged' = TRUE
    /\ failed' = TRUE
    /\ UNCHANGED <<terminated, owner, allocated, threadVars, flying, cancelled, outcome,
                   starts, stopped>>

-------------------------------------------------------------------------------
(* The owner.                                                              *)

\* Open() matches a device, claims it, allocates the transfer and reads the
\* descriptors.  It throws at any point; then the object can only be destroyed.
Open ==
    /\ owner = "new"
    /\ \E ok \in BOOLEAN, alloc \in BOOLEAN :
          /\ ok => alloc
          /\ owner' = IF ok THEN "ready" ELSE "destroy"
          /\ allocated' = alloc
          /\ failed' = ~ok
    /\ UNCHANGED <<terminated, threadVars, usbVars, starts, stopped>>

\* Mutant of StartReadInput: the thread is detached at once.
StartDetached ==
    /\ owner = "ready"
    /\ ~is_running
    /\ starts < MaxStarts
    /\ is_running' = TRUE
    /\ starts' = starts + 1
    /\ stopped' = FALSE
    /\ reader' = "submit"
    /\ UNCHANGED <<terminated, joinable, owner, allocated, status, usbVars, failed>>

\* StartReadInput().  Assigning to a joinable std::thread terminates.
StartReadInput ==
    /\ owner = "ready"
    /\ ~is_running
    /\ starts < MaxStarts
    /\ is_running' = TRUE
    /\ starts' = starts + 1
    /\ stopped' = FALSE
    /\ \/ joinable /\ terminated' = TRUE /\ UNCHANGED <<joinable, reader>>
       \/ ~joinable /\ joinable' = TRUE /\ reader' = "submit" /\ UNCHANGED terminated
    /\ UNCHANGED <<owner, allocated, status, usbVars, failed>>

\* StopReadInput(), called by the owner or by the destructor: in line 270 it
\* finds that nothing is running and returns...
StopNothing ==
    /\ owner \in {"ready", "destroy"}
    /\ ~is_running
    /\ stopped' = TRUE
    /\ owner' = IF owner = "destroy" THEN "free" ELSE owner
    /\ UNCHANGED <<terminated, allocated, threadVars, usbVars, failed, starts>>

\* Mutant of StopReadInput: the flag is left to the callback.
StopWithoutFlag ==
    /\ owner \in {"ready", "destroy"}
    /\ is_running
    /\ owner' = IF owner = "destroy" THEN "destroy_cancel" ELSE "stop_cancel"
    /\ UNCHANGED <<terminated, allocated, threadVars, usbVars, failed, starts, stopped>>

\* ...or clears the flag,
StopReadInput ==
    /\ owner \in {"ready", "destroy"}
    /\ is_running
    /\ is_running' = FALSE
    /\ owner' = IF owner = "destroy" THEN "destroy_cancel" ELSE "stop_cancel"
    /\ UNCHANGED <<terminated, allocated, joinable, reader, status, usbVars, failed, starts,
                   stopped>>

\* cancels the transfer, which may not be in flight at this moment,
StopCancel ==
    /\ owner \in {"stop_cancel", "destroy_cancel"}
    /\ owner' = IF owner = "destroy_cancel" THEN "destroy_join" ELSE "stop_join"
    /\ Cancel
    /\ UNCHANGED <<terminated, allocated, threadVars, failed, starts, stopped>>

\* Mutant of StopJoin: the thread is detached.
StopDetach ==
    /\ owner \in {"stop_join", "destroy_join"}
    /\ owner' = IF owner = "destroy_join" THEN "free" ELSE "ready"
    /\ joinable' = FALSE
    /\ stopped' = TRUE
    /\ UNCHANGED <<terminated, allocated, is_running, reader, status, usbVars, failed, starts>>

\* Mutant of StopJoin: nobody joins.
StopNoJoin ==
    /\ owner \in {"stop_join", "destroy_join"}
    /\ reader = "exited"
    /\ owner' = IF owner = "destroy_join" THEN "free" ELSE "ready"
    /\ stopped' = TRUE
    /\ UNCHANGED <<terminated, allocated, threadVars, usbVars, failed, starts>>

\* and joins the thread.
StopJoin ==
    /\ owner \in {"stop_join", "destroy_join"}
    /\ reader = "exited"
    /\ owner' = IF owner = "destroy_join" THEN "free" ELSE "ready"
    /\ joinable' = FALSE
    /\ stopped' = TRUE
    /\ UNCHANGED <<terminated, allocated, is_running, reader, status, usbVars, failed, starts>>

\* The destructor calls StopReadInput() first.
Destroy ==
    /\ owner = "ready"
    /\ owner' = "destroy"
    /\ UNCHANGED <<terminated, allocated, threadVars, usbVars, failed, starts, stopped>>

\* It then frees the transfer and closes the device; the std::thread is
\* destroyed last, and a joinable one terminates.
Free ==
    /\ owner = "free"
    /\ owner' = "destroyed"
    /\ allocated' = FALSE
    /\ terminated' = joinable
    /\ UNCHANGED <<threadVars, usbVars, failed, starts, stopped>>

-------------------------------------------------------------------------------
(* The reader.                                                             *)

Goto(from, to) == reader = from /\ reader' = to

\* The first submission; a failure throws out of the thread.
FirstSubmit ==
    \/ /\ Goto("submit", "loop")
       /\ CanSubmit /\ Submit
       /\ UNCHANGED <<terminated, owner, allocated, is_running, joinable, status, failed,
                      starts, stopped>>
    \/ /\ reader = "submit"
       /\ terminated' = TRUE
       /\ failed' = (failed \/ ~flying)
       /\ UNCHANGED <<owner, allocated, threadVars, usbVars, starts, stopped>>

LoopTest ==
    /\ Goto("loop", IF is_running THEN "handle" ELSE "cancel")
    /\ UNCHANGED <<terminated, owner, allocated, is_running, joinable, status, usbVars, failed,
                   starts, stopped>>

\* libusb_handle_events() reaps a completion and calls ReadCallback()...
Reap ==
    /\ Goto("handle", "callback")
    /\ outcome # None
    /\ status' = outcome
    /\ flying' = FALSE /\ outcome' = None
    /\ UNCHANGED <<terminated, owner, allocated, is_running, joinable, cancelled, unplugged,
                   failed, starts, stopped>>

\* ...returns, at the latest after its own timeout, or with an error that the
\* loop skips...
HandleReturns ==
    /\ Goto("handle", "loop")
    /\ UNCHANGED <<terminated, owner, allocated, is_running, joinable, status, usbVars, failed,
                   starts, stopped>>

\* ...or fails.
HandleFails ==
    /\ Goto("handle", "cancel")
    /\ is_running' = FALSE
    /\ failed' = TRUE
    /\ UNCHANGED <<terminated, owner, allocated, joinable, status, usbVars, starts, stopped>>

\* ReadCallback() hands a completed report to HandleInput(); after a fatal
\* status it clears is_running; any other status is ignored.
Callback ==
    /\ Goto("callback", "test")
    /\ is_running' = (is_running /\ status \notin Fatal)
    /\ status' = None
    /\ UNCHANGED <<terminated, owner, allocated, joinable, usbVars, failed, starts, stopped>>

\* Mutant of CallbackTest: not every completion is submitted again.
CallbackOnce ==
    /\ \/ Goto("test", IF is_running THEN "resubmit" ELSE "handle")
       \/ Goto("test", "handle")
    /\ UNCHANGED <<terminated, owner, allocated, is_running, joinable, status, usbVars, failed,
                   starts, stopped>>

CallbackTest ==
    /\ Goto("test", IF is_running THEN "resubmit" ELSE "handle")
    /\ UNCHANGED <<terminated, owner, allocated, is_running, joinable, status, usbVars, failed,
                   starts, stopped>>

\* Mutant of Resubmit: a failure is ignored.
ResubmitUnchecked ==
    /\ Goto("resubmit", "handle")
    /\ \/ CanSubmit /\ Submit /\ UNCHANGED <<is_running, failed>>
       \/ failed' = TRUE /\ UNCHANGED <<usbVars, is_running>>
    /\ UNCHANGED <<terminated, owner, allocated, joinable, status, starts, stopped>>

Resubmit ==
    /\ Goto("resubmit", "handle")
    /\ \/ CanSubmit /\ Submit /\ UNCHANGED <<is_running, failed>>
       \/ is_running' = FALSE /\ failed' = TRUE /\ UNCHANGED usbVars
    /\ UNCHANGED <<terminated, owner, allocated, joinable, status, starts, stopped>>

\* Mutant of FinalCancel: it is left to StopReadInput().
NoFinalCancel ==
    /\ Goto("cancel", "exited")
    /\ UNCHANGED <<terminated, owner, allocated, is_running, joinable, status, usbVars, failed,
                   starts, stopped>>

\* The thread cancels the transfer and ends, which frees the transfer's buffer.
FinalCancel ==
    /\ Goto("cancel", "exited")
    /\ Cancel
    /\ UNCHANGED <<terminated, owner, allocated, is_running, joinable, status, failed, starts,
                   stopped>>

-------------------------------------------------------------------------------
OwnerCalls ==
    \/ Open \/ StartReadInput \/ Destroy
    \/ owner = "ready" /\ (StopNothing \/ StopReadInput)

OwnerContinues ==
    \/ StopCancel \/ StopJoin \/ Free
    \/ owner = "destroy" /\ (StopNothing \/ StopReadInput)

Reader ==
    \/ FirstSubmit \/ LoopTest \/ Reap \/ HandleReturns \/ HandleFails \/ Callback
    \/ CallbackTest \/ Resubmit \/ FinalCancel

Next == ~terminated /\ (OwnerCalls \/ OwnerContinues \/ Reader \/ Complete \/ Unplug)

Spec == Init /\ [][Next]_vars

\* The scheduler runs both threads and a call, once made, goes on. That includes
\* HandleInput(), which is assumed to return although Core's writes to /dev/hidg0
\* and blocks while the host does not read (proxy_mouse.cpp:16). A call of
\* libusb_handle_events() returns, and when a completion is there to be reaped
\* such calls do not overlook it for ever; the kernel completes the transfer of
\* a device that is gone.
FairSpec ==
    /\ Spec
    /\ WF_vars(~terminated /\ OwnerContinues)
    /\ WF_vars(~terminated /\ Reader)
    /\ SF_vars(~terminated /\ Reap)
    /\ WF_vars(~terminated /\ unplugged /\ Complete)

-------------------------------------------------------------------------------
(* Correctness.                                                            *)

OwnerPcs == {"new", "ready", "stop_cancel", "stop_join", "destroy", "destroy_cancel",
             "destroy_join", "free", "destroyed"}
ReaderPcs == {None, "submit", "loop", "handle", "callback", "test", "resubmit", "cancel",
              "exited"}

\* Every variable has its type, only a transfer in flight completes, a status is
\* there for exactly as long as the callback handles it, and a thread that has not
\* ended is the one that the object can join.
TypeOK ==
    /\ terminated \in BOOLEAN /\ allocated \in BOOLEAN
    /\ owner \in OwnerPcs /\ reader \in ReaderPcs
    /\ is_running \in BOOLEAN /\ joinable \in BOOLEAN
    /\ status \in Statuses \cup {None} /\ outcome \in Statuses \cup {None}
    /\ flying \in BOOLEAN /\ cancelled \in BOOLEAN /\ unplugged \in BOOLEAN
    /\ failed \in BOOLEAN /\ stopped \in BOOLEAN
    /\ starts \in 0..MaxStarts
    /\ outcome # None => flying
    /\ status # None <=> reader = "callback"
    /\ reader \notin {None, "exited"} => joinable
    /\ joinable => reader # None

\* The loop never waits for nothing: as long as it is to run, the transfer is
\* in flight, whatever statuses it has come back with.
ReaderIsFed == ~terminated /\ reader \in {"loop", "handle"} /\ is_running => flying

\* Once StopReadInput() has returned no report reaches HandleInput() any more,
\* although it does not wait for a thread that is ending on its own.
NoInputAfterStop == stopped => ~(reader = "callback" /\ status = "completed")

\* When the thread has ended, and the transfer's buffer with it, a transfer that
\* is still in flight has at least been cancelled: StopReadInput() may cancel
\* while the callback is between its test of is_running and its submission.
OrphanIsCancelled == reader = "exited" /\ flying => cancelled

\* An object that is started once, as Core does, goes through any sequence of
\* calls without terminating the program, unless the device or libusb fails.
OneRunIsSafe == terminated => failed \/ starts > 1

\* StopReadInput(), and with it the destructor, returns.
StopReturns ==
    owner \in {"stop_cancel", "stop_join", "destroy_cancel", "destroy_join"}
        ~> (owner \in {"ready", "free", "destroyed"} \/ terminated)

\* The thread ends after the device has been unplugged.
UnplugEndsReader == unplugged ~> (reader \in {None, "exited"} \/ terminated)
===============================================================================
