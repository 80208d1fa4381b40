# aibox in TLA+

aibox captures video on an RK3588 board, detects targets with its NPU, and
moves a mouse: it stands between a real USB mouse and a host, forwards the
mouse's reports through a USB gadget and injects reports of its own. This
directory holds TLA+ models of that program (`src/source/`), the TLC
configurations that check them on small instances, and proofs that the TLA+
proof system checks for every value of the constants. File names below are
relative to `src/source/`.

## 1. The system

| Component | State | Operations | Talks to |
|---|---|---|---|
| Work-stealing queue, `base/wsq.h` | `_top`, `_bottom`, `_array`, the old arrays | `push`, `pop` by the owner; `steal`, `empty`, `size` by anyone | the capture loop pushes, the workers steal |
| Capture pipeline, `core/aimbot/aimbot_fps.*` | `npu_work_queue`, mutex and condition variable, `stop_requested`, the frame resources, `next_npu_core` | constructor, `LoadModel`, `Run`, `Stop`, destructor; per worker: wait, steal, `TickFrame` | V4L2, the detector, `move_callback` |
| Video capture, `core/video/video_capture.*` | which buffers the driver owns | `Open`, `StartStreaming`, `DequeueBuffer`, `RequeueBuffer`, `StopStreaming` | the kernel |
| Object detector, `core/model/**` | per NPU core: input tensor, quantised outputs, the list of boxes | `Detect`, post-processing, non-maximum suppression | the NPU runtime |
| Input HID device, `core/usb/input_hid_device.*` | `is_running`, the reader thread, one libusb transfer | `Open`, `StartReadInput`, `StopReadInput`, destructor, `ReadCallback` | libusb |
| USB gadget, `core/usb/usb_gadget.*` | the gadget in configfs, which outlives the process | constructor, `Configure`, `CreateGadget`, `CheckExistingGadget`, `GetConfiguredIdentifier` | libusbgx |
| Core, `core/core.cpp`, `app/main.cpp` | where start-up is | `Core`, `Setup`, `Run` | all of the above |
| Output HID device, `core/usb/output_hid_device.*` | a file descriptor | `Open`, `Write`, `Close` | `/dev/hidg0` |
| Proxy mouse and mouse protocol, `core/usb/mouse/*` | one report buffer, the chosen fields | `HandleInput`, `Send`, `Encode`, `Decode` | the reader thread and all workers |
| HID report descriptor parser, `core/usb/hid-parser/{parser,item}.*` | the item stream, global and local state, collections, fields | one handler per item | the mouse protocol |
| HID reports and units, `core/usb/hid-parser/{report,units}.*` | none (pure functions) | extract and insert a bit field, convert units | the mouse protocol |
| PID filter, `base/pid.*` | two floats per axis | `Update` | `TickFrame`, on every worker |
| Static vector, `base/static_vector.h` | an array of raw slots and a size | constructors, assignment, `insert`, `emplace`, `erase`, `resize`, ... | the buttons of a mouse report |

How they interact. `main` constructs `Core`, which constructs the gadget and the
pipeline; the pipeline's constructor starts the workers and opens the camera.
`Core::Run` opens the mouse, configures the gadget, connects the output, starts
the reader thread, loads the model and enters the capture loop. From then on
these threads run: the capture loop (main), the workers (NPU), the USB reader,
and any thread that calls `Stop()`. The capture loop dequeues a buffer, pushes
its index and notifies one worker; a worker steals an index, preprocesses the
frame, requeues the buffer, detects, and calls `move_callback`, which writes a
report. The reader thread writes the real mouse's reports to the same device.

What is hard, and what must hold:

- *The queue.* Owner and thieves race for the last item, a thief holds an array
  the owner has replaced, indices wrap around. Nothing may be lost or handed out
  twice; a removal must take the head or the tail as documented.
- *The pipeline.* `empty()` is asked without the mutex; a notification must not
  be lost. A buffer index travels driver → main → queue → worker → driver and
  must have one owner throughout and come back. The image outlives the buffer's
  ownership, and the NPU resource is a round-robin ticket and no lock. The
  destructor joins with the mutex locked.
- *The reader.* A plain flag shared by two threads, a callback that submits again,
  a cancellation that may come too early, errors that end the thread on its own.
- *The gadget.* Five library calls change a state that survives crashes; restarts must
  neither show the host another device nor be stuck where they need not be.
- *The detection.* Thresholds are compared after truncation to 8 bits, the suppression
  changes the list it walks, and the workers share two filters without a lock. No
  clear object may be lost, and a movement must go to where its own frame says.
- *The container.* Elements are constructed and destroyed by hand; an insertion is
  part assignment to live elements and part construction in raw memory.
- *Reports.* Concurrent encoding into one buffer; bit fields at byte boundaries;
  a descriptor parser with a state stack and limits.

Every hazard is listed at its line, with the properties that would catch it, in
`PROJECT.json`.

## 2. The modules

### WorkStealingQueue, AbstractStealQueue, WSQHistory

`AbstractStealQueue` is what `wsq.h` promises: a queue, a push at the tail, a
steal of the head, a pop of the tail, each at one instant, and the cases in
which `steal()` may fail. `WorkStealingQueue` is the code: every action is one
access to shared memory. `opc` and `pc` say where the owner and each thief are,
`ob, ot` and `t, b, a, item` are their locals. `arrays` is `_garbage` and then the
current array; slots are indexed modulo the capacity, and `Resize` copies by
index. Items are numbered by their push, so identity is visible.
`ImplementsAbstract` is a refinement: a thief's mark is its `t`, the content of
the queue is `Slot(Current, i)` for `top <= i < LiveEnd`, an item leaves at the
compare-and-swap, or at `pop()`'s load of `_top` when it is not the last one.
`WSQHistory` adds what a call of `empty()` or `size()` could have seen.

Abstractions: memory is sequentially consistent (the fences are taken to do what
they are there for, relaxed orderings are not explored); indices are unbounded
(64 bits in the code). `capacity()` and the destructor are left out.

### AimbotFPS

The capture loop (`main`, `hand`), the workers (`pc`, `loaded`, `tick`), the
mutex, the condition variable as the set of workers at `"waiting"`, the driver's
buffers, the images (`out_data`), the NPU cores' tensors and boxes. The queue is
used through `AbstractStealQueue`, which the run `wsq` shows the code to
implement; `empty()` keeps its two loads. An image is the set of frames it has
pixels of, so that preprocessing into an image that is being read is visible.
`next_npu_core` wraps around at `TicketLimit` (2^32 in the code). An exception on
any thread sets `terminated`, after which nothing happens. The target, the filters and
the movement are in `TickFrame`. Left out: geometry, the FPS counter, logging.

### Yolo, TickFrame

`Yolo` is what `YoloV6` makes of the output tensors: the quantised thresholds
(`F32ToAffine` with its truncation), the candidates among the `Cells` of three grids,
their boxes, `CalculateOverlap` and one round of `DoNonMaxSuppression`. Floats are
exact: coordinates in 1 / `Sub` of a pixel, scores as counts. `TickFrame` runs
this on every worker (`Infer` with `std::sort`, which leaves equal scores in any
order; one `Suppress` per round; `Report`), then chooses the closest target and
calls `Update` of the two filters, which all workers share: `Load` and `Store` are
the accesses to `pre_error`. `Angle` stands for scaling and `atan2f`; `updates` is
history. With `ki = 0` the integral has no effect and is no variable. Each worker has
a core, with its model and lists, to itself here; workers that meet on a core are in
`AimbotFPS`. Not in the model: a model without `score_sum` tensors (dereferences null,
`yolo_v6.cpp:68`), more than four box channels (`abort`), several classes.

### StaticVector

The storage of every vector as a function from slots to elements or `Raw`, and its
size. The operators of the first section are what the standard library's storage
algorithms do; reading, assigning or destroying raw memory, constructing over an
object that has not been moved from and leaving the array yield `Junk`. (`insert()`
constructs over an element that it has moved away, `static_vector.h:522`; for elements
whose moved-from state holds nothing that is harmless.) Each method is a function of one vector
(`Insert`, `InsertSeveral`, `Erase`, ...), each call one action; a call that throws
`length_error` leaves what the code leaves, which after `assign` is an empty vector.
Elements do not throw. Not modelled: read accessors, comparisons and return values.

### InputHIDDevice

The owner (`owner`: the calls and where they are in them), the reader thread
(`reader`) and the transfer (`flying`, `cancelled`, `outcome`). Each read and
write of `is_running` is a step of its own, except that `StartReadInput` and
`StopReadInput` test and write it in one step: the reader only ever clears the flag, so
that whatever it does between the two it may as well do before or after.
`libusb_handle_events` returns
without an event at any time, reaps a completion (`Reap`) and calls
`ReadCallback` (`Callback`, `CallbackTest`, `Resubmit`), or fails. libusb's
submit, cancel and completion are external and modelled by how the code uses
them: a submission of a transfer in flight or to a missing device fails and any
may fail; a cancellation finds the transfer in flight or does nothing.
`terminated` is a throw out of the thread, the destruction of a joinable thread,
or the assignment to one. `failed`, `starts` and `stopped` are history.

### Core

`Core::Run()` step by step (`phase`) and the gadget in configfs (`stage`, `vid`,
`pid`), which only a reboot empties. `Open` is a choice among the plugged mice
that pass the filter of `InputHIDDevice::Open`; `CreateGadget` changes configfs
one step at a time; `GetConfiguredIdentifier` answers `<<0, 0>>` when there is no
gadget and also when it cannot be read (`SetupUnread`). The environment crashes
the process, makes a call fail, plugs mice and reboots. Not in the model: gadgets
of other names, a second instance of the program, the gadget's report
descriptor. `is_started` is no variable because `main` calls `Run()` once.

### HIDParser

`ParseReportDescriptor` reads any sequence of `Items`; an item is a header byte,
decoded as in `item.cpp`, and its data. One action per handler, with every error
it can return; `RejectStream` stands for long items and for a stream that is cut
off. `table` is `table_` as a function over the names of its entries, which `Push`
and `Pop` save and restore as a whole; `PushBack` is `LimitedVector::push_back`,
which drops silently. Collections are indices into `coll`, 0 is `nullptr`.
`Finish` decides the result; as nothing changes afterwards, what it packs is given by
operators (`Reports`, `Packed`, `Start`, `Offset`, `ByteSize`). `open`, `enclosing` and
`declared` are history: the real nesting, where each field was declared, and the
local items since the last main item. Of a field's flags only "array" is kept.

### HIDUnits, HIDReport, ProxyMouse

`HIDUnits` and `HIDReport` are the pure functions of `units.cpp` and `report.cpp`: a
unit is its nibbles and an exponent, a report a function from byte numbers to
sets of bits, a double a rational. `ProxyMouse` is the mouse the host sees.
`InitProtocol` chooses the fields (`ParseReportDescriptor`) or throws; afterwards
any worker calls `Send` (the callback that `Core::Run` installs): `StoreId`, then
for each insertion of `Encode` that is not refused one `Load` and one `Store` per
byte of the field, then `Copy`, the bytes that `write()` takes one by one, and
`Return`. The buffer is shared and nothing is locked. `todo` is the rest of the
insertions, decided when `Encode` begins because they depend on the argument
and on the protocol only. `sends`, `given` and `before` are history: `before` is the
buffer when a `Send()` began, as long as no other call overlaps it.

Abstractions: `HandleInput` is left out, because it shares only the file descriptor
with `Send`; the order of reports on the device is the order of the calls. The
conversion factors are fractions with small terms in place of floating point; `Power` is
a recursive function because the provers know of no powers but those of numerals. The
fields that are read back (`Representable`) have at most 31 bits if they are signed and no
empty range, which divides by zero in the code; the sum in `FieldFits` does not wrap. `Decode` has no caller; the
properties use it for what a host would read. The callback gives no scroll and no
buttons, so `Encode` writes the scroll 0 and leaves the buttons' bits as they are.

MC modules: `MCProxyMouse` has the mice and the movements, `MCHIDParser` the items of the
streams, `MCTickFrame` the grids and images, `MCStaticVector` values and lists. `MCWSQ` and `MCAimbotFPS` add symmetry for the safety runs (no
liveness run uses it); `MCCore` gives the mice their identifiers.

## 3. What is checked

| Run | Instance | States | What it shows |
|---|---|---|---|
| `wsq` | 2 thieves, capacity 1, 4 pushes | 336,000 | `ExactlyOnce`: no item is lost or handed out twice. `StealReadsHead`: a thief about to win carries the head, across reallocations. `ImplementsAbstract`: the documented behaviour. `NeverOverstated`: `size()` is at most what the queue held at some moment of the call |
| `pipeline` | 2 workers, 2 buffers, 2 cores, tickets mod 3, 4 frames | 1,650,000 | `OneOwner`, `NoBufferLost`: the buffers' journey. `EnoughSeekers`: one `notify_one` per push suffices although `empty()` is asked without the mutex. `NeverAimsAtThePast`: what a worker aims at is never older than its own frame unless two workers were on one core |
| `pipeline_live` | the same, 2 frames | 156,000 | `BufferReturns`: every buffer comes back to the driver as long as nobody stops the loop. `StopEndsRun`: after `Stop()` the loop ends, whatever it was doing, unless it waits for a frame and every buffer is in the queue. `ShutdownCompletes`: the destructor ends if no worker needs the mutex it holds |
| `input_hid` | 3 starts | 2,900 | `ReaderIsFed`: the loop never waits without a transfer in flight. `NoInputAfterStop`, `OrphanIsCancelled`: stopping works in every interleaving. `OneRunIsSafe`: only a failure, or a start after one, terminates the program. `StopReturns`, `UnplugEndsReader` |
| `core` | 3 mice of 2 models, 3 disturbances | 4,400 | `ServedAlike`: from boot to boot the host sees one device, completely created. `UnfinishedStays`: no restart repairs an unfinished gadget. `EventuallyRuns`: a restart works unless such a gadget is there or no matching mouse |
| `hid_layout` | 11 items, streams of 8 | 333,000 | `NestingKept`: parent pointers are the nesting. `ReportsTile`: the reports' arrays follow each other without gap or overlap, in streams that declare no more fields than the limit. `FirstByteFindsSize`: a report's first byte gives its size. `SameApplication`: the collection that was started last leads to the application a field belongs to |
| `hid_usages` | 29 items, streams of 6 | 391,000 | `UsagesAssigned`: every field has the usage its own main item's local items declare; and every handler and rejection is exercised |
| `hid_packing` | the items of `hid_layout`, 3 fields, streams of 7 | violation | at the limit of fields `Finish()` computes places outside of the array it has allocated (`parser.cpp:192-196`, `264`); with a larger limit, fields added to the null report are erased with it (`parser.cpp:211`) |
| `proxy_mouse` | 7 mice, 3 movements, 2 workers, 3 sends | 101,800 | `SentIsReceived`: what `Send()` alone writes is read back to within one count, through shared bytes, units, ranges and what earlier, racing calls have left in the buffer. `RefusedIsRepeated`: a refused insertion sends the movement before once more. `EveryBitWasGiven`: no race sets a bit that no movement has |
| `proxy_mouse_units` | 2 mice, 1 worker, 2 sends | violation | with an exponent but no unit, or only a system, what is inserted is not what is extracted (`report.h:8-16`) |
| `static_vector` | 2 vectors of capacity 4, 2 values | 7,500 | `TypeOK`: exactly the first `size` slots hold objects, through every call. `CallsSplice`: every call that moves elements replaces one range and keeps the rest, or changes nothing when the result is too long |
| `tick_frame` | 2 workers, 3 cells with 6 outputs each | 639,000 | `NonMaxSuppressed`: no boxes handed out overlap, and whoever is confident is handed out or overlaps one that scores no less. `MovesTowardsTarget`: a movement goes towards its target however the updates interleave, unless an earlier error to that side was larger |

Why the bounds are enough. `wsq`: with capacity 1 and 4 pushes the array is
reallocated twice and indices wrap around; two thieves and the owner give every
three-way race for an item. `pipeline`: two workers and two buffers let a buffer
be refilled while its image is read; tickets modulo 3 with 2 cores wrap unevenly
as 2^32 does with 3 cores, so workers do share a core; four frames fill each
buffer twice. `input_hid`: three starts cover a first run, a restart and a
restart after a restart's leftovers. `core`: three disturbances are enough for a
crash in `CreateGadget`, an exchange of mice and a read that fails, in any order;
two models of one vendor tell the parts of an identifier apart. `hid_layout`: eight
items are enough to alternate between two reports, and between types, in one
descriptor (six fields), to reach the limits of collections, fields and the stack,
and to leave and re-enter the null report by `Push` and `Pop`; `hid_usages`: six
items exhaust a list of two usages and repeat its last one, overflow it, or give a
range, and still leave room for a second main item. `proxy_mouse`: two calls overlap in
every way and a third one then runs alone on the buffer they have left; each
mouse has one difficulty (fields that cross bytes or share one, Y below X, a
report with an identifier, a wheel of another report, absolute and unsigned fields,
physical ranges, units to be converted or that cannot be, no X at all), and of the
movements one is out of most ranges. `static_vector`: capacity 4 gives insertions that
move fewer, as many and more elements than they insert, at every position; two vectors
are copied, moved and swapped. `tick_frame`: the three boxes overlap in a chain, the
middle one the two others, so that order and suppression matter; scores lie on both
sides of the threshold and within one count of it; the second worker has one box or
none, which is enough to store another error between any two steps of the first;
errors are cut to ±15, where the filters' limits are not the only case. The theorems of
section 4 have no such bounds.

Deadlock is checked in `wsq`, `static_vector` and `tick_frame`. The other runs allow it because the program
may stop there: the parser has returned, `terminated`, a destroyed object, the pipeline's destructor
hanging (section 5), all movements of the bound sent, or, in `core`, a running program
whose environment has used up its disturbances.

Fairness. `pipeline_live`: each thread keeps running (weak fairness per thread;
a mutex is eventually obtained), spurious wake-ups end at some time, and the camera keeps delivering up to its bound.
Nobody is assumed to call `Stop()` or to throw. `input_hid`: both threads run, a
call once made goes on, which includes `HandleInput()`: it is assumed to return, although
`ProxyMouse`'s writes to `/dev/hidg0` (`proxy_mouse.cpp:16`) and blocks for as long as the
host does not read, and so would the reader and whoever joins it; `libusb_handle_events` does not overlook a completion
for ever (strong fairness of `Reap`; it may return empty-handed any finite
number of times), and the kernel completes the transfer of a device that is
gone. The owner is not assumed to call anything. `core`: the process runs, and
is started again whenever it has ended; the code itself has no supervisor.

Each property that holds has a mutant: an operator marked "Mutant of" in the module, a
plausible bug of the definition below it, under which TLC finds the property
violated.

## 4. What is proved

The proofs hold for any number of threads, buffers, cores, pushes, starts, mice
and disturbances, from the named assumptions of the modules: finite non-empty
`Workers`, positive `Capacity`, `NpuCount` and `TicketLimit`, and mice whose
identifiers are not 0; the parser's limits positive and its items of the right form; any movements of
the right form and any descriptors whose fields come after the report ID if there are IDs, as
`Finish()` places them (`OffsetsAssumption`); any capacity, elements and lists of a vector; any grids,
zero points, non-negative thresholds and outputs of the networks.

- `WorkStealingQueueProofs`: `TypeCorrect`, `NoItemLostOrTakenTwice`,
  `StealsTheHead`, and the refinement `QueueIsLinearizable`. The inductive invariant is `IInv = TypeInv /\ WindowInv /\
  ThiefInv /\ ExactlyOnce`. `WindowInv` relates the owner's locals to `_top` and
  `_bottom` (what is live fits the array at every step of a push or pop).
  `ThiefInv` says that the slot a thief has read, of whichever old array, still
  holds the item of its index as long as `_top` has not passed it: old arrays are
  never written, and a slot of the current one is reused only for an index at
  least a capacity later. `ExactlyOnce` alone is not inductive: a successful
  compare-and-swap hands out what the thief read earlier. The arithmetic of
  `%` is in lemmas of its own. For the refinement each step has a lemma that says
  what it does to the abstract variables (`AItems`, the window of the current array,
  and the rest): nothing, or one operation of `AbstractStealQueue`. It adds
  `EmptyHanded`, that a call which has not taken an item carries none.
  `SizeIsNeverOverstated` is about the history of `WSQHistory`: at each of the two loads the
  bound that has been noted covers what the call can still return.
- `AimbotFPSProofs`: `TypeCorrect`; `BuffersHaveOneOwner` and
  `BuffersAreNeverLost` together with `IdleBefore` (no worker has an item before
  streaming starts); `NotificationsSuffice` and `NoWakeupIsLost` from `WakeInv`,
  which adds that a worker inside the wait's predicate has a recent view of
  `_bottom`: what is pushed after its load of `_bottom` is notified only once it
  sleeps, because it holds the mutex. `AimsAreNeverStale` from `FreshInv`: a buffer
  that has been given back is only overwritten by later frames, and of two workers on one
  core each knows that it is not alone, so that nobody else has written to the
  core of a worker that is.
- `InputHIDDeviceProofs`: `TypeCorrect`, `ReaderAlwaysFed`, `StopMeansNoInput`,
  `OrphansAreCancelled`, `SingleRunIsSafe`. `ThreadInv` says who owns the thread
  and the transfer, `StopInv` who has cleared `is_running` and that nothing can
  then be on its way to the callback, `BlameInv` that a thread that ends without
  `StopReadInput()` ends by a failure.
- `CoreProofs`: `TypeCorrect`, `OneDeviceServed`, and the action property
  `UnfinishedIsKept`. `GadgetInv` says that what the process knows of configfs is
  still true and that the gadget it works on is its own mouse's.
- `HIDParserProofs`: every property of the parser's runs that holds. `TypeCorrect`, `NestingIsKept`
  and `FinishNeverOverflows` need `IdsInv`: identifiers are told apart, and every
  saved state and every field refers to an entry that is there; with it a new entry
  has no fields, and a main item adds to no other entry's. That gives `CountsCover`: a report counts
  at least the fields that carry its identifier, also when fields are dropped. `ApplicationIsFound` needs
  `AncestryInv`: collections without a parent cut `coll_` into pieces, and a field's two
  collections are in one piece; the walk of `GetAppCollection()` is defined by recursion on the
  collections, and induction on them shows that a piece has one application.
  `UsagesAreAssigned` needs `DeclaredInv`: the list holds the first usages of the
  local items since the last main item, in their order, and the range their last
  minimum and maximum. `SizeIsFound` and `ArraysTile` need `NullIdFirst`, that only the first entry
  is the null one. What `Finish()` packs is then counted: `CountsExact` says that the counts are the fields as
  long as nothing has been dropped; a sum over a finite set may be
  taken in any order (`SumWithout`), the reports hold each field once (`PackedIsCardinality`),
  and intervals that follow each other fill what they span (`IntervalsTile`).
- `ProxyMouseProofs`: `TypeCorrect`, `BitsAreGiven`. `LoopInv` says that a worker inside of
  `InsertUint()` is at a stop of its field (its first bit or a byte's first bit),
  which lies in the buffer as `FieldFits` was asked before; `NextStop` is the
  arithmetic of `BitCount`. `GivenInv` says of the buffer, of every byte that is
  loaded and of every byte that is copied that its bits are given: a store keeps bits
  of a load that may be long outdated, but those were given too. `SendAloneIsAtomic` is
  about a call that no other one overlaps: `AloneInv` says at each of its steps which bits of the buffer are
  already the insertions', which are the report ID's and which are still what the call has found, and that
  a loaded byte is the buffer's. `AloneIsSequential`, its end, says that the report on the wire is
  what the insertions write one after the other. `RefusedRepeats` follows from it.
  `MovementIsReceived` goes on to what the host reads, along the chain of the code.
  `SingleInv`: `InitProtocol` leaves at most one field of each kind, so that
  only an insertion of a later kind can overwrite. `ExtractedBits`, `BitsMakeNumber`: the bits
  that a field of `n` bits is left with add up to the counts modulo `2^n`; `SignedIsLeft` and
  `UnsignedIsLeft`: extending the sign gives back the counts that the ranges admit. `2^n` is
  reached by counting the subsets of a set (`PowersOfTwo`), and a number below it is the sum
  of its bits. `ConvertInverts`: where one conversion of units succeeds so does the opposite one,
  and undoes it. `UnitRoundTrip`: the two searches of `defined_units`, one for what is
  convertible and one for what converts, find the same unit, unless the field has an exponent and no unit.
  `Truncated`: what remains of rounding is less than one count. The attempt corrected the
  model: the hypothesis `ScaledWithoutUnit` had only the unit that is all zeros, and a unit
  that names a system and nothing else is not read back either (now part of
  `ScaledMouse`, where TLC shows it).
- `StaticVectorProofs`: `TypeCorrect`, `CallsAlwaysSplice`. `TypeOK` is inductive by
  itself. Each storage algorithm has a lemma that says what it leaves in every slot
  when its arguments are what it asks for, and each method a lemma that composes
  them; `CallsSplice` follows from `TypeOK` by comparing the two sides slot by slot.
- `TickFrameProofs`: `TypeCorrect`, `DetectionIsComplete`, `MovesGoTowardsTarget`.
  `Greedy` is the invariant of the suppression's loop: after `i` rounds the first `i`
  boxes that are left overlap none that is left, and whoever is suppressed overlaps an
  earlier box that is left and can be suppressed no more. `Traced` ties the list to the
  tensors, and `AffineBounds` says what truncating the thresholds may cost. `MInv` says
  that what a filter remembers is the error of some update.

Induction is proved once, over the natural numbers and over the subsets of a finite set
(`SetInduction`, `SubsetInduction`): a set takes the place of the predicate, as the
provers cannot instantiate theorems about operators. For the same reason recursive
functions are shown to exist before they are used, and the models have neither recursive operators nor
`SelectSeq`, of which the provers know nothing.

Every invariant, action property and refinement that a run finds to hold is proved. Only
model-checked: liveness (`BufferReturns`, `StopEndsRun`, `ShutdownCompletes`, `StopReturns`,
`UnplugEndsReader`, `EventuallyRuns`), which needs fairness and ENABLED.

## 5. What the models say about the code

- The destructor of `AimbotFPS` (`aimbot_fps.cpp:80`) joins with `npu_work_mutex`
  locked and hangs if a worker sleeps in the wait, which is the normal case
  after `Stop()`. No property requires the hang or excludes it; `ShutdownCompletes` says
  when the destructor ends, and is about nothing before its join.
- `Stop()` wakes nobody, so the loop ends only after one more frame, and not at all if
  every buffer is in the queue when the workers see the flag: they leave without
  emptying it, and `VIDIOC_DQBUF` waits for a buffer that nobody gives back. `StopEndsRun`
  excepts this case, and `BufferReturns` says nothing about what follows `Stop()`.
- The NPU ticket does not exclude: with a slow worker, or at the wrap-around of the
  counter, two workers use one core, and only then can a worker aim at the past.
- `empty()` may answer yes although the queue holds an item throughout the call (it
  loads `_bottom`, the owner pushes, a thief steals, it loads `_top`), where `wsq.h:68`
  says "at the time of this call". The workers' use of it is safe: `EnoughSeekers`.
- After a device error `StopReadInput()` does nothing; destroying or restarting
  the object then terminates the program. `OneRunIsSafe` admits these cases, an error and
  a second start, and says that there are no others. The second cancellation, at the
  end of the thread, is needed: see `OrphanIsCancelled` and its mutant.
- A gadget that was left unfinished makes every later start fail until a reboot,
  and `RemoveGadgets()`, which would help, has no caller.
- `CheckExistingGadget()` repeats `Open()`'s filter, and is what protects the
  host's view when the attributes could not be read.
- `Pop` restores the current report along with the rest of the state table, so the
  check in `set_report_id()` does not keep fields out of the null report, and `Finish()` erases
  them with it (the second way to violate `AllFieldsPacked`).
- `kParseOverflow` in `Finish()`, which would leak, cannot happen. But at the limit of fields
  the counts go on while fields are dropped, and `Finish()` computes from the counts where a
  report's outputs and features begin: they are written over another report's places, or
  beyond the array that was allocated for the fields, and other places are never written
  (`AllFieldsPacked`, a finding; the limit is 65535 fields). `kParseOverflow` does not see
  this, as it compares a report's fields with its counts.
- A field with a unit exponent but no unit, or one that names a system only, is written
  scaled and read unscaled (a finding).
- `Encode()` ignores refusals: a movement out of range sends the last one again. Masses
  in the system of rotations are always refused, as `CanConvertUnits` admits what
  `ConvertMass` does not.
- The wheel of a report before the one with X is written over X or Y (`ComboMouse`), and
  the movement is lost.
- Racing calls of `Send()` mix movements and may undo each other's half of a shared byte;
  they cannot set a bit of a button.
- Truncating the thresholds can lose an object whose score is above the threshold by less
  than one count (`Confident` states the margin); a suppressed box suppresses no other.
- On cores that workers share anything may be aimed at: `NeverAimsAtThePast` says that
  the other workers are not affected.
- A worker that is held up between `Load` and `Store` puts an old error back into the
  filter: the next derivative refers to a frame of any age. The filters are not reset
  when the target is lost.
- `static_vector::emplace` in front of `end()` only makes room and never constructs its
  element (line 659 documents that it inserts one; `CallsSplice` claims nothing of what lies
  in the room), a moved-from vector keeps its size (line 118 says that it
  is empty), and the free `erase` and `erase_if` return the negative of the number erased
  (lines 883, 897). The program uses none of the three.

## 6. Not modelled

Logging, file reading, rounding helpers and the FPS counter; the debug image writer
(compiled out); opening devices, formats, EDID, mmap, and the geometry of resize and
crop; loading a network and running it; the setters of units and the extractions and
insertions without a caller; the real mouse's reports beside `Send()`.

## 7. Plan

1. `TickFrame` composed with `AimbotFPS`, for what a shared core does to the list of
   boxes while it is sorted and suppressed.
2. The reader thread's reports beside `Send()`, composed with `InputHIDDevice`, if a
   property of the two streams together is worth stating.
