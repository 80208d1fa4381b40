------------------------------- MODULE AimbotFPS -------------------------------
(***************************************************************************)
(* core/aimbot/aimbot_fps.cpp: the capture loop, the worker threads and    *)
(* the way they share the V4L2 buffers, the frame resources and the NPU    *)
(* cores.                                                                  *)
(*                                                                         *)
(*   the main thread   constructs the object (which starts the workers and *)
(*                     opens the camera), loads the model, calls Run() and *)
(*                     at last destroys the object;                        *)
(*   the workers       sleep on npu_work_cv, steal buffer indices and run  *)
(*                     TickFrame() on them;                                *)
(*   another thread    may call Stop();                                    *)
(*   the driver        fills the buffers that are queued to it.            *)
(*                                                                         *)
(* npu_work_queue is used through what WorkStealingQueue is checked to     *)
(* implement, AbstractStealQueue; empty() keeps its two loads.  Its owner  *)
(* is the main thread, which never pops.                                   *)
(***************************************************************************)
EXTENDS Integers, Sequences, FiniteSets

CONSTANTS Workers,      \* npu_threads
          Buffers,      \* the buffers that QueueBuffers() hands to the driver
          NpuCount,     \* npu_count, the number of NPU resources
          TicketLimit,  \* how many values next_npu_core has: 2^32 in the code
          MaxFrames,    \* bound: how many frames the camera delivers
          NoBuffer      \* std::nullopt

\* The main thread, and nobody, as holders of npu_work_mutex.
Main == "main"
Free == "free"

ASSUME WorkersAssumption ==
    IsFiniteSet(Workers) /\ Workers # {} /\ Main \notin Workers /\ Free \notin Workers
ASSUME BuffersAssumption == NoBuffer \notin Buffers
ASSUME NpuAssumption == NpuCount \in Nat \ {0} /\ TicketLimit \in Nat \ {0}
ASSUME FramesAssumption == MaxFrames \in Nat

VARIABLES
    terminated,      \* an exception has left a thread: std::terminate
    stop_requested,
    main,            \* where the main thread is
    hand,            \* buffer_index in Run()
    mutex,           \* who holds npu_work_mutex
    pc,              \* where each worker is
    loaded,          \* the _bottom that a worker's empty() has loaded
    items, head, mark, got,  \* npu_work_queue; got[w] is w's buffer_index
    driver,          \* the buffers that are queued to the V4L2 driver
    frames,          \* how many frames have been dequeued
    frame,           \* frame[b]: the number of the frame in buffer b
    out_data,        \* out_data[b]: the frames that b's image has pixels of
    next_npu_core,
    tick,            \* tick[w]: the locals of w's TickFrame
    tensor,          \* tensor[c]: the frames that core c's input has pixels of
    boxes            \* boxes[c]: the images whose targets are in c's boxes

queueVars == <<items, head, mark, got>>
videoVars == <<driver, frames, frame>>
npuVars == <<next_npu_core, tick, tensor, boxes>>
dataVars == <<videoVars, out_data, npuVars>>
vars == <<terminated, stop_requested, main, hand, mutex, pc, loaded, queueVars, dataVars>>

Queue == INSTANCE AbstractStealQueue WITH
    Thieves <- Workers, Items <- Buffers, NoItem <- NoBuffer,
    popping <- "no", popped <- NoBuffer

Cores == 0..(NpuCount - 1)

\* core: the NPU resource; frame: the frame the worker took; clash: history,
\* whether another worker was on the same core during this TickFrame.
NoTick == [core |-> -1, frame |-> 0, clash |-> FALSE]

\* The value of _bottom: nothing is ever popped.
Bottom == head + Len(items)

Goto(w, from, to) == pc[w] = from /\ pc' = [pc EXCEPT ![w] = to]

-------------------------------------------------------------------------------
\* The constructor has run CreateWorkerThreads() and is about to open the camera.
Init ==
    /\ terminated = FALSE
    /\ stop_requested = FALSE
    /\ main = "open" /\ hand = NoBuffer
    /\ mutex = Free
    /\ pc = [w \in Workers |-> "check"]
    /\ loaded = [w \in Workers |-> 0]
    /\ Queue!AInit
    /\ driver = {} /\ frames = 0 /\ frame = [b \in Buffers |-> 0]
    /\ out_data = [b \in Buffers |-> {}]
    /\ next_npu_core = 0
    /\ tick = [w \in Workers |-> NoTick]
    /\ tensor = [c \in Cores |-> {}]
    /\ boxes = [c \in Cores |-> {}]

-------------------------------------------------------------------------------
(* The main thread.                                                        *)

MainGoto(from, to) == main = from /\ main' = to

Open ==
    /\ MainGoto("open", "load")
    /\ UNCHANGED <<terminated, stop_requested, hand, mutex, pc, loaded, queueVars, dataVars>>

LoadModel ==
    /\ MainGoto("load", "run")
    /\ UNCHANGED <<terminated, stop_requested, hand, mutex, pc, loaded, queueVars, dataVars>>

\* Run() up to its loop: SetupVideoInput, QueueBuffers, STREAMON.
StartStreaming ==
    /\ MainGoto("run", "loop")
    /\ driver' = Buffers
    /\ UNCHANGED <<terminated, stop_requested, hand, mutex, pc, loaded, queueVars,
                   frames, frame, out_data, npuVars>>

\* Mutant of LoopTest: the flag is not looked at.
LoopAgain ==
    /\ MainGoto("loop", "dequeue")
    /\ UNCHANGED <<terminated, stop_requested, hand, mutex, pc, loaded, queueVars, dataVars>>

LoopTest ==
    /\ main = "loop"
    /\ main' = IF stop_requested THEN "stop_streaming" ELSE "dequeue"
    /\ UNCHANGED <<terminated, stop_requested, hand, mutex, pc, loaded, queueVars, dataVars>>

\* Blocks until the driver has filled a buffer.
DequeueBuffer ==
    /\ MainGoto("dequeue", "push")
    /\ frames < MaxFrames
    /\ \E b \in driver :
          /\ driver' = driver \ {b}
          /\ hand' = b
          /\ frames' = frames + 1
          /\ frame' = [frame EXCEPT ![b] = frames + 1]
    /\ UNCHANGED <<terminated, stop_requested, mutex, pc, loaded, queueVars, out_data, npuVars>>

PushWork ==
    /\ MainGoto("push", "notify")
    /\ Queue!Push(hand)
    /\ hand' = NoBuffer
    /\ UNCHANGED <<terminated, stop_requested, mutex, pc, loaded, dataVars>>

Waiting == {w \in Workers : pc[w] = "waiting"}

\* Mutants of NotifyOne: notify without the mutex; notify nobody.
NotifyUnlocked ==
    /\ MainGoto("notify", "loop")
    /\ \/ Waiting = {} /\ UNCHANGED pc
       \/ \E w \in Waiting : pc' = [pc EXCEPT ![w] = "lock"]
    /\ UNCHANGED <<terminated, stop_requested, hand, mutex, loaded, queueVars, dataVars>>

NotifyNobody ==
    /\ MainGoto("notify", "loop")
    /\ mutex = Free
    /\ UNCHANGED <<terminated, stop_requested, hand, mutex, pc, loaded, queueVars, dataVars>>

\* { lock; notify_one; unlock }: nobody else can act on the condition variable
\* or the mutex in between.
NotifyOne ==
    /\ MainGoto("notify", "loop")
    /\ mutex = Free
    /\ \/ Waiting = {} /\ UNCHANGED pc
       \/ \E w \in Waiting : pc' = [pc EXCEPT ![w] = "lock"]
    /\ UNCHANGED <<terminated, stop_requested, hand, mutex, loaded, queueVars, dataVars>>

\* STREAMOFF takes every buffer back from the driver.
StopStreaming ==
    /\ MainGoto("stop_streaming", "returned")
    /\ driver' = {}
    /\ UNCHANGED <<terminated, stop_requested, hand, mutex, pc, loaded, queueVars,
                   frames, frame, out_data, npuVars>>

\* ~AimbotFPS(): the owner may destroy the object whenever it is in no call.
Destroy ==
    /\ main \in {"load", "run", "returned"}
    /\ main' = "destroy"
    /\ stop_requested' = TRUE
    /\ UNCHANGED <<terminated, hand, mutex, pc, loaded, queueVars, dataVars>>

\* scoped_lock, notify_all: the mutex stays locked until the threads have joined.
NotifyAll ==
    /\ MainGoto("destroy", "join")
    /\ mutex = Free
    /\ mutex' = Main
    /\ pc' = [w \in Workers |-> IF w \in Waiting THEN "lock" ELSE pc[w]]
    /\ UNCHANGED <<terminated, stop_requested, hand, loaded, queueVars, dataVars>>

Join ==
    /\ MainGoto("join", "destroyed")
    /\ \A w \in Workers : pc[w] = "exited"
    /\ mutex' = Free
    /\ UNCHANGED <<terminated, stop_requested, hand, pc, loaded, queueVars, dataVars>>

\* Open(), LoadModel(), SetupVideoInput() and the V4L2 calls throw, and main()
\* catches nothing.
MainThrows ==
    /\ main \in {"open", "load", "run", "dequeue", "stop_streaming"}
    /\ terminated' = TRUE
    /\ UNCHANGED <<stop_requested, main, hand, mutex, pc, loaded, queueVars, dataVars>>

\* Another thread calls Stop(): it sets the flag and wakes nobody.
Stop ==
    /\ ~stop_requested
    /\ main \notin {"open", "destroyed"}
    /\ stop_requested' = TRUE
    /\ UNCHANGED <<terminated, main, hand, mutex, pc, loaded, queueVars, dataVars>>

-------------------------------------------------------------------------------
(* A worker w, in the loop of CreateWorkerThreads().                       *)

\* Mutant of CheckStop: the loop ignores the flag.
CheckStopNever(w) ==
    /\ Goto(w, "check", "empty")
    /\ UNCHANGED <<terminated, stop_requested, main, hand, mutex, loaded, queueVars, dataVars>>

CheckStop(w) ==
    /\ Goto(w, "check", IF stop_requested THEN "exited" ELSE "empty")
    /\ UNCHANGED <<terminated, stop_requested, main, hand, mutex, loaded, queueVars, dataVars>>

\* empty() loads _bottom, then _top: here without the mutex, and again in the
\* predicate of the wait.
LoadBottom(w) ==
    /\ \/ Goto(w, "empty", "empty_top")
       \/ Goto(w, "pred_empty", "pred_top")
    /\ loaded' = [loaded EXCEPT ![w] = Bottom]
    /\ UNCHANGED <<terminated, stop_requested, main, hand, mutex, queueVars, dataVars>>

SeesEmpty(w) == loaded[w] <= head

EmptyLoadTop(w) ==
    /\ Goto(w, "empty_top", IF SeesEmpty(w) THEN "lock" ELSE "steal")
    /\ loaded' = [loaded EXCEPT ![w] = 0]
    /\ UNCHANGED <<terminated, stop_requested, main, hand, mutex, queueVars, dataVars>>

\* At the start of the wait, and again when the worker has been woken.
Lock(w) ==
    /\ Goto(w, "lock", "pred")
    /\ mutex = Free
    /\ mutex' = w
    /\ UNCHANGED <<terminated, stop_requested, main, hand, loaded, queueVars, dataVars>>

PredStop(w) ==
    /\ Goto(w, "pred", IF stop_requested THEN "steal" ELSE "pred_empty")
    /\ mutex' = IF stop_requested THEN Free ELSE mutex
    /\ UNCHANGED <<terminated, stop_requested, main, hand, loaded, queueVars, dataVars>>

\* The predicate's answer: go to sleep and release the mutex in one step, or
\* leave the wait, which releases it too.
PredLoadTop(w) ==
    /\ Goto(w, "pred_top", IF SeesEmpty(w) THEN "waiting" ELSE "steal")
    /\ loaded' = [loaded EXCEPT ![w] = 0]
    /\ mutex' = Free
    /\ UNCHANGED <<terminated, stop_requested, main, hand, queueVars, dataVars>>

SpuriousWakeup(w) ==
    /\ Goto(w, "waiting", "lock")
    /\ UNCHANGED <<terminated, stop_requested, main, hand, mutex, loaded, queueVars, dataVars>>

BeginSteal(w) ==
    /\ Goto(w, "steal", "stealing")
    /\ Queue!BeginSteal(w)
    /\ UNCHANGED <<terminated, stop_requested, main, hand, mutex, loaded, dataVars>>

Steal(w) ==
    /\ Goto(w, "stealing", "tick")
    /\ Queue!Steal(w)
    /\ UNCHANGED <<terminated, stop_requested, main, hand, mutex, loaded, dataVars>>

StealFails(w) ==
    /\ Goto(w, "stealing", "check")
    /\ Queue!FailSteal(w)
    /\ UNCHANGED <<terminated, stop_requested, main, hand, mutex, loaded, dataVars>>

-------------------------------------------------------------------------------
(* TickFrame(got[w]) by worker w.                                          *)

\* The other workers that are using core c.
Sharing(w, c) == {v \in Workers \ {w} : tick[v].core = c}

\* Mutant of NextNPUCoreIndex: the modulo is missing.
NextTicket == next_npu_core

\* A round-robin ticket, not a lock: the core may still be in use, and the
\* round breaks where the counter wraps unless NpuCount divides TicketLimit.
NextNPUCoreIndex == next_npu_core % NpuCount

\* NextNPUCoreIndex(), then boxes.clear().
TakeCore(w) ==
    /\ Goto(w, "tick", "resize")
    /\ LET c == NextNPUCoreIndex
       IN  /\ next_npu_core' = (next_npu_core + 1) % TicketLimit
           /\ boxes' = [boxes EXCEPT ![c] = {}]
           /\ tick' = [v \in Workers |->
                         IF v = w THEN [core |-> c, frame |-> frame[got[w]],
                                        clash |-> Sharing(w, c) # {}]
                         ELSE IF v \in Sharing(w, c)
                              THEN [core |-> c, frame |-> tick[v].frame, clash |-> TRUE]
                         ELSE tick[v]]
    /\ UNCHANGED <<terminated, stop_requested, main, hand, mutex, loaded, queueVars,
                   videoVars, out_data, tensor>>

\* Mutant of PreProcess: the buffer is given back before it has been read.
PreProcessRequeues(w) ==
    /\ Goto(w, "resize", "crop")
    /\ out_data' = [out_data EXCEPT ![got[w]] = @ \cup {frame[got[w]]}]
    /\ driver' = driver \cup {got[w]}
    /\ UNCHANGED <<terminated, stop_requested, main, hand, mutex, loaded, queueVars,
                   frames, frame, npuVars>>

\* PreProcess() while imcrop is writing the output image.
PreProcess(w) ==
    /\ Goto(w, "resize", "crop")
    /\ out_data' = [out_data EXCEPT ![got[w]] = @ \cup {frame[got[w]]}]
    /\ UNCHANGED <<terminated, stop_requested, main, hand, mutex, loaded, queueVars,
                   videoVars, npuVars>>

\* Mutant of PreProcessDone: imcrop is not waited for.
PreProcessAsync(w) ==
    /\ Goto(w, "crop", "requeue")
    /\ UNCHANGED <<terminated, stop_requested, main, hand, mutex, loaded, queueVars, dataVars>>

\* PreProcess() has written all of it.
PreProcessDone(w) ==
    /\ Goto(w, "crop", "requeue")
    /\ out_data' = [out_data EXCEPT ![got[w]] = {frame[got[w]]}]
    /\ UNCHANGED <<terminated, stop_requested, main, hand, mutex, loaded, queueVars,
                   videoVars, npuVars>>

\* Mutant of RequeueBuffer: the buffer is not given back.
RequeueNothing(w) ==
    /\ Goto(w, "requeue", "detect")
    /\ UNCHANGED <<terminated, stop_requested, main, hand, mutex, loaded, queueVars, dataVars>>

RequeueBuffer(w) ==
    /\ Goto(w, "requeue", "detect")
    /\ driver' = driver \cup {got[w]}
    /\ UNCHANGED <<terminated, stop_requested, main, hand, mutex, loaded, queueVars,
                   frames, frame, out_data, npuVars>>

\* Detect() copies the image into the input tensor of the core.
DetectCopy(w) ==
    /\ Goto(w, "detect", "infer")
    /\ tensor' = [tensor EXCEPT ![tick[w].core] = out_data[got[w]]]
    /\ UNCHANGED <<terminated, stop_requested, main, hand, mutex, loaded, queueVars,
                   videoVars, out_data, next_npu_core, tick, boxes>>

\* Inference, post-processing, boxes_out.push_back.  Two workers on one core
\* race on its vectors: anything may be left in the list.
DetectRun(w) ==
    /\ Goto(w, "infer", "aim")
    /\ LET c == tick[w].core
           found == boxes[c] \cup {tensor[c]}
       IN  \/ ~tick[w].clash /\ boxes' = [boxes EXCEPT ![c] = found]
           \/ tick[w].clash /\ \E left \in SUBSET found : boxes' = [boxes EXCEPT ![c] = left]
    /\ UNCHANGED <<terminated, stop_requested, main, hand, mutex, loaded, queueVars,
                   videoVars, out_data, next_npu_core, tick, tensor>>

\* The closest box is aimed at; TickFrame returns.
Aim(w) ==
    /\ Goto(w, "aim", "check")
    /\ tick' = [tick EXCEPT ![w] = NoTick]
    /\ UNCHANGED <<terminated, stop_requested, main, hand, mutex, loaded, queueVars,
                   videoVars, out_data, next_npu_core, tensor, boxes>>

\* imresize, imcrop, VIDIOC_QBUF or rknn_run fails, or a race on the vectors
\* of a shared core corrupts the heap.
WorkerThrows(w) ==
    /\ \/ pc[w] \in {"resize", "crop", "requeue", "infer"}
       \/ pc[w] \in {"aim", "detect"} /\ tick[w].clash
    /\ terminated' = TRUE
    /\ UNCHANGED <<stop_requested, main, hand, mutex, pc, loaded, queueVars, dataVars>>

-------------------------------------------------------------------------------
MainStep ==
    \/ Open \/ LoadModel \/ StartStreaming \/ LoopTest \/ DequeueBuffer \/ PushWork
    \/ NotifyOne \/ StopStreaming \/ NotifyAll \/ Join

WorkerStep(w) ==
    \/ CheckStop(w) \/ LoadBottom(w) \/ EmptyLoadTop(w) \/ Lock(w) \/ PredStop(w)
    \/ PredLoadTop(w) \/ BeginSteal(w) \/ Steal(w) \/ StealFails(w)
    \/ TakeCore(w) \/ PreProcess(w) \/ PreProcessDone(w) \/ RequeueBuffer(w)
    \/ DetectCopy(w) \/ DetectRun(w) \/ Aim(w)

Next ==
    /\ ~terminated
    /\ \/ MainStep \/ Destroy \/ MainThrows \/ Stop
       \/ \E w \in Workers : WorkerStep(w) \/ SpuriousWakeup(w) \/ WorkerThrows(w)

Spec == Init /\ [][Next]_vars

\* The scheduler runs every thread that can run, the camera delivers frames,
\* and a waiting thread is not woken for no reason for ever.
Fairness ==
    /\ WF_vars(~terminated /\ MainStep)
    /\ \A w \in Workers : WF_vars(~terminated /\ WorkerStep(w))
    /\ <>[][\A w \in Workers : ~SpuriousWakeup(w)]_vars

FairSpec == Spec /\ Fairness

-------------------------------------------------------------------------------
(* Correctness.                                                            *)

MainPcs == {"open", "load", "run", "loop", "dequeue", "push", "notify",
            "stop_streaming", "returned", "destroy", "join", "destroyed"}
TickPcs == {"tick", "resize", "crop", "requeue", "detect", "infer", "aim"}
PredPcs == {"pred", "pred_empty", "pred_top"}
WorkerPcs == {"check", "empty", "empty_top", "lock", "waiting", "steal", "stealing",
              "exited"} \cup PredPcs \cup TickPcs

\* An image, or what an input tensor holds: the frames it has pixels of.
Images == SUBSET (0..MaxFrames)

\* Every variable has its type.
TypeOK ==
    /\ terminated \in BOOLEAN /\ stop_requested \in BOOLEAN
    /\ main \in MainPcs /\ hand \in Buffers \cup {NoBuffer}
    /\ mutex \in Workers \cup {Main, Free}
    /\ pc \in [Workers -> WorkerPcs] /\ loaded \in [Workers -> Nat]
    /\ items \in Seq(Buffers) /\ head \in Nat
    /\ mark \in [Workers -> Nat \cup {-1}]
    /\ got \in [Workers -> Buffers \cup {NoBuffer}]
    /\ driver \subseteq Buffers /\ frames \in 0..MaxFrames
    /\ frame \in [Buffers -> 0..MaxFrames]
    /\ out_data \in [Buffers -> Images]
    /\ next_npu_core \in 0..(TicketLimit - 1)
    /\ tick \in [Workers -> [core : Cores \cup {-1}, frame : 0..MaxFrames, clash : BOOLEAN]]
    /\ tensor \in [Cores -> Images]
    /\ boxes \in [Cores -> SUBSET Images]

\* The buffer whose V4L2 memory worker w may be reading: from the steal to the
\* requeue.
Held(w) == IF pc[w] \in {"tick", "resize", "crop", "requeue"} THEN {got[w]} ELSE {}

InHand == IF main = "push" THEN {hand} ELSE {}

InQueue == {items[i] : i \in 1..Len(items)}

\* A buffer has one owner: the driver, the main thread, the queue (once) or one
\* worker.  So the driver never fills a buffer that PreProcess reads, and two
\* workers never preprocess into the same out_data.
OneOwner ==
    /\ \A i, j \in 1..Len(items) : items[i] = items[j] => i = j
    /\ InHand \cap driver = {}
    /\ InQueue \cap (driver \cup InHand) = {}
    /\ \A w \in Workers : Held(w) \cap (driver \cup InHand \cup InQueue) = {}
    /\ \A v, w \in Workers : v # w => Held(v) \cap Held(w) = {}

\* While it streams no buffer is lost: each is with the driver or on its way
\* back to it, so the camera always gets a buffer again.
NoBufferLost ==
    main \in {"loop", "dequeue", "push", "notify"} =>
        Buffers \subseteq driver \cup InHand \cup InQueue \cup UNION {Held(w) : w \in Workers}

\* The workers that will look into the queue before they sleep.
Seeking == {w \in Workers : pc[w] \notin TickPcs \cup {"waiting", "exited"}}

\* One notify_one per push is enough although empty() is asked without the
\* mutex: as long as some worker sleeps, there is a worker on its way to every
\* item whose notification has been sent.
EnoughSeekers ==
    Waiting # {} /\ ~stop_requested =>
        Cardinality(Seeking) >= Len(items) - (IF main = "notify" THEN 1 ELSE 0)

\* No frame is left in the queue with every worker asleep.
NoLostWakeup ==
    items # <<>> /\ main # "notify" /\ ~stop_requested =>
        \E w \in Workers : pc[w] \notin {"waiting", "exited"}

\* RequeueBuffer() comes before Detect(): the image a worker detects in may be
\* overwritten, but only by later frames.  Unless two workers were on one core,
\* a worker never aims at what an older frame than its own shows.
NeverAimsAtThePast ==
    \A w \in Workers :
        pc[w] = "aim" /\ ~tick[w].clash =>
            \A image \in boxes[tick[w].core] : \A f \in image : f >= tick[w].frame

\* Every buffer the driver has given away comes back to it, unless the loop
\* is stopped: no frame stays in the queue for ever, no worker keeps a buffer.
BufferReturns ==
    \A b \in Buffers :
        main \in {"loop", "dequeue", "push", "notify"} /\ b \notin driver
            ~> (b \in driver \/ stop_requested \/ terminated)

\* A DQBUF that can end: the driver has a buffer, or gets one from a worker.
BufferToCome == driver \cup UNION {Held(w) : w \in Workers} # {}

\* Stop() ends Run(), whatever the main thread is doing at that time, unless it waits
\* for a frame and all buffers are in the queue: the workers leave their loop too, so
\* these never return to the driver.  (The frames of the model may run out first.)
StopEndsRun ==
    (stop_requested /\ main \in {"loop", "dequeue", "push", "notify"}
        /\ (main = "dequeue" => BufferToCome))
    ~> (main = "returned" \/ terminated
        \/ (main = "dequeue" /\ driver # {} /\ frames = MaxFrames))

\* The destructor, which joins with npu_work_mutex locked, ends if no worker is asleep,
\* or on its way to the mutex, at the time it takes the mutex.
ShutdownCompletes ==
    main = "join" /\ (\A w \in Workers : pc[w] \notin {"empty", "empty_top", "lock"})
        ~> (main = "destroyed" \/ terminated)
===============================================================================
