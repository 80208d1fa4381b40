---------------------------- MODULE AimbotFPSProofs ----------------------------
(***************************************************************************)
(* Theorems about AimbotFPS, for any number of workers, buffers, NPU       *)
(* resources and frames.                                                   *)
(***************************************************************************)
EXTENDS AimbotFPS, FiniteSetTheorems, TLAPS

-------------------------------------------------------------------------------
(* Types, and what a program counter says about the other variables.       *)

\* A worker in TickFrame has a buffer, the main thread has one to push.
HasBuffer ==
    /\ main = "push" => hand \in Buffers
    /\ \A w \in Workers : pc[w] \in TickPcs => got[w] \in Buffers

\* From TakeCore to the end of TickFrame a worker has a core.
HasCore ==
    \A w \in Workers : pc[w] \in TickPcs \ {"tick"} => tick[w].core \in Cores

\* The mutex is held inside the wait's predicate, and by the destructor.
MutexInv ==
    /\ \A w \in Workers : pc[w] \in PredPcs <=> mutex = w
    /\ mutex = Main <=> main = "join"

TypeInv == TypeOK /\ HasBuffer /\ HasCore /\ MutexInv

LEMMA CoreInRange ==
    ASSUME NEW n \in Nat PROVE n % NpuCount \in Cores /\ n % TicketLimit \in 0..(TicketLimit - 1)
  BY NpuAssumption DEF Cores

LEMMA EmptyImage == {} \in Images
  BY DEF Images

LEMMA TypeInit == Init => TypeInv
<1> SUFFICES ASSUME Init PROVE TypeInv
  OBVIOUS
<1> USE NpuAssumption, FramesAssumption, WorkersAssumption, BuffersAssumption, EmptyImage
    DEF Init, Queue!AInit, Queue!NotStealing, NoTick
<1>1. TypeOK
  <2>1. /\ main \in MainPcs /\ pc \in [Workers -> WorkerPcs]
        /\ mutex \in Workers \cup {Main, Free}
    BY DEF MainPcs, WorkerPcs
  <2>2. items \in Seq(Buffers) /\ mark \in [Workers -> Nat \cup {-1}]
    OBVIOUS
  <2>3. /\ out_data \in [Buffers -> Images]
        /\ tensor \in [Cores -> Images] /\ boxes \in [Cores -> SUBSET Images]
    OBVIOUS
  <2>4. /\ tick \in [Workers -> [core : Cores \cup {-1}, frame : 0..MaxFrames, clash : BOOLEAN]]
        /\ next_npu_core \in 0..(TicketLimit - 1)
    OBVIOUS
  <2> QED BY <2>1, <2>2, <2>3, <2>4 DEF TypeOK
<1>2. HasBuffer /\ HasCore /\ MutexInv
  BY DEF HasBuffer, HasCore, MutexInv, TickPcs, PredPcs, Main, Free
<1> QED BY <1>1, <1>2 DEF TypeInv

LEMMA TypeNext == TypeInv /\ [Next]_vars => TypeInv'
<1> SUFFICES ASSUME TypeInv, [Next]_vars PROVE TypeInv'
  OBVIOUS
<1> USE WorkersAssumption, BuffersAssumption, NpuAssumption, FramesAssumption
    DEF TypeInv, TypeOK, HasBuffer, HasCore, MutexInv, MainPcs, WorkerPcs, TickPcs, PredPcs,
        Main, Free, Goto, MainGoto, dataVars, queueVars, videoVars, npuVars
<1>1. CASE MainStep
  <2>1. CASE Open BY <2>1 DEF Open
  <2>2. CASE LoadModel BY <2>2 DEF LoadModel
  <2>3. CASE StartStreaming BY <2>3 DEF StartStreaming
  <2>4. CASE LoopTest BY <2>4 DEF LoopTest
  <2>5. CASE DequeueBuffer BY <2>5 DEF DequeueBuffer
  <2>6. CASE PushWork BY <2>6 DEF PushWork, Queue!Push
  <2>7. CASE NotifyOne 
    <3>1. CASE UNCHANGED pc BY <2>7, <3>1 DEF NotifyOne
    <3>2. ASSUME NEW w \in Waiting, pc' = [pc EXCEPT ![w] = "lock"] PROVE TypeInv'
      BY <2>7, <3>2 DEF NotifyOne, Waiting
    <3> QED BY <2>7, <3>1, <3>2 DEF NotifyOne
  <2>8. CASE StopStreaming BY <2>8 DEF StopStreaming
  <2>9. CASE NotifyAll BY <2>9 DEF NotifyAll, Waiting
  <2>10. CASE Join BY <2>10 DEF Join
  <2> QED BY <1>1, <2>1, <2>2, <2>3, <2>4, <2>5, <2>6, <2>7, <2>8, <2>9, <2>10 DEF MainStep
<1>2. CASE Destroy BY <1>2 DEF Destroy
<1>3. CASE MainThrows BY <1>3 DEF MainThrows
<1>4. CASE Stop BY <1>4 DEF Stop
<1>5. ASSUME NEW w \in Workers, WorkerStep(w) PROVE TypeInv'
  <2>1. CASE CheckStop(w) BY <2>1 DEF CheckStop
  <2>2. CASE LoadBottom(w) 
    <3>1. Bottom \in Nat BY DEF Bottom
    <3>2. CASE Goto(w, "empty", "empty_top") BY <2>2, <3>1, <3>2 DEF LoadBottom
    <3>3. CASE Goto(w, "pred_empty", "pred_top") BY <2>2, <3>1, <3>3 DEF LoadBottom
    <3> QED BY <2>2, <3>2, <3>3 DEF LoadBottom
  <2>3. CASE EmptyLoadTop(w) BY <2>3 DEF EmptyLoadTop
  <2>4. CASE Lock(w) BY <2>4 DEF Lock
  <2>5. CASE PredStop(w) BY <2>5 DEF PredStop
  <2>6. CASE PredLoadTop(w) BY <2>6 DEF PredLoadTop
  <2>7. CASE BeginSteal(w) BY <2>7 DEF BeginSteal, Queue!BeginSteal, Queue!NotStealing
  <2>8. CASE Steal(w) 
    <3>1. Head(items) \in Buffers /\ Tail(items) \in Seq(Buffers)
      BY <2>8 DEF Steal, Queue!Steal
    <3>2. got' \in [Workers -> Buffers \cup {NoBuffer}] /\ got'[w] \in Buffers
      BY <2>8, <3>1 DEF Steal, Queue!Steal
    <3>3. \A v \in Workers \ {w} : got'[v] = got[v]
      BY <2>8 DEF Steal, Queue!Steal
    <3>4. mark' \in [Workers -> Nat \cup {-1}] /\ items' \in Seq(Buffers) /\ head' \in Nat
      BY <2>8, <3>1 DEF Steal, Queue!Steal, Queue!NotStealing
    <3> QED BY <2>8, <3>2, <3>3, <3>4 DEF Steal
  <2>9. CASE StealFails(w) BY <2>9 DEF StealFails, Queue!FailSteal, Queue!NotStealing
  <2>10. CASE TakeCore(w)
    <3> DEFINE c == NextNPUCoreIndex
    <3>1. c \in Cores /\ next_npu_core' \in 0..(TicketLimit - 1)
      <4>1. next_npu_core \in Nat /\ next_npu_core + 1 \in Nat
        OBVIOUS
      <4>2. next_npu_core' = (next_npu_core + 1) % TicketLimit
        BY <2>10 DEF TakeCore
      <4> HIDE DEF TypeInv, TypeOK
      <4> QED BY <4>1, <4>2, CoreInRange DEF NextNPUCoreIndex
    <3>2. tick' \in [Workers -> [core : Cores \cup {-1}, frame : 0..MaxFrames, clash : BOOLEAN]]
      BY <2>10, <3>1 DEF TakeCore, Sharing
    <3>3. \A v \in Workers : tick'[v].core = IF v = w THEN c ELSE tick[v].core
      BY <2>10, <3>1 DEF TakeCore, Sharing
    <3>4. boxes' \in [Cores -> SUBSET Images]
      BY <2>10, <3>1 DEF TakeCore
    <3>5. pc' \in [Workers -> WorkerPcs]
      BY <2>10 DEF TakeCore
    <3>6. UNCHANGED <<terminated, stop_requested, main, hand, mutex, loaded, items, head, mark,
                      got, driver, frames, frame, out_data, tensor>>
      BY <2>10 DEF TakeCore
    <3>7. TypeOK'
      BY <3>1, <3>2, <3>4, <3>5, <3>6
    <3>8. HasBuffer' /\ HasCore' /\ MutexInv'
      BY <2>10, <3>1, <3>3 DEF TakeCore
    <3> QED BY <3>7, <3>8
  <2>11. CASE PreProcess(w) BY <2>11 DEF PreProcess, Images
  <2>12. CASE PreProcessDone(w) BY <2>12 DEF PreProcessDone, Images
  <2>13. CASE RequeueBuffer(w) BY <2>13 DEF RequeueBuffer
  <2>14. CASE DetectCopy(w) BY <2>14 DEF DetectCopy
  <2>15. CASE DetectRun(w)
    <3> DEFINE c == tick[w].core
               found == boxes[c] \cup {tensor[c]}
    <3>1. c \in Cores /\ found \in SUBSET Images
      BY <2>15 DEF DetectRun
    <3>2. boxes' \in [Cores -> SUBSET Images]
      <4>1. CASE boxes' = [boxes EXCEPT ![c] = found] BY <3>1, <4>1
      <4>2. ASSUME NEW left \in SUBSET found, boxes' = [boxes EXCEPT ![c] = left]
            PROVE boxes' \in [Cores -> SUBSET Images]
        BY <3>1, <4>2
      <4> QED BY <2>15, <4>1, <4>2 DEF DetectRun
    <3> QED BY <2>15, <3>2 DEF DetectRun
  <2>16. CASE Aim(w) BY <2>16 DEF Aim, NoTick
  <2> QED BY <1>5, <2>1, <2>2, <2>3, <2>4, <2>5, <2>6, <2>7, <2>8, <2>9, <2>10, <2>11, <2>12,
             <2>13, <2>14, <2>15, <2>16 DEF WorkerStep
<1>6. ASSUME NEW w \in Workers, SpuriousWakeup(w) PROVE TypeInv'
  BY <1>6 DEF SpuriousWakeup
<1>7. ASSUME NEW w \in Workers, WorkerThrows(w) PROVE TypeInv'
  BY <1>7 DEF WorkerThrows
<1>8. CASE UNCHANGED vars BY <1>8 DEF vars
<1> QED BY <1>1, <1>2, <1>3, <1>4, <1>5, <1>6, <1>7, <1>8 DEF Next

\* The model's variables keep their types, whoever runs when.
THEOREM TypeCorrect == Spec => []TypeOK
<1>1. TypeInv => TypeOK
  BY DEF TypeInv
<1> QED BY <1>1, TypeInit, TypeNext, PTL DEF Spec

-------------------------------------------------------------------------------
(* The ownership of the buffers.                                           *)

ElementsOf(s) == {s[i] : i \in 1..Len(s)}
NoRepeats(s) == \A i, j \in 1..Len(s) : s[i] = s[j] => i = j

\* What a push does to the elements of a sequence without repetitions.
LEMMA AppendElements ==
  ASSUME NEW S, NEW s \in Seq(S), NEW x \in S, NoRepeats(s), x \notin ElementsOf(s),
         NEW r, r = Append(s, x)
  PROVE  ElementsOf(r) = ElementsOf(s) \cup {x} /\ NoRepeats(r)
<1> USE DEF ElementsOf, NoRepeats
<1>1. Len(r) = Len(s) + 1 /\ Len(s) \in Nat /\ r[Len(s) + 1] = x
  OBVIOUS
<1>2. \A i \in 1..Len(s) : r[i] = s[i]
  OBVIOUS
<1>3. \A i \in 1..Len(r) : i \in 1..Len(s) \/ i = Len(s) + 1
  BY <1>1
<1> QED BY <1>1, <1>2, <1>3

\* What a steal does to them.
LEMMA TailElements ==
  ASSUME NEW S, NEW s \in Seq(S), s # <<>>, NoRepeats(s), NEW r, r = Tail(s)
  PROVE  /\ ElementsOf(r) = ElementsOf(s) \ {Head(s)} /\ NoRepeats(r)
         /\ Head(s) \in ElementsOf(s)
<1>1. Len(r) = Len(s) - 1 /\ Len(s) \in Nat \ {0} /\ Head(s) = s[1] /\ 1 \in 1..Len(s)
  OBVIOUS
<1>2. \A i \in 1..Len(r) : r[i] = s[i + 1] /\ i + 1 \in 1..Len(s) /\ i + 1 # 1
  BY <1>1
<1>3. \A i \in 1..Len(s) : i = 1 \/ (i - 1 \in 1..Len(r) /\ s[i] = r[i - 1])
  BY <1>1, <1>2
<1>4. ASSUME NEW i \in 1..Len(r) PROVE r[i] \in ElementsOf(s) \ {Head(s)}
  BY <1>1, <1>2 DEF ElementsOf, NoRepeats
<1>5. ASSUME NEW i \in 1..Len(s), s[i] # Head(s) PROVE s[i] \in ElementsOf(r)
  BY <1>1, <1>3, <1>5 DEF ElementsOf
<1>6. ASSUME NEW i \in 1..Len(r), NEW j \in 1..Len(r), r[i] = r[j] PROVE i = j
  BY <1>1, <1>2, <1>6 DEF NoRepeats
<1>7. NoRepeats(r)
  BY <1>6 DEF NoRepeats
<1>8. Head(s) \in ElementsOf(s)
  BY <1>1 DEF ElementsOf
<1>9. ElementsOf(r) \subseteq ElementsOf(s) \ {Head(s)}
  BY <1>4 DEF ElementsOf
<1>10. ElementsOf(s) \ {Head(s)} \subseteq ElementsOf(r)
  <2>1. ASSUME NEW e \in ElementsOf(s), e # Head(s) PROVE e \in ElementsOf(r)
    <3>1. PICK i \in 1..Len(s) : e = s[i]
      BY DEF ElementsOf
    <3> QED BY <2>1, <3>1, <1>5
  <2> QED BY <2>1
<1> QED BY <1>7, <1>8, <1>9, <1>10

Streaming == {"loop", "dequeue", "push", "notify"}
NotRunning == {"open", "load", "run"}

\* Until Run() has started streaming there is no work.
IdleBefore == main \in NotRunning => items = <<>> /\ \A w \in Workers : pc[w] \notin TickPcs

OwnInv == OneOwner /\ NoBufferLost /\ IdleBefore

LEMMA OwnInit == Init => OwnInv
  BY DEF Init, OwnInv, OneOwner, NoBufferLost, IdleBefore, Held, InHand, InQueue, TickPcs,
         NotRunning, Queue!AInit

\* The steps that move no buffer.
LEMMA NoBufferMoves ==
  ASSUME OwnInv, UNCHANGED <<items, driver>>, InHand' = InHand,
         \A w \in Workers : Held(w)' = Held(w),
         main' \in Streaming => main \in Streaming,
         main' \in NotRunning => main \in NotRunning /\ \A w \in Workers : pc'[w] \notin TickPcs
  PROVE  OwnInv'
<1>1. InQueue' = InQueue
  BY DEF InQueue
<1>2. OneOwner'
  BY <1>1 DEF OwnInv, OneOwner
<1>3. NoBufferLost'
  BY <1>1 DEF OwnInv, NoBufferLost, Streaming
<1>4. IdleBefore'
  BY DEF OwnInv, IdleBefore
<1> QED BY <1>2, <1>3, <1>4 DEF OwnInv

LEMMA OwnNext == TypeInv /\ OwnInv /\ [Next]_vars => OwnInv'
<1> SUFFICES ASSUME TypeInv, OwnInv, [Next]_vars PROVE OwnInv'
  OBVIOUS
<1>t. /\ pc \in [Workers -> WorkerPcs] /\ items \in Seq(Buffers)
      /\ got \in [Workers -> Buffers \cup {NoBuffer}] /\ driver \subseteq Buffers
  BY DEF TypeInv, TypeOK
<1>u. /\ main = "push" => hand \in Buffers
      /\ \A w \in Workers : pc[w] \in TickPcs => got[w] \in Buffers
  BY DEF TypeInv, HasBuffer
<1> USE DEF dataVars, queueVars, videoVars, npuVars, Goto, MainGoto
<1>1. CASE MainStep
  <2>1. CASE Open \/ LoadModel \/ LoopTest
    <3>1. UNCHANGED <<items, driver, hand, pc, got>>
      BY <2>1 DEF Open, LoadModel, LoopTest
    <3> QED BY <2>1, <3>1, NoBufferMoves
            DEF Open, LoadModel, LoopTest, InHand, Held, Streaming, NotRunning, OwnInv, IdleBefore
  <2>2. CASE StartStreaming
    <3>1. items = <<>> /\ InQueue = {} /\ InHand = {} /\ \A w \in Workers : Held(w) = {}
      BY <2>2 DEF StartStreaming, OwnInv, IdleBefore, NotRunning, InQueue, InHand, Held, TickPcs
    <3>2. InQueue' = InQueue /\ InHand' = {} /\ \A w \in Workers : Held(w)' = Held(w)
      BY <2>2 DEF StartStreaming, InQueue, InHand, Held
    <3> QED BY <2>2, <3>1, <3>2
            DEF StartStreaming, OwnInv, OneOwner, NoBufferLost, IdleBefore, NotRunning
  <2>3. CASE DequeueBuffer
    <3>1. PICK b \in driver : driver' = driver \ {b} /\ hand' = b
      BY <2>3 DEF DequeueBuffer
    <3>2. /\ InQueue' = InQueue /\ InHand = {} /\ InHand' = {b}
          /\ \A w \in Workers : Held(w)' = Held(w)
      BY <2>3, <3>1 DEF DequeueBuffer, InQueue, InHand, Held
    <3>3. OneOwner'
      BY <2>3, <3>1, <3>2 DEF DequeueBuffer, OwnInv, OneOwner
    <3>4. NoBufferLost'
      BY <2>3, <3>1, <3>2 DEF DequeueBuffer, OwnInv, NoBufferLost
    <3>5. IdleBefore'
      BY <2>3 DEF DequeueBuffer, IdleBefore, NotRunning
    <3> QED BY <3>3, <3>4, <3>5 DEF OwnInv
  <2>4. CASE PushWork
    <3>1. items' = Append(items, hand) /\ hand \in Buffers
      BY <2>4, <1>u DEF PushWork, Queue!Push
    <3>2. /\ InHand = {hand} /\ InHand' = {} /\ driver' = driver
          /\ \A w \in Workers : Held(w)' = Held(w)
      BY <2>4 DEF PushWork, InHand, Held, Queue!Push
    <3>3. /\ InQueue' = InQueue \cup {hand}
          /\ \A i, j \in 1..Len(items') : items'[i] = items'[j] => i = j
      <4>1. NoRepeats(items) /\ hand \notin ElementsOf(items)
        BY <3>2 DEF NoRepeats, ElementsOf, InQueue, OwnInv, OneOwner
      <4>2. ElementsOf(items') = ElementsOf(items) \cup {hand} /\ NoRepeats(items')
        BY <1>t, <3>1, <4>1, AppendElements
      <4> QED BY <4>2 DEF NoRepeats, ElementsOf, InQueue
    <3>4. OneOwner'
      BY <3>2, <3>3 DEF OwnInv, OneOwner
    <3>5. NoBufferLost'
      BY <2>4, <3>2, <3>3 DEF PushWork, OwnInv, NoBufferLost
    <3>6. IdleBefore'
      BY <2>4 DEF PushWork, IdleBefore, NotRunning
    <3> QED BY <3>4, <3>5, <3>6 DEF OwnInv
  <2>5. CASE NotifyOne
    <3>1. \A w \in Workers : Held(w)' = Held(w) /\ (pc'[w] \in TickPcs => pc[w] \in TickPcs)
      BY <2>5, <1>t DEF NotifyOne, Waiting, Held, TickPcs
    <3> QED BY <2>5, <3>1, NoBufferMoves DEF NotifyOne, InHand, Streaming, NotRunning
  <2>6. CASE StopStreaming
    <3>1. InQueue' = InQueue /\ InHand' = InHand /\ \A w \in Workers : Held(w)' = Held(w)
      BY <2>6 DEF StopStreaming, InQueue, InHand, Held
    <3> QED BY <2>6, <3>1
            DEF StopStreaming, OwnInv, OneOwner, NoBufferLost, IdleBefore, NotRunning
  <2>7. CASE NotifyAll \/ Join
    <3>1. \A w \in Workers : Held(w)' = Held(w)
      BY <2>7, <1>t DEF NotifyAll, Join, Waiting, Held
    <3> QED BY <2>7, <3>1, NoBufferMoves DEF NotifyAll, Join, InHand, Streaming, NotRunning
  <2> QED BY <1>1, <2>1, <2>2, <2>3, <2>4, <2>5, <2>6, <2>7 DEF MainStep
<1>2. CASE Destroy \/ MainThrows \/ Stop
  <2>1. UNCHANGED <<items, driver, hand, pc, got>>
    BY <1>2 DEF Destroy, MainThrows, Stop
  <2> QED BY <1>2, <2>1, NoBufferMoves
          DEF Destroy, MainThrows, Stop, InHand, Held, Streaming, NotRunning, OwnInv, IdleBefore
<1>3. ASSUME NEW w \in Workers, WorkerStep(w) PROVE OwnInv'
  <2>0. main' = main /\ hand' = hand /\ InHand' = InHand
    BY <1>3 DEF WorkerStep, CheckStop, LoadBottom, EmptyLoadTop, Lock, PredStop, PredLoadTop,
                BeginSteal, Steal, StealFails, TakeCore, PreProcess, PreProcessDone,
                RequeueBuffer, DetectCopy, DetectRun, Aim, InHand
  <2>1. CASE CheckStop(w) \/ LoadBottom(w) \/ EmptyLoadTop(w) \/ Lock(w) \/ PredStop(w)
             \/ PredLoadTop(w) \/ BeginSteal(w) \/ StealFails(w)
    <3>1. UNCHANGED <<items, driver>>
      BY <2>1 DEF CheckStop, LoadBottom, EmptyLoadTop, Lock, PredStop, PredLoadTop, BeginSteal,
                  StealFails, Queue!BeginSteal, Queue!FailSteal
    <3>2. /\ pc[w] \notin TickPcs /\ pc'[w] \notin TickPcs
          /\ \A v \in Workers \ {w} : pc'[v] = pc[v] /\ got'[v] = got[v]
      BY <2>1, <1>t DEF CheckStop, LoadBottom, EmptyLoadTop, Lock, PredStop, PredLoadTop,
                  BeginSteal, StealFails, Queue!BeginSteal, Queue!FailSteal, TickPcs
    <3>3. \A v \in Workers : Held(v)' = Held(v)
      BY <3>2 DEF Held, TickPcs
    <3> QED BY <2>0, <3>1, <3>2, <3>3, NoBufferMoves DEF OwnInv, IdleBefore
  <2>2. CASE Steal(w)
    <3>1. items # <<>> /\ items' = Tail(items) /\ got'[w] = Head(items) /\ driver' = driver
      BY <2>2, <1>t DEF Steal, Queue!Steal
    <3>2. /\ InQueue' = InQueue \ {Head(items)} /\ Head(items) \in InQueue
          /\ \A i, j \in 1..Len(items') : items'[i] = items'[j] => i = j
      <4>1. NoRepeats(items)
        BY DEF NoRepeats, OwnInv, OneOwner
      <4>2. /\ ElementsOf(items') = ElementsOf(items) \ {Head(items)} /\ NoRepeats(items')
            /\ Head(items) \in ElementsOf(items)
        BY <1>t, <3>1, <4>1, TailElements
      <4> QED BY <4>2 DEF NoRepeats, ElementsOf, InQueue
    <3>3. /\ Held(w) = {} /\ Held(w)' = {Head(items)}
          /\ \A v \in Workers \ {w} : Held(v)' = Held(v)
      BY <2>2, <1>t, <3>1 DEF Steal, Queue!Steal, Held
    <3>4. OneOwner'
      BY <2>0, <3>1, <3>2, <3>3 DEF OwnInv, OneOwner
    <3>5. NoBufferLost'
      BY <2>0, <3>1, <3>2, <3>3 DEF OwnInv, NoBufferLost
    <3>6. IdleBefore'
      BY <2>0, <3>1 DEF OwnInv, IdleBefore
    <3> QED BY <3>4, <3>5, <3>6 DEF OwnInv
  <2>3. CASE RequeueBuffer(w)
    <3>1. /\ InQueue' = InQueue /\ driver' = driver \cup {got[w]}
          /\ Held(w) = {got[w]} /\ Held(w)' = {}
          /\ \A v \in Workers \ {w} : Held(v)' = Held(v)
      BY <2>3, <1>t DEF RequeueBuffer, InQueue, Held
    <3>2. OneOwner'
      BY <2>0, <2>3, <3>1 DEF RequeueBuffer, OwnInv, OneOwner
    <3>3. NoBufferLost'
      BY <2>0, <3>1 DEF OwnInv, NoBufferLost
    <3>4. IdleBefore'
      BY <2>0, <2>3 DEF RequeueBuffer, OwnInv, IdleBefore, TickPcs
    <3> QED BY <3>2, <3>3, <3>4 DEF OwnInv
  <2>4. CASE TakeCore(w) \/ PreProcess(w) \/ PreProcessDone(w) \/ DetectCopy(w) \/ DetectRun(w)
             \/ Aim(w)
    <3>1. UNCHANGED <<items, driver, got>>
      BY <2>4 DEF TakeCore, PreProcess, PreProcessDone, DetectCopy, DetectRun, Aim
    <3>2. pc[w] \in TickPcs /\ \A v \in Workers \ {w} : pc'[v] = pc[v]
      BY <2>4, <1>t DEF TakeCore, PreProcess, PreProcessDone, DetectCopy, DetectRun, Aim, TickPcs
    <3>3. \A v \in Workers : Held(v)' = Held(v)
      BY <2>4, <1>t, <3>1, <3>2
      DEF TakeCore, PreProcess, PreProcessDone, DetectCopy, DetectRun, Aim, Held
    <3> QED BY <2>0, <3>1, <3>2, <3>3, NoBufferMoves DEF OwnInv, IdleBefore
  <2> QED BY <1>3, <2>1, <2>2, <2>3, <2>4 DEF WorkerStep
<1>4. ASSUME NEW w \in Workers, SpuriousWakeup(w) \/ WorkerThrows(w) PROVE OwnInv'
  <2>1. UNCHANGED <<items, driver, main, hand, got>>
    BY <1>4 DEF SpuriousWakeup, WorkerThrows
  <2>2. \A v \in Workers : Held(v)' = Held(v) /\ (pc'[v] \in TickPcs => pc[v] \in TickPcs)
    BY <1>4, <1>t DEF SpuriousWakeup, WorkerThrows, Held, TickPcs
  <2> QED BY <2>1, <2>2, NoBufferMoves DEF OwnInv, IdleBefore, InHand
<1>5. CASE UNCHANGED vars
  BY <1>5, NoBufferMoves DEF vars, InHand, Held, OwnInv, IdleBefore
<1> QED BY <1>1, <1>2, <1>3, <1>4, <1>5 DEF Next

\* A V4L2 buffer never has two users: not the driver and PreProcess, not two
\* workers, and it is not in the queue twice.
THEOREM BuffersHaveOneOwner == Spec => []OneOwner
<1>1. TypeInv /\ OwnInv => OneOwner
  BY DEF OwnInv
<1> QED BY <1>1, TypeInit, TypeNext, OwnInit, OwnNext, PTL DEF Spec

\* While the camera streams, every buffer is on its way back to it.
THEOREM BuffersAreNeverLost == Spec => []NoBufferLost
<1>1. TypeInv /\ OwnInv => NoBufferLost
  BY DEF OwnInv
<1> QED BY <1>1, TypeInit, TypeNext, OwnInit, OwnNext, PTL DEF Spec
-------------------------------------------------------------------------------
(* Wake-ups.                                                               *)

\* 1 while the last push has not been notified yet.
Pending == IF main = "notify" THEN 1 ELSE 0

\* The predicate runs with the mutex locked, and every notification but the
\* pending one needed the mutex, so the _bottom it has loaded misses at most
\* the push that is still to be notified.
PredicateIsRecent ==
    \A w \in Workers : pc[w] = "pred_top" => loaded[w] >= Bottom - Pending

WakeInv ==
    /\ EnoughSeekers
    /\ PredicateIsRecent
    /\ \A w \in Workers : pc[w] = "exited" => stop_requested

LEMMA SeekingFinite == IsFiniteSet(Seeking) /\ Cardinality(Seeking) \in Nat
  BY WorkersAssumption, FS_Subset, FS_CardinalityType DEF Seeking

LEMMA WakeInit == Init => WakeInv
  BY DEF Init, WakeInv, EnoughSeekers, PredicateIsRecent, Waiting

\* The steps that put no worker to sleep and take none off the search.
LEMMA SeekersStay ==
  ASSUME EnoughSeekers, items \in Seq(Buffers), Waiting' \subseteq Waiting,
         Seeking \subseteq Seeking', Seeking' \subseteq Workers,
         Len(items') - Pending' <= Len(items) - Pending, Len(items') \in Nat,
         stop_requested => stop_requested'
  PROVE  EnoughSeekers'
<1>1. IsFiniteSet(Seeking') /\ Cardinality(Seeking) <= Cardinality(Seeking')
  BY WorkersAssumption, FS_Subset
<1>2. Cardinality(Seeking) \in Nat /\ Cardinality(Seeking') \in Nat /\ Len(items) \in Nat
  BY <1>1, SeekingFinite, FS_CardinalityType
<1>3. Waiting' # {} /\ ~stop_requested' => Cardinality(Seeking) >= Len(items) - Pending
  BY DEF EnoughSeekers, Pending
<1>4. Pending \in Nat /\ Pending' \in Nat
  BY DEF Pending
<1>5. Waiting' # {} /\ ~stop_requested' => Cardinality(Seeking') >= Len(items') - Pending'
  BY <1>1, <1>2, <1>3, <1>4
<1> QED BY <1>5 DEF EnoughSeekers, Pending

LEMMA WakeNext == TypeInv /\ WakeInv /\ [Next]_vars => WakeInv'
<1> SUFFICES ASSUME TypeInv, WakeInv, [Next]_vars PROVE WakeInv'
  OBVIOUS
<1>t. /\ pc \in [Workers -> WorkerPcs] /\ items \in Seq(Buffers) /\ head \in Nat
      /\ Len(items) \in Nat /\ loaded \in [Workers -> Nat]
      /\ EnoughSeekers /\ PredicateIsRecent
      /\ \A w \in Workers : pc[w] = "exited" => stop_requested
  BY DEF TypeInv, TypeOK, WakeInv
<1> USE DEF dataVars, queueVars, videoVars, npuVars, Goto, MainGoto
<1>1. CASE MainStep
  <2>1. CASE PushWork
    <3>1. /\ Len(items') = Len(items) + 1 /\ Pending = 0 /\ Pending' = 1
          /\ UNCHANGED <<pc, loaded, head, stop_requested>>
      BY <2>1, <1>t DEF PushWork, Queue!Push, Pending
    <3>2. EnoughSeekers'
      BY <1>t, <3>1, SeekersStay DEF Waiting, Seeking
    <3>3. PredicateIsRecent'
      BY <1>t, <3>1 DEF PredicateIsRecent, Bottom
    <3> QED BY <1>t, <3>1, <3>2, <3>3 DEF WakeInv
  <2>2. CASE NotifyOne
    <3>1. /\ Pending = 1 /\ Pending' = 0
          /\ UNCHANGED <<items, head, loaded, stop_requested>>
      BY <2>2 DEF NotifyOne, Pending
    <3>2. \A w \in Workers : pc[w] # "pred_top" /\ (pc'[w] = pc[w] \/ pc'[w] = "lock")
      BY <2>2, <1>t, WorkersAssumption
      DEF NotifyOne, TypeInv, MutexInv, PredPcs, Free, Waiting
    <3>3. EnoughSeekers'
      <4>1. CASE Waiting = {} /\ UNCHANGED pc
        BY <4>1 DEF EnoughSeekers, Waiting
      <4>2. ASSUME NEW w \in Waiting, pc' = [pc EXCEPT ![w] = "lock"] PROVE EnoughSeekers'
        <5>1. w \in Workers /\ w \notin Seeking /\ Seeking' = Seeking \cup {w}
          BY <4>2, <1>t DEF Waiting, Seeking, TickPcs
        <5>2. Cardinality(Seeking') = Cardinality(Seeking) + 1
          BY <5>1, SeekingFinite, FS_AddElement
        <5>3. ~stop_requested => Cardinality(Seeking) >= Len(items) - Pending
          BY <4>2, <1>t DEF EnoughSeekers, Pending
        <5> QED BY <3>1, <5>2, <5>3, <1>t, SeekingFinite DEF EnoughSeekers, Pending
      <4> QED BY <2>2, <4>1, <4>2 DEF NotifyOne
    <3>4. PredicateIsRecent'
      BY <3>2 DEF PredicateIsRecent
    <3> QED BY <1>t, <3>1, <3>2, <3>3, <3>4 DEF WakeInv
  <2>3. CASE NotifyAll
    <3>1. /\ Waiting' = {} /\ Pending = 0 /\ Pending' = 0
          /\ UNCHANGED <<items, head, loaded, stop_requested>>
          /\ \A w \in Workers : pc'[w] = pc[w] \/ pc'[w] = "lock"
      BY <2>3, <1>t DEF NotifyAll, Waiting, Pending
    <3> QED BY <1>t, <3>1 DEF WakeInv, EnoughSeekers, PredicateIsRecent, Bottom
  <2>4. CASE Open \/ LoadModel \/ StartStreaming \/ LoopTest \/ DequeueBuffer \/ StopStreaming
             \/ Join
    <3>1. /\ Pending = 0 /\ Pending' = 0
          /\ UNCHANGED <<items, head, loaded, stop_requested, pc>>
      BY <2>4 DEF Open, LoadModel, StartStreaming, LoopTest, DequeueBuffer, StopStreaming, Join,
                  Pending
    <3>2. EnoughSeekers'
      BY <1>t, <3>1, SeekersStay DEF Waiting, Seeking
    <3> QED BY <1>t, <3>1, <3>2 DEF WakeInv, PredicateIsRecent, Bottom
  <2> QED BY <1>1, <2>1, <2>2, <2>3, <2>4 DEF MainStep
<1>2. CASE Destroy \/ Stop
  <2>1. /\ stop_requested' /\ Pending' = Pending
        /\ UNCHANGED <<items, head, loaded, pc>>
    BY <1>2 DEF Destroy, Stop, Pending
  <2> QED BY <1>t, <2>1 DEF WakeInv, EnoughSeekers, PredicateIsRecent, Bottom
<1>3. CASE MainThrows
  <2>1. UNCHANGED <<items, head, loaded, pc, main, stop_requested>>
    BY <1>3 DEF MainThrows
  <2> QED BY <1>t, <2>1
          DEF WakeInv, EnoughSeekers, PredicateIsRecent, Bottom, Pending, Waiting, Seeking
<1>4. ASSUME NEW w \in Workers, WorkerStep(w) PROVE WakeInv'
  <2>0. UNCHANGED <<main, stop_requested>> /\ Pending' = Pending
    BY <1>4 DEF WorkerStep, CheckStop, LoadBottom, EmptyLoadTop, Lock, PredStop, PredLoadTop,
                BeginSteal, Steal, StealFails, TakeCore, PreProcess, PreProcessDone,
                RequeueBuffer, DetectCopy, DetectRun, Aim, Pending
  <2>1. CASE CheckStop(w)
    <3>1. /\ UNCHANGED <<items, head, loaded>>
          /\ \A v \in Workers \ {w} : pc'[v] = pc[v]
          /\ pc[w] = "check" /\ pc'[w] = IF stop_requested THEN "exited" ELSE "empty"
      BY <2>1, <1>t DEF CheckStop
    <3>2. EnoughSeekers'
      <4>1. CASE stop_requested BY <4>1, <2>0 DEF EnoughSeekers
      <4>2. CASE ~stop_requested
        <5>1. Waiting' = Waiting /\ Seeking' = Seeking /\ Seeking' \subseteq Workers
          BY <4>2, <1>t, <3>1 DEF Waiting, Seeking, TickPcs
        <5> QED BY <1>t, <2>0, <3>1, <5>1, SeekersStay DEF Pending
      <4> QED BY <4>1, <4>2
    <3> QED BY <1>t, <2>0, <3>1, <3>2 DEF WakeInv, PredicateIsRecent, Bottom
  <2>2. CASE PredLoadTop(w)
    <3>1. /\ UNCHANGED <<items, head>> /\ loaded' = [loaded EXCEPT ![w] = 0]
          /\ \A v \in Workers \ {w} : pc'[v] = pc[v]
          /\ pc[w] = "pred_top" /\ pc'[w] = IF SeesEmpty(w) THEN "waiting" ELSE "steal"
      BY <2>2, <1>t DEF PredLoadTop
    <3>2. EnoughSeekers'
      <4>1. CASE SeesEmpty(w)
        <5>1. Len(items) - Pending <= 0
          BY <4>1, <1>t, <3>1 DEF SeesEmpty, PredicateIsRecent, Bottom, Pending
        <5>2. Seeking' \subseteq Workers
          BY DEF Seeking
        <5>3. Cardinality(Seeking') \in Nat
          BY <5>2, WorkersAssumption, FS_Subset, FS_CardinalityType
        <5>4. Len(items') - Pending' <= 0
          BY <5>1, <3>1, <2>0
        <5>5. Cardinality(Seeking') >= Len(items') - Pending'
          BY <5>3, <5>4, <1>t, <3>1 DEF Pending
        <5> QED BY <5>5 DEF EnoughSeekers, Pending
      <4>2. CASE ~SeesEmpty(w)
        <5>1. Waiting' = Waiting /\ Seeking' = Seeking /\ Seeking' \subseteq Workers
          BY <4>2, <1>t, <3>1 DEF Waiting, Seeking, TickPcs
        <5> QED BY <1>t, <2>0, <3>1, <5>1, SeekersStay DEF Pending
      <4> QED BY <4>1, <4>2
    <3> QED BY <1>t, <2>0, <3>1, <3>2 DEF WakeInv, PredicateIsRecent, Bottom
  <2>3. CASE Steal(w)
    <3>1. /\ Len(items') = Len(items) - 1 /\ head' = head + 1 /\ Len(items) > 0
          /\ loaded' = loaded
          /\ \A v \in Workers \ {w} : pc'[v] = pc[v]
          /\ pc[w] = "stealing" /\ pc'[w] = "tick"
      BY <2>3, <1>t DEF Steal, Queue!Steal
    <3>2. w \in Seeking /\ Seeking' = Seeking \ {w} /\ Waiting' = Waiting
      BY <3>1 DEF Seeking, Waiting, TickPcs
    <3>3. Cardinality(Seeking') = Cardinality(Seeking) - 1
      BY <3>2, SeekingFinite, FS_RemoveElement
    <3>4. EnoughSeekers'
      BY <1>t, <2>0, <3>1, <3>2, <3>3, SeekingFinite DEF EnoughSeekers, Pending
    <3>5. Bottom' = Bottom
      BY <1>t, <3>1 DEF Bottom
    <3> QED BY <1>t, <2>0, <3>1, <3>4, <3>5 DEF WakeInv, PredicateIsRecent
  <2>4. CASE LoadBottom(w)
    <3>1. /\ UNCHANGED <<items, head>> /\ loaded' = [loaded EXCEPT ![w] = Bottom]
          /\ \A v \in Workers \ {w} : pc'[v] = pc[v]
          /\ pc[w] \in {"empty", "pred_empty"} /\ pc'[w] \in {"empty_top", "pred_top"}
      BY <2>4, <1>t DEF LoadBottom
    <3>2. EnoughSeekers'
      <4>1. Waiting' = Waiting /\ Seeking' = Seeking /\ Seeking' \subseteq Workers
        BY <1>t, <3>1 DEF Waiting, Seeking, TickPcs
      <4> QED BY <1>t, <2>0, <3>1, <4>1, SeekersStay DEF Pending
    <3> QED BY <1>t, <2>0, <3>1, <3>2 DEF WakeInv, PredicateIsRecent, Bottom, Pending
  <2>5. CASE EmptyLoadTop(w) \/ Lock(w) \/ PredStop(w) \/ BeginSteal(w) \/ StealFails(w)
    <3>1. /\ UNCHANGED <<items, head>>
          /\ \A v \in Workers \ {w} : loaded'[v] = loaded[v] /\ pc'[v] = pc[v]
          /\ pc[w] \in {"empty_top", "lock", "pred", "steal", "stealing"}
          /\ pc'[w] \in {"lock", "steal", "pred", "pred_empty", "stealing", "check"}
      BY <2>5, <1>t DEF EmptyLoadTop, Lock, PredStop, BeginSteal, StealFails, Queue!BeginSteal,
                        Queue!FailSteal
    <3>2. EnoughSeekers'
      <4>1. Waiting' = Waiting /\ Seeking' = Seeking
        BY <3>1, <1>t DEF Waiting, Seeking, TickPcs
      <4> QED BY <1>t, <2>0, <3>1, <4>1, SeekersStay DEF Seeking, Pending
    <3> QED BY <1>t, <2>0, <3>1, <3>2 DEF WakeInv, PredicateIsRecent, Bottom
  <2>6. CASE TakeCore(w) \/ PreProcess(w) \/ PreProcessDone(w) \/ RequeueBuffer(w)
             \/ DetectCopy(w) \/ DetectRun(w) \/ Aim(w)
    <3>1. /\ UNCHANGED <<items, head, loaded>>
          /\ \A v \in Workers \ {w} : pc'[v] = pc[v]
          /\ pc[w] \in TickPcs /\ pc'[w] \in TickPcs \cup {"check"}
      BY <2>6, <1>t DEF TakeCore, PreProcess, PreProcessDone, RequeueBuffer, DetectCopy,
                        DetectRun, Aim, TickPcs
    <3>2. EnoughSeekers'
      <4>1. Waiting' = Waiting /\ Seeking \subseteq Seeking' /\ Seeking' \subseteq Workers
        BY <3>1, <1>t DEF Waiting, Seeking, TickPcs
      <4> QED BY <1>t, <2>0, <3>1, <4>1, SeekersStay DEF Pending
    <3>3. pc'[w] # "pred_top" /\ pc'[w] # "exited"
      BY <3>1 DEF TickPcs
    <3> QED BY <1>t, <2>0, <3>1, <3>2, <3>3 DEF WakeInv, PredicateIsRecent, Bottom
  <2> QED BY <1>4, <2>1, <2>2, <2>3, <2>4, <2>5, <2>6 DEF WorkerStep
<1>5. ASSUME NEW w \in Workers, SpuriousWakeup(w) \/ WorkerThrows(w) PROVE WakeInv'
  <2>1. /\ UNCHANGED <<items, head, loaded, main, stop_requested>> /\ Pending' = Pending
        /\ pc' = pc \/ (pc[w] = "waiting" /\ pc' = [pc EXCEPT ![w] = "lock"])
    BY <1>5 DEF SpuriousWakeup, WorkerThrows, Pending
  <2>2. Waiting' \subseteq Waiting /\ Seeking \subseteq Seeking' /\ Seeking' \subseteq Workers
    BY <2>1, <1>t DEF Waiting, Seeking, TickPcs
  <2>3. EnoughSeekers'
    BY <1>t, <2>1, <2>2, SeekersStay DEF Pending
  <2> QED BY <1>t, <2>1, <2>3 DEF WakeInv, PredicateIsRecent, Bottom
<1>6. CASE UNCHANGED vars
  BY <1>6, <1>t DEF vars, WakeInv, EnoughSeekers, PredicateIsRecent, Bottom, Pending, Waiting,
                    Seeking
<1> QED BY <1>1, <1>2, <1>3, <1>4, <1>5, <1>6 DEF Next

\* One notify_one per push is enough: as long as a worker sleeps, there are as
\* many workers on their way to the queue as there are notified items in it.
THEOREM NotificationsSuffice == Spec => []EnoughSeekers
<1>1. TypeInv /\ WakeInv => EnoughSeekers
  BY DEF WakeInv
<1> QED BY <1>1, TypeInit, TypeNext, WakeInit, WakeNext, PTL DEF Spec

\* A frame whose notification has been sent never waits with every worker asleep.
THEOREM NoWakeupIsLost == Spec => []NoLostWakeup
<1>1. TypeInv /\ WakeInv => NoLostWakeup
  <2> SUFFICES ASSUME TypeInv, WakeInv, items # <<>>, main # "notify", ~stop_requested
               PROVE  \E w \in Workers : pc[w] \notin {"waiting", "exited"}
    BY DEF NoLostWakeup
  <2>1. Len(items) \in Nat \ {0}
    BY DEF TypeInv, TypeOK
  <2>2. CASE Waiting = {}
    BY <2>2, WorkersAssumption DEF WakeInv, Waiting
  <2>3. CASE Waiting # {}
    <3>1. Cardinality(Seeking) > 0
      BY <2>1, <2>3, SeekingFinite DEF WakeInv, EnoughSeekers
    <3>2. Seeking # {}
      BY <3>1, FS_EmptySet
    <3> QED BY <3>2 DEF Seeking
  <2> QED BY <2>2, <2>3
<1> QED BY <1>1, TypeInit, TypeNext, WakeInit, WakeNext, PTL DEF Spec

-------------------------------------------------------------------------------
(* What a worker aims at.                                                  *)

Newer(image, n) == \A f \in image : f >= n

\* What worker w relies on while nobody shares its core: the buffer and its
\* image are only overwritten by later frames, and the core's tensor and list
\* hold nothing of an earlier one.
Fresh(w) ==
    /\ pc[w] \in {"resize", "crop", "requeue", "detect"} => frame[got[w]] >= tick[w].frame
    /\ pc[w] \in {"requeue", "detect"} => Newer(out_data[got[w]], tick[w].frame)
    /\ pc[w] \in TickPcs \ {"tick", "aim"} /\ ~tick[w].clash => boxes[tick[w].core] = {}
    /\ pc[w] = "infer" /\ ~tick[w].clash => Newer(tensor[tick[w].core], tick[w].frame)
    /\ pc[w] = "aim" /\ ~tick[w].clash =>
          \A image \in boxes[tick[w].core] : Newer(image, tick[w].frame)

\* Two workers on one core know of each other.
ClashIsSeen ==
    \A v, w \in Workers :
        v # w /\ tick[v].core = tick[w].core /\ tick[w].core \in Cores => tick[w].clash

FreshInv ==
    /\ \A b \in Buffers : frame[b] <= frames
    /\ ClashIsSeen
    /\ \A w \in Workers : Fresh(w)

LEMMA FreshInit == Init => FreshInv
  BY FramesAssumption DEF Init, FreshInv, ClashIsSeen, Fresh, TickPcs, NoTick, Cores

\* The steps outside of TickFrame().
LEMMA FreshKept ==
  ASSUME FreshInv, UNCHANGED <<frames, frame, out_data, tick, tensor, boxes>>,
         \A w \in Workers : pc'[w] \in TickPcs \ {"tick"} => pc'[w] = pc[w] /\ got'[w] = got[w]
  PROVE  FreshInv'
<1>1. ClashIsSeen'
  BY DEF FreshInv, ClashIsSeen
<1>2. ASSUME NEW w \in Workers PROVE Fresh(w)'
  <2>1. CASE pc'[w] \in TickPcs \ {"tick"}
    <3>1. pc'[w] = pc[w] /\ got'[w] = got[w] /\ Fresh(w)
      BY <2>1 DEF FreshInv
    <3> QED BY <3>1 DEF Fresh, Newer
  <2>2. CASE pc'[w] \notin TickPcs \ {"tick"}
    BY <2>2 DEF Fresh, TickPcs
  <2> QED BY <2>1, <2>2
<1> QED BY <1>1, <1>2 DEF FreshInv

LEMMA FreshTypes ==
  ASSUME TypeInv
  PROVE  /\ pc \in [Workers -> WorkerPcs] /\ got \in [Workers -> Buffers \cup {NoBuffer}]
         /\ frames \in Nat /\ frame \in [Buffers -> Nat]
         /\ out_data \in [Buffers -> Images] /\ tensor \in [Cores -> Images]
         /\ boxes \in [Cores -> SUBSET Images]
         /\ tick \in [Workers -> [core : Cores \cup {-1}, frame : Nat, clash : BOOLEAN]]
         /\ \A w \in Workers : pc[w] \in TickPcs => got[w] \in Buffers
         /\ \A w \in Workers : pc[w] \in TickPcs \ {"tick"} => tick[w].core \in Cores
         /\ \A w \in Workers : tick[w].frame \in Nat /\ tick[w].clash \in BOOLEAN
         /\ \A image \in Images : image \subseteq Nat
<1>1. frames \in Nat /\ frame \in [Buffers -> Nat] /\ \A image \in Images : image \subseteq Nat
  BY FramesAssumption DEF TypeInv, TypeOK, Images
<1>2. tick \in [Workers -> [core : Cores \cup {-1}, frame : Nat, clash : BOOLEAN]]
  BY FramesAssumption DEF TypeInv, TypeOK
<1>3. \A w \in Workers : tick[w].frame \in Nat /\ tick[w].clash \in BOOLEAN
  BY <1>2
<1> QED BY <1>1, <1>2, <1>3 DEF TypeInv, TypeOK, HasBuffer, HasCore

LEMMA FreshTick ==
  ASSUME TypeInv, FreshInv, NEW w \in Workers,
         TakeCore(w) \/ PreProcess(w) \/ PreProcessDone(w) \/ RequeueBuffer(w) \/ DetectCopy(w)
           \/ DetectRun(w) \/ Aim(w)
  PROVE  FreshInv'
<1> USE FreshTypes DEF Goto, queueVars, videoVars, npuVars
<1>0. /\ \A b \in Buffers : frame[b] <= frames
      /\ \A v \in Workers : Fresh(v)
      /\ UNCHANGED <<frames, frame, got>>
      /\ \A v \in Workers \ {w} : pc'[v] = pc[v]
  BY DEF FreshInv, TakeCore, PreProcess, PreProcessDone, RequeueBuffer, DetectCopy, DetectRun, Aim
<1>1. CASE TakeCore(w)
  <2> DEFINE c == NextNPUCoreIndex
  <2>1. c \in Cores
    BY CoreInRange DEF NextNPUCoreIndex, TypeInv, TypeOK
  <2>2. /\ UNCHANGED <<out_data, tensor>> /\ boxes' = [boxes EXCEPT ![c] = {}]
        /\ pc'[w] = "resize"
        /\ tick'[w] = [core |-> c, frame |-> frame[got[w]], clash |-> Sharing(w, c) # {}]
        /\ \A v \in Workers \ {w} :
              tick'[v] = IF tick[v].core = c
                         THEN [core |-> c, frame |-> tick[v].frame, clash |-> TRUE]
                         ELSE tick[v]
    BY <1>1 DEF TakeCore, Sharing
  <2>a. /\ tick'[w].core = c /\ tick'[w].frame = frame[got[w]]
        /\ Sharing(w, c) # {} => tick'[w].clash
    <3>1. Sharing(w, c) # {} =>
             tick'[w] = [core |-> c, frame |-> frame[got[w]], clash |-> TRUE]
      BY <2>2
    <3>2. Sharing(w, c) # {} => tick'[w].clash
      BY <3>1
    <3>3. tick'[w].core = c /\ tick'[w].frame = frame[got[w]]
      BY <2>2
    <3> QED BY <3>2, <3>3
  <2>b. \A v \in Workers \ {w} :
           /\ tick[v].core = c => /\ tick'[v].core = c /\ tick'[v].frame = tick[v].frame
                                 /\ tick'[v].clash
           /\ tick[v].core # c => tick'[v] = tick[v]
    <3> SUFFICES ASSUME NEW v \in Workers \ {w}
                 PROVE  /\ tick[v].core = c => /\ tick'[v].core = c
                                              /\ tick'[v].frame = tick[v].frame
                                              /\ tick'[v].clash
                        /\ tick[v].core # c => tick'[v] = tick[v]
      OBVIOUS
    <3>1. CASE tick[v].core = c
      <4>1. tick'[v] = [core |-> c, frame |-> tick[v].frame, clash |-> TRUE]
        BY <2>2, <3>1
      <4> QED BY ONLY <3>1, <4>1
    <3>2. CASE tick[v].core # c
      BY <2>2, <3>2
    <3> QED BY <3>1, <3>2
  <2> HIDE DEF c
  <2>3. ClashIsSeen'
    <3> SUFFICES ASSUME NEW u \in Workers, NEW v \in Workers, u # v,
                        tick'[u].core = tick'[v].core, tick'[v].core \in Cores
                 PROVE  tick'[v].clash
      BY DEF ClashIsSeen
    <3>1. CASE v = w
      <4>1. tick'[u].core = c /\ tick[u].core = c
        BY <2>a, <2>b, <3>1
      <4>2. u \in Sharing(w, c)
        BY <3>1, <4>1 DEF Sharing
      <4> QED BY <2>a, <3>1, <4>2
    <3>2. CASE u = w
      <4>1. tick'[v].core = c /\ v \in Workers \ {w}
        BY <2>a, <3>2
      <4> QED BY <2>b, <4>1
    <3>3. CASE v # w /\ u # w
      <4>1. tick'[v].core = tick[v].core /\ tick'[u].core = tick[u].core
        BY <2>b, <3>3
      <4>2. tick[v].clash
        BY <4>1 DEF FreshInv, ClashIsSeen
      <4> QED BY <2>b, <3>3, <4>2
    <3> QED BY <3>1, <3>2, <3>3
  <2>4. Fresh(w)'
    <3>1. boxes'[tick'[w].core] = {} /\ frame'[got'[w]] >= tick'[w].frame
      BY <1>0, <1>1, <2>1, <2>2 DEF TakeCore, TickPcs
    <3> QED BY <2>2, <3>1 DEF Fresh
  <2>5. ASSUME NEW v \in Workers \ {w} PROVE Fresh(v)'
    <3>1. CASE tick[v].core = c
      <4>1. tick'[v].clash /\ tick'[v].frame = tick[v].frame
        BY <2>b, <3>1
      <4> QED BY <1>0, <2>2, <4>1 DEF Fresh, Newer
    <3>2. CASE tick[v].core # c
      <4>1. tick'[v] = tick[v] /\ Fresh(v) /\ pc'[v] = pc[v]
        BY <1>0, <2>b, <3>2
      <4>2. tick[v].core \in Cores => boxes'[tick[v].core] = boxes[tick[v].core]
        BY <2>1, <2>2, <3>2
      <4> QED BY <1>0, <2>2, <4>1, <4>2 DEF Fresh, Newer, TickPcs
    <3> QED BY <3>1, <3>2
  <2> QED BY <1>0, <2>3, <2>4, <2>5 DEF FreshInv
<1>2. CASE PreProcess(w) \/ PreProcessDone(w)
  <2>1. /\ UNCHANGED <<tick, tensor, boxes>>
        /\ got[w] \in Buffers /\ frame[got[w]] \in Nat
        /\ \A b \in Buffers \ {got[w]} : out_data'[b] = out_data[b]
        /\ out_data'[got[w]] \subseteq out_data[got[w]] \cup {frame[got[w]]}
        /\ pc'[w] = "requeue" => out_data'[got[w]] = {frame[got[w]]}
        /\ pc[w] \in {"resize", "crop"} /\ pc'[w] \in {"crop", "requeue"}
    BY <1>2 DEF PreProcess, PreProcessDone, TickPcs
  <2>2. ClashIsSeen'
    BY <2>1 DEF FreshInv, ClashIsSeen
  <2>3. Fresh(w)'
    BY <1>0, <2>1 DEF Fresh, Newer, TickPcs
  <2>4. ASSUME NEW v \in Workers \ {w} PROVE Fresh(v)'
    <3>1. pc[v] \in {"requeue", "detect"} => Newer(out_data'[got[v]], tick[v].frame)
      BY <1>0, <2>1 DEF Fresh, Newer, TickPcs
    <3> QED BY <1>0, <2>1, <3>1 DEF Fresh, Newer
  <2> QED BY <1>0, <2>2, <2>3, <2>4 DEF FreshInv
<1>3. CASE RequeueBuffer(w) \/ Aim(w)
  <2>1. /\ UNCHANGED <<out_data, tensor, boxes>>
        /\ \A v \in Workers \ {w} : tick'[v] = tick[v]
        /\ \/ pc[w] = "requeue" /\ pc'[w] = "detect" /\ tick'[w] = tick[w]
           \/ pc'[w] = "check" /\ tick'[w].core = -1
    BY <1>3 DEF RequeueBuffer, Aim, NoTick
  <2>2. ClashIsSeen'
    <3>1. CASE tick'[w] = tick[w]
      <4>1. \A v \in Workers : tick'[v] = tick[v]
        BY <2>1, <3>1
      <4> QED BY <4>1 DEF FreshInv, ClashIsSeen
    <3>2. CASE tick'[w].core = -1
      <4>1. -1 \notin Cores
        BY DEF Cores
      <4> QED BY <2>1, <3>2, <4>1 DEF FreshInv, ClashIsSeen
    <3> QED BY <2>1, <3>1, <3>2
  <2>3. Fresh(w)'
    BY <1>0, <2>1 DEF Fresh, Newer, TickPcs
  <2>4. ASSUME NEW v \in Workers \ {w} PROVE Fresh(v)'
    BY <1>0, <2>1 DEF Fresh, Newer
  <2> QED BY <1>0, <2>2, <2>3, <2>4 DEF FreshInv
<1>4. CASE DetectCopy(w)
  <2>1. /\ UNCHANGED <<out_data, tick, boxes>>
        /\ tensor' = [tensor EXCEPT ![tick[w].core] = out_data[got[w]]]
        /\ pc[w] = "detect" /\ pc'[w] = "infer" /\ tick[w].core \in Cores
    BY <1>4 DEF DetectCopy, TickPcs
  <2>2. ClashIsSeen /\ ClashIsSeen'
    BY <2>1 DEF FreshInv, ClashIsSeen
  <2>3. Fresh(w)'
    BY <1>0, <2>1 DEF Fresh, Newer, TickPcs
  <2>4. ASSUME NEW v \in Workers \ {w} PROVE Fresh(v)'
    <3>1. pc[v] = "infer" /\ ~tick[v].clash => tensor'[tick[v].core] = tensor[tick[v].core]
      BY <2>1, <2>2 DEF ClashIsSeen, TickPcs
    <3> QED BY <1>0, <2>1, <3>1 DEF Fresh, Newer
  <2> QED BY <1>0, <2>2, <2>3, <2>4 DEF FreshInv
<1>5. CASE DetectRun(w)
  <2>1. /\ UNCHANGED <<out_data, tick, tensor>>
        /\ pc[w] = "infer" /\ pc'[w] = "aim" /\ tick[w].core \in Cores
        /\ \A c \in Cores \ {tick[w].core} : boxes'[c] = boxes[c]
        /\ ~tick[w].clash =>
              boxes'[tick[w].core] = boxes[tick[w].core] \cup {tensor[tick[w].core]}
    BY <1>5 DEF DetectRun, TickPcs
  <2>2. ClashIsSeen /\ ClashIsSeen'
    BY <2>1 DEF FreshInv, ClashIsSeen
  <2>3. Fresh(w)'
    <3>1. ASSUME ~tick[w].clash PROVE boxes'[tick[w].core] = {tensor[tick[w].core]}
      BY <1>0, <2>1, <3>1 DEF Fresh, TickPcs
    <3>2. ~tick[w].clash => Newer(tensor[tick[w].core], tick[w].frame)
      BY <1>0, <2>1 DEF Fresh
    <3> QED BY <2>1, <3>1, <3>2 DEF Fresh, TickPcs
  <2>4. ASSUME NEW v \in Workers \ {w} PROVE Fresh(v)'
    <3>1. pc[v] \in TickPcs \ {"tick"} /\ ~tick[v].clash
             => boxes'[tick[v].core] = boxes[tick[v].core]
      BY <2>1, <2>2 DEF ClashIsSeen
    <3> QED BY <1>0, <2>1, <3>1 DEF Fresh, Newer, TickPcs
  <2> QED BY <1>0, <2>2, <2>3, <2>4 DEF FreshInv
<1> QED BY <1>1, <1>2, <1>3, <1>4, <1>5

LEMMA FreshNext == TypeInv /\ FreshInv /\ [Next]_vars => FreshInv'
<1> SUFFICES ASSUME TypeInv, FreshInv, [Next]_vars PROVE FreshInv'
  OBVIOUS
<1>t. pc \in [Workers -> WorkerPcs] /\ got \in [Workers -> Buffers \cup {NoBuffer}]
  BY FreshTypes
<1> USE DEF dataVars, queueVars, videoVars, npuVars, Goto, MainGoto
<1>1. CASE DequeueBuffer
  <2>1. PICK b \in driver : frames' = frames + 1 /\ frame' = [frame EXCEPT ![b] = frames + 1]
    BY <1>1 DEF DequeueBuffer
  <2>2. UNCHANGED <<pc, got, out_data, tick, tensor, boxes>>
    BY <1>1 DEF DequeueBuffer
  <2>3. \A x \in Buffers : frame'[x] >= frame[x] /\ frame'[x] <= frames'
    BY <2>1, FreshTypes DEF FreshInv
  <2>4. ASSUME NEW w \in Workers PROVE Fresh(w)'
    <3>1. pc[w] \in {"resize", "crop", "requeue", "detect"} => frame'[got[w]] >= tick[w].frame
      <4> SUFFICES ASSUME pc[w] \in {"resize", "crop", "requeue", "detect"}
                   PROVE  frame'[got[w]] >= tick[w].frame
        OBVIOUS
      <4>1. got[w] \in Buffers /\ frame[got[w]] >= tick[w].frame
        BY FreshTypes DEF TickPcs, FreshInv, Fresh
      <4>2. frame[got[w]] \in Nat /\ frame'[got[w]] \in Nat /\ tick[w].frame \in Nat
        BY <2>1, <4>1, FreshTypes
      <4> QED BY <2>3, <4>1, <4>2
    <3> QED BY <2>2, <3>1 DEF FreshInv, Fresh, Newer
  <2>5. ClashIsSeen'
    BY <2>2 DEF FreshInv, ClashIsSeen
  <2> QED BY <2>3, <2>4, <2>5 DEF FreshInv
<1>2. CASE MainStep /\ ~DequeueBuffer
  <2>1. UNCHANGED <<frames, frame, out_data, tick, tensor, boxes, got>>
    BY <1>2 DEF MainStep, Open, LoadModel, StartStreaming, LoopTest, PushWork, NotifyOne,
       StopStreaming, NotifyAll, Join, Queue!Push
  <2>2. \A w \in Workers : pc'[w] = pc[w] \/ pc'[w] = "lock"
    BY <1>t, <1>2 DEF MainStep, Open, LoadModel, StartStreaming, LoopTest, PushWork, NotifyOne,
       StopStreaming, NotifyAll, Join, Waiting
  <2> QED BY <2>1, <2>2, FreshKept DEF TickPcs
<1>3. CASE Destroy \/ MainThrows \/ Stop
  BY <1>3, FreshKept DEF Destroy, MainThrows, Stop
<1>4. ASSUME NEW w \in Workers,
             \/ CheckStop(w) \/ LoadBottom(w) \/ EmptyLoadTop(w) \/ Lock(w) \/ PredStop(w)
             \/ PredLoadTop(w) \/ BeginSteal(w) \/ Steal(w) \/ StealFails(w)
             \/ SpuriousWakeup(w) \/ WorkerThrows(w)
      PROVE  FreshInv'
  <2>1. UNCHANGED <<frames, frame, out_data, tick, tensor, boxes>>
    BY <1>4 DEF CheckStop, LoadBottom, EmptyLoadTop, Lock, PredStop, PredLoadTop, BeginSteal,
       Steal, StealFails, SpuriousWakeup, WorkerThrows
  <2>2. \A v \in Workers :
           pc'[v] \in TickPcs \ {"tick"} => pc'[v] = pc[v] /\ got'[v] = got[v]
    BY <1>4, <1>t DEF CheckStop, LoadBottom, EmptyLoadTop, Lock, PredStop, PredLoadTop, BeginSteal,
       Steal, StealFails, SpuriousWakeup, WorkerThrows, TickPcs, Queue!BeginSteal, Queue!Steal,
       Queue!FailSteal
  <2> QED BY <2>1, <2>2, FreshKept
<1>5. ASSUME NEW w \in Workers, WorkerStep(w) PROVE FreshInv'
  BY <1>4, <1>5, FreshTick DEF WorkerStep
<1>6. CASE UNCHANGED vars
  BY <1>6, FreshKept DEF vars
<1> QED BY <1>1, <1>2, <1>3, <1>4, <1>5, <1>6 DEF Next

\* Although a buffer goes back to the driver before detection in it begins, a
\* worker that has its NPU core to itself aims at nothing older than its frame.
THEOREM AimsAreNeverStale == Spec => []NeverAimsAtThePast
<1>1. FreshInv => NeverAimsAtThePast
  BY DEF FreshInv, Fresh, Newer, NeverAimsAtThePast
<1> QED BY <1>1, TypeInit, TypeNext, FreshInit, FreshNext, PTL DEF Spec
===============================================================================
