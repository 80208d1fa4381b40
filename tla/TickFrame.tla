------------------------------- MODULE TickFrame -------------------------------
(***************************************************************************)
(* The second half of AimbotFPS::TickFrame(), on every worker thread: the  *)
(* detection, the choice of a target, the two PID filters and the call     *)
(* that moves the mouse.  The threads share the filters without a lock.    *)
(*                                                                         *)
(* What comes before, the queue, the images and the cores, is in           *)
(* AimbotFPS.  Each worker is taken to have a core, with its model and     *)
(* lists of boxes, to itself here; what happens when two of them meet on a *)
(* core is there, too.                                                     *)
(***************************************************************************)
EXTENDS Yolo, Sequences

CONSTANTS
    Workers,
    Frames,         \* Frames[w]: the outputs of inference that worker w may get
    Angle(_, _)     \* see ErrorOf

Axes == {"x", "y"}

ASSUME FramesAssumption ==
    /\ IsFiniteSet(Cells)
    /\ \A w \in Workers : Frames[w] \subseteq Outputs

VARIABLES
    pc,             \* where each worker is in TickFrame()
    output,         \* the output tensors of the worker's core
    boxes,          \* Yolo::boxes, sorted
    row,            \* i in DoNonMaxSuppression()
    found,          \* boxes_out: places in boxes
    error,          \* the arguments of the worker's two Update() calls
    loaded,         \* the pre_error that Update() has loaded, for each axis
    pre_error,      \* the filters'
    updates         \* history: the errors that Update() was called with

detectVars == <<output, boxes, row, found>>
vars == <<pc, detectVars, error, loaded, pre_error, updates>>

NoOutput == << >>
NoError == [a \in Axes |-> 0]

Goto(w, from, to) == pc[w] = from /\ pc' = [pc EXCEPT ![w] = to]

Init ==
    /\ pc = [w \in Workers |-> "detect"]
    /\ output = [w \in Workers |-> NoOutput]
    /\ boxes = [w \in Workers |-> << >>]
    /\ row = [w \in Workers |-> 1]
    /\ found = [w \in Workers |-> {}]
    /\ error = [w \in Workers |-> NoError]
    /\ loaded = [w \in Workers |-> NoError]
    /\ pre_error = NoError
    /\ updates = [a \in Axes |-> {}]

-------------------------------------------------------------------------------
(* Yolo::Detect().                                                         *)

\* The boxes of the candidates, in the order that std::sort gives them.
PostProcess(w, out, order) ==
    /\ boxes' = [boxes EXCEPT ![w] = [k \in DOMAIN order |-> BoxOf(order[k], out[order[k]])]]
    /\ Sorted(boxes'[w])

Infer(w) ==
    /\ Goto(w, "detect", "suppress")
    /\ \E out \in Frames[w] :
           /\ output' = [output EXCEPT ![w] = out]
           /\ \E order \in [1 .. Cardinality(Candidates(out)) -> Candidates(out)] :
                  /\ Candidates(out) = {order[k] : k \in DOMAIN order}
                  /\ PostProcess(w, out, order)
    /\ row' = [row EXCEPT ![w] = 1]
    /\ UNCHANGED <<found, error, loaded, pre_error, updates>>

Suppress(w) ==
    /\ pc[w] = "suppress" /\ row[w] <= Len(boxes[w])
    /\ boxes' = [boxes EXCEPT ![w] = SuppressBy(@, row[w])]
    /\ row' = [row EXCEPT ![w] = @ + 1]
    /\ UNCHANGED <<pc, output, found, error, loaded, pre_error, updates>>

Report(w) ==
    /\ row[w] > Len(boxes[w])
    /\ Goto(w, "suppress", "aim")
    /\ found' = [found EXCEPT ![w] = Reported(boxes[w])]
    /\ UNCHANGED <<output, boxes, row, error, loaded, pre_error, updates>>

-------------------------------------------------------------------------------
(* The target: 15 per cent below the top of the box, in the middle.        *)
(* Twentieths of the coordinates' unit, from the centre of the image.      *)

Target(b) ==
    [x |-> 10 * (b.x1 + b.x2) - 10 * ImageSize * Sub,
     y |-> 20 * b.y1 + 3 * (b.y2 - b.y1) - 10 * ImageSize * Sub]

Distance2(b) == Target(b).x * Target(b).x + Target(b).y * Target(b).y

\* The first of the closest boxes.
Closest(bs, places) ==
    CHOOSE k \in places :
        \A l \in places : \/ Distance2(bs[k]) < Distance2(bs[l])
                          \/ Distance2(bs[k]) = Distance2(bs[l]) /\ k <= l

\* Angle(a, d) is what scaling, atan2f() and the multiplication with the
\* image's size make of an offset d, in the unit of the errors.
ErrorOf(b) == [a \in Axes |-> Angle(a, IF a = "x" THEN Target(b).x ELSE Target(b).y)]

ASSUME AngleAssumption ==
    \A w \in Workers : \A out \in Frames[w] : \A cell \in Cells :
        ErrorOf(BoxOf(cell, out[cell])) \in [Axes -> Int]

\* Mutant of Forget: TickFrame() does not clear the list of the frame before.
ForgetNotFound(w) ==
    /\ output' = [output EXCEPT ![w] = NoOutput]
    /\ boxes' = [boxes EXCEPT ![w] = << >>]
    /\ row' = [row EXCEPT ![w] = 1]
    /\ UNCHANGED found

\* Both lists are cleared before the next frame: boxes by Detect(), and
\* npu_resource->boxes by TickFrame().  The tensors are not used any more.
Forget(w) ==
    /\ output' = [output EXCEPT ![w] = NoOutput]
    /\ boxes' = [boxes EXCEPT ![w] = << >>]
    /\ row' = [row EXCEPT ![w] = 1]
    /\ found' = [found EXCEPT ![w] = {}]

AimAtNothing(w) ==
    /\ found[w] = {}
    /\ Goto(w, "aim", "detect")
    /\ Forget(w)
    /\ UNCHANGED <<error, loaded, pre_error, updates>>

Aim(w) ==
    /\ found[w] # {}
    /\ Goto(w, "aim", "load x")
    /\ error' = [error EXCEPT ![w] = ErrorOf(boxes[w][Closest(boxes[w], found[w])])]
    /\ Forget(w)
    /\ UNCHANGED <<loaded, pre_error, updates>>

-------------------------------------------------------------------------------
(* base::PID::Update(), for pid_x and then pid_y: the load and the store   *)
(* of pre_error.  With ki = 0 the integral has no part in the output.      *)

LoadPc(a) == IF a = "x" THEN "load x" ELSE "load y"
StorePc(a) == IF a = "x" THEN "store x" ELSE "store y"
NextPc(a) == IF a = "x" THEN "load y" ELSE "move"

\* Mutant of Load: both calls are of pid_x.
LoadX(w, a) ==
    /\ Goto(w, LoadPc(a), StorePc(a))
    /\ loaded' = [loaded EXCEPT ![w][a] = pre_error["x"]]
    /\ updates' = [updates EXCEPT ![a] = @ \union {error[w][a]}]
    /\ UNCHANGED <<detectVars, error, pre_error>>

Load(w, a) ==
    /\ Goto(w, LoadPc(a), StorePc(a))
    /\ loaded' = [loaded EXCEPT ![w][a] = pre_error[a]]
    /\ updates' = [updates EXCEPT ![a] = @ \union {error[w][a]}]
    /\ UNCHANGED <<detectVars, error, pre_error>>

Store(w, a) ==
    /\ Goto(w, StorePc(a), NextPc(a))
    /\ pre_error' = [pre_error EXCEPT ![a] = error[w][a]]
    /\ UNCHANGED <<detectVars, error, loaded, updates>>

\* In tenths of the errors' unit, for kp = 1.6, kd = 0.15, dt = 0.05 and
\* limits of 65: kp * e + kd * (e - pre) / dt.
Filter(e, pre) ==
    LET output10 == 16 * e + 30 * (e - pre)
    IN  IF output10 < -650 THEN -650 ELSE IF output10 > 650 THEN 650 ELSE output10

Movement(w) == [a \in Axes |-> Filter(error[w][a], loaded[w][a])]

\* move_callback(); TickFrame() returns.
Move(w) ==
    /\ Goto(w, "move", "detect")
    /\ error' = [error EXCEPT ![w] = NoError]
    /\ loaded' = [loaded EXCEPT ![w] = NoError]
    /\ UNCHANGED <<detectVars, pre_error, updates>>

Next ==
    \E w \in Workers :
        \/ Infer(w) \/ Suppress(w) \/ Report(w) \/ AimAtNothing(w) \/ Aim(w)
        \/ \E a \in Axes : Load(w, a) \/ Store(w, a)
        \/ Move(w)

Spec == Init /\ [][Next]_vars

-------------------------------------------------------------------------------
(* Correctness.                                                            *)

Boxes == [class_id : {0, -1}, score : Int8, x1 : Int, y1 : Int, x2 : Int, y2 : Int]

\* Every variable has its type.
TypeOK ==
    /\ pc \in [Workers -> {"detect", "suppress", "aim", "load x", "store x",
                           "load y", "store y", "move"}]
    /\ output \in [Workers -> Outputs \union {NoOutput}]
    /\ boxes \in [Workers -> Seq(Boxes)]
    /\ row \in [Workers -> Nat] /\ \A w \in Workers : row[w] \in 1 .. (Len(boxes[w]) + 1)
    /\ found \in [Workers -> SUBSET Nat]
    /\ \A w \in Workers : found[w] \subseteq DOMAIN boxes[w]
    /\ error \in [Workers -> [Axes -> Int]]
    /\ loaded \in [Workers -> [Axes -> Int]]
    /\ pre_error \in [Axes -> Int]
    /\ updates \in [Axes -> SUBSET Int]

\* The score of a cell is above the threshold by at least the one count that
\* truncating the threshold may cost, and its sum is above the noise.
Confident(o) ==
    /\ 100 * (o.score - ScoreZp) >= Threshold + 100
    /\ 100 * (o.sum - SumZp) >= SumNoise

\* The boxes that Detect() hands out are boxes of the image's cells, no two of
\* them overlap by threshold_nms, and no object is lost: whoever is confident
\* is handed out, or overlaps a box that is handed out and scores no less.
NonMaxSuppressed ==
    \A w \in Workers :
        pc[w] = "aim" =>
            /\ \A k \in found[w] : \E cell \in Cells :
                   boxes[w][k] = BoxOf(cell, output[w][cell])
            /\ \A k, l \in found[w] : k # l => ~Overlap(boxes[w][k], boxes[w][l])
            /\ \A cell \in Cells :
                   Confident(output[w][cell]) =>
                       \E k \in found[w] :
                           LET b == BoxOf(cell, output[w][cell])
                           IN  \/ boxes[w][k] = b
                               \/ boxes[w][k].score >= b.score /\ Overlap(boxes[w][k], b)

\* However the workers' updates interleave, a movement goes towards its own
\* target, unless an earlier update of the same filter had a larger error to
\* the same side, which the derivative term brakes; without an error nothing
\* moves before some update had one.
MovesTowardsTarget ==
    \A w \in Workers, a \in Axes :
        pc[w] = "move" =>
            LET e == error[w][a]
                m == Movement(w)[a]
            IN  \/ e > 0 /\ m > 0
                \/ e < 0 /\ m < 0
                \/ e = 0 /\ m = 0
                \/ \E p \in updates[a] :
                       (e > 0 => p > e) /\ (e < 0 => p < e) /\ (e = 0 => p # 0)

===============================================================================
