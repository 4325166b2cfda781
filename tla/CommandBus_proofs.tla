---------------------------- MODULE CommandBus_proofs ----------------------------
(***************************************************************************)
(* Theorems about CommandBus, for every clip, depth and tool.              *)
(***************************************************************************)
EXTENDS CommandBus, SequenceTheorems, TLAPS

IsSequence(q) == \E S : q \in Seq(S)

-------------------------------------------------------------------------------
(* The queue.                                                              *)

(* Append, and Tail, of any sequence.                                      *)
LEMMA AppendAndTail ==
  ASSUME NEW q, IsSequence(q), NEW c
  PROVE  /\ Len(q) \in Nat /\ DOMAIN q = 1 .. Len(q)
         /\ IsSequence(Append(q, c)) /\ Len(Append(q, c)) = Len(q) + 1
         /\ \A i \in 1 .. Len(q) : Append(q, c)[i] = q[i]
         /\ Append(q, c)[Len(q) + 1] = c
         /\ q # <<>> =>
              /\ IsSequence(Tail(q)) /\ Len(Tail(q)) = Len(q) - 1 /\ Len(q) > 0
              /\ Head(q) = q[1]
              /\ \A i \in 1 .. Len(q) - 1 : Tail(q)[i] = q[i + 1]
<1>1. PICK S : q \in Seq(S)
  BY DEF IsSequence
<1>2. q \in Seq(S \cup {c})
  BY <1>1
<1>3. /\ Append(q, c) \in Seq(S \cup {c})
      /\ Len(Append(q, c)) = Len(q) + 1
      /\ \A i \in 1 .. Len(q) : Append(q, c)[i] = q[i]
      /\ Append(q, c)[Len(q) + 1] = c
  BY <1>2, AppendProperties
<1>4. IsSequence(Append(q, c))
  BY <1>3 DEF IsSequence
<1>5. ASSUME q # <<>>
      PROVE  /\ IsSequence(Tail(q)) /\ Len(Tail(q)) = Len(q) - 1 /\ Len(q) > 0
             /\ Head(q) = q[1]
             /\ \A i \in 1 .. Len(q) - 1 : Tail(q)[i] = q[i + 1]
  <2>1. Tail(q) \in Seq(S)
    BY <1>1, <1>5
  <2>2. IsSequence(Tail(q))
    BY <2>1 DEF IsSequence
  <2> QED
    BY <1>1, <1>5, <2>2
<1> QED
  BY <1>1, <1>3, <1>4, <1>5

(* Deliver appends the command and drops at most the oldest one.           *)
LEMMA Delivered ==
  ASSUME IsSequence(queue), NEW c, Deliver(c)
  PROVE  /\ IsSequence(queue')
         /\ \E h \in {0, 1} :
              \A i \in 1 .. Len(queue') :
                \/ i + h \in 1 .. Len(queue) /\ queue'[i] = queue[i + h]
                \/ i = Len(queue') /\ queue'[i] = c
<1> DEFINE q == Append(queue, c)
<1>1. /\ Len(queue) \in Nat /\ IsSequence(q) /\ Len(q) = Len(queue) + 1
      /\ \A i \in 1 .. Len(queue) : q[i] = queue[i]
      /\ q[Len(queue) + 1] = c
  BY AppendAndTail
<1>2. /\ q # <<>>
      /\ IsSequence(Tail(q)) /\ Len(Tail(q)) = Len(q) - 1
      /\ \A i \in 1 .. Len(q) - 1 : Tail(q)[i] = q[i + 1]
  <2>1. q # <<>>
    BY <1>1
  <2> QED
    BY <1>1, <2>1, AppendAndTail
<1>3. queue' = q \/ queue' = Tail(q)
  BY DEF Deliver
<1> HIDE DEF q
<1>4. CASE queue' = q
  <2>1. Len(queue') = Len(queue) + 1 - 0
    BY <1>1, <1>4
  <2>2. \A i \in 1 .. Len(queue') :
          \/ i + 0 \in 1 .. Len(queue) /\ queue'[i] = queue[i + 0]
          \/ i = Len(queue') /\ queue'[i] = c
    BY <2>1, <1>1, <1>4
  <2> QED
    BY <1>1, <1>4, <2>2
<1>5. CASE queue' = Tail(q)
  <2>1. Len(queue') = Len(queue) + 1 - 1
    BY <1>1, <1>2, <1>5
  <2>2. \A i \in 1 .. Len(queue') :
          \/ i + 1 \in 1 .. Len(queue) /\ queue'[i] = queue[i + 1]
          \/ i = Len(queue') /\ queue'[i] = c
    BY <2>1, <1>1, <1>2, <1>5
  <2> QED
    BY <1>2, <1>5, <2>2
<1> QED
  BY <1>3, <1>4, <1>5

-------------------------------------------------------------------------------
(* The inductive invariant: the controller's frames that wait are in the   *)
(* order of the clip, after the last that was applied and before the next  *)
(* that will be played.                                                    *)

IsFrame(i) == queue[i].by = "controller"

NextFrame == clip.start + Len(frames)

Ordered ==
  /\ IsSequence(queue)
  /\ clip \in [start: Int, max: Int] /\ frames \in Seq(Int)
  /\ \A i \in 1 .. Len(queue) : IsFrame(i) =>
       /\ queue[i].what \in Int /\ queue[i].what < NextFrame
       /\ lastFrame # None => lastFrame < queue[i].what
  /\ \A i, j \in 1 .. Len(queue) :
       i < j /\ IsFrame(i) /\ IsFrame(j) => queue[i].what < queue[j].what
  /\ lastFrame # None => lastFrame \in Int /\ lastFrame < NextFrame

(* A frame of the controller goes to the end of the queue.                 *)
LEMMA ControllerKeepsOrder == Ordered /\ ControllerStep => Ordered' /\ lastFrame' = lastFrame
<1> SUFFICES ASSUME Ordered, ControllerStep PROVE Ordered'
  BY DEF ControllerStep
<1>1. lastFrame' = lastFrame /\ clip' = clip
  BY DEF ControllerStep, Controller!Next, Controller!Prime,
         Controller!PlayFrame, Controller!Stop
<1>2. CASE frames' = frames
  <2>1. queue' = queue
    BY <1>2 DEF ControllerStep
  <2> QED
    BY <1>1, <1>2, <2>1 DEF Ordered, IsFrame, NextFrame
<1>3. CASE frames' # frames
  <2> DEFINE c == [by |-> "controller", what |-> frames'[Len(frames')]]
  <2>1. frames' = Append(frames, NextFrame)
    BY <1>3 DEF ControllerStep, Controller!Next, Controller!Prime,
                Controller!PlayFrame, Controller!Stop, NextFrame
  <2>2. NextFrame \in Int /\ frames \in Seq(Int) /\ clip.start \in Int
    BY DEF Ordered, NextFrame
  <2>3. frames' \in Seq(Int) /\ NextFrame' = NextFrame + 1 /\ frames'[Len(frames')] = NextFrame
    <3>1. /\ frames' \in Seq(Int) /\ Len(frames') = Len(frames) + 1
          /\ frames'[Len(frames) + 1] = NextFrame
      BY <2>1, <2>2, AppendProperties
    <3>2. NextFrame' = clip.start + (Len(frames) + 1)
      BY <1>1, <3>1 DEF NextFrame
    <3> QED
      BY <2>2, <3>1, <3>2 DEF NextFrame
  <2>4. Deliver(c)
    BY <1>3 DEF ControllerStep
  <2>5. IsSequence(queue) /\ Len(queue) \in Nat
    BY AppendAndTail DEF Ordered
  <2>6. c.by = "controller" /\ c.what = NextFrame
    BY <2>3
  <2> HIDE DEF c
  <2>7. PICK h \in {0, 1} :
          \A i \in 1 .. Len(queue') :
            \/ i + h \in 1 .. Len(queue) /\ queue'[i] = queue[i + h]
            \/ i = Len(queue') /\ queue'[i] = c
    BY <2>4, <2>5, Delivered
  <2>8. IsSequence(queue')
    BY <2>4, <2>5, Delivered
  <2>9. ASSUME NEW i \in 1 .. Len(queue'), IsFrame(i)'
        PROVE  /\ queue'[i].what \in Int /\ queue'[i].what < NextFrame + 1
               /\ lastFrame # None => lastFrame < queue'[i].what
    <3>1. CASE i + h \in 1 .. Len(queue) /\ queue'[i] = queue[i + h]
      BY <2>2, <2>9, <3>1 DEF Ordered, IsFrame
    <3>2. CASE queue'[i] = c
      BY <2>2, <2>6, <3>2 DEF Ordered
    <3> QED
      BY <2>7, <3>1, <3>2
  <2>10. ASSUME NEW i \in 1 .. Len(queue'), NEW j \in 1 .. Len(queue'),
                i < j, IsFrame(i)', IsFrame(j)'
         PROVE  queue'[i].what < queue'[j].what
    <3>1. i # Len(queue')
      BY <2>8, <2>10, AppendAndTail
    <3>2. i + h \in 1 .. Len(queue) /\ queue'[i] = queue[i + h]
      BY <2>7, <3>1
    <3>3. CASE j + h \in 1 .. Len(queue) /\ queue'[j] = queue[j + h]
      <4>1. i + h < j + h
        BY <2>10
      <4> QED
        BY <2>10, <3>2, <3>3, <4>1 DEF Ordered, IsFrame
    <3>4. CASE queue'[j] = c
      BY <2>6, <2>10, <3>2, <3>4 DEF Ordered, IsFrame
    <3> QED
      BY <2>7, <3>3, <3>4
  <2>11. lastFrame # None => lastFrame \in Int /\ lastFrame < NextFrame + 1
    BY <2>2 DEF Ordered
  <2> QED
    BY <1>1, <2>3, <2>8, <2>9, <2>10, <2>11 DEF Ordered
<1> QED
  BY <1>2, <1>3

(* A command of the tool leaves the controller's frames in order.          *)
LEMMA ToolKeepsOrder == Ordered /\ ToolStep => Ordered' /\ lastFrame' = lastFrame
<1> SUFFICES ASSUME Ordered, ToolStep PROVE Ordered'
  BY DEF ToolStep
<1>1. lastFrame' = lastFrame /\ clip' = clip /\ frames' = frames
  BY DEF ToolStep
<1>2. CASE queue' = queue
  BY <1>1, <1>2 DEF Ordered, IsFrame, NextFrame
<1>3. CASE queue' # queue
  <2> DEFINE c == [by |-> "tool", what |-> sent']
  <2>1. Deliver(c)
    BY <1>3 DEF ToolStep
  <2>2. IsSequence(queue) /\ Len(queue) \in Nat
    BY AppendAndTail DEF Ordered
  <2>3. c.by # "controller"
    OBVIOUS
  <2> HIDE DEF c
  <2>4. PICK h \in {0, 1} :
          \A i \in 1 .. Len(queue') :
            \/ i + h \in 1 .. Len(queue) /\ queue'[i] = queue[i + h]
            \/ i = Len(queue') /\ queue'[i] = c
    BY <2>1, <2>2, Delivered
  <2>5. IsSequence(queue')
    BY <2>1, <2>2, Delivered
  <2>6. ASSUME NEW i \in 1 .. Len(queue'), IsFrame(i)'
        PROVE  i + h \in 1 .. Len(queue) /\ queue'[i] = queue[i + h] /\ IsFrame(i + h)
    <3>1. queue'[i] # c
      BY <2>3, <2>6 DEF IsFrame
    <3> QED
      BY <2>4, <2>6, <3>1 DEF IsFrame
  <2>7. \A i \in 1 .. Len(queue') : IsFrame(i)' =>
          /\ queue'[i].what \in Int /\ queue'[i].what < NextFrame
          /\ lastFrame # None => lastFrame < queue'[i].what
    BY <2>6 DEF Ordered
  <2>8. ASSUME NEW i \in 1 .. Len(queue'), NEW j \in 1 .. Len(queue'),
               i < j, IsFrame(i)', IsFrame(j)'
        PROVE  queue'[i].what < queue'[j].what
    <3>1. i + h < j + h
      BY <2>8
    <3> QED
      BY <2>6, <2>8, <3>1 DEF Ordered
  <2> QED
    BY <1>1, <2>5, <2>7, <2>8 DEF Ordered, NextFrame
<1> QED
  BY <1>2, <1>3

(* What hl_motion takes next comes after what it took before.              *)
LEMMA ApplyKeepsOrder ==
  Ordered /\ Apply =>
    Ordered' /\ (lastFrame' # lastFrame => lastFrame = None \/ lastFrame' > lastFrame)
<1> SUFFICES ASSUME Ordered, Apply
             PROVE  /\ Ordered'
                    /\ lastFrame' # lastFrame => lastFrame = None \/ lastFrame' > lastFrame
  OBVIOUS
<1>1. /\ clip' = clip /\ frames' = frames /\ queue # <<>>
      /\ applied' = Head(queue) /\ queue' = Tail(queue)
      /\ lastFrame' = IF applied'.by = "controller" THEN applied'.what ELSE lastFrame
  BY DEF Apply, Waiting
<1>2. /\ Len(queue) \in Nat /\ Len(queue) > 0 /\ Head(queue) = queue[1]
      /\ IsSequence(queue') /\ Len(queue') = Len(queue) - 1
      /\ \A i \in 1 .. Len(queue) - 1 : queue'[i] = queue[i + 1]
  BY <1>1, AppendAndTail DEF Ordered
<1>3. clip.start \in Int /\ NextFrame \in Int
  BY DEF Ordered, NextFrame
<1>4. lastFrame' = IF IsFrame(1) THEN queue[1].what ELSE lastFrame
  BY <1>1, <1>2 DEF IsFrame
<1>5. \A i \in 1 .. Len(queue') : IsFrame(i)' =>
        /\ queue'[i].what \in Int /\ queue'[i].what < NextFrame
        /\ lastFrame' # None => lastFrame' < queue'[i].what
  BY <1>2, <1>4 DEF Ordered, IsFrame
<1>6. ASSUME NEW i \in 1 .. Len(queue'), NEW j \in 1 .. Len(queue'),
             i < j, IsFrame(i)', IsFrame(j)'
      PROVE  queue'[i].what < queue'[j].what
  <2>1. /\ i + 1 \in 1 .. Len(queue) /\ j + 1 \in 1 .. Len(queue) /\ i + 1 < j + 1
        /\ queue'[i] = queue[i + 1] /\ queue'[j] = queue[j + 1]
    BY <1>2, <1>6
  <2>2. IsFrame(i + 1) /\ IsFrame(j + 1)
    BY <1>6, <2>1 DEF IsFrame
  <2> QED
    BY <2>1, <2>2 DEF Ordered
<1>7. lastFrame' # None => lastFrame' \in Int /\ lastFrame' < NextFrame
  BY <1>2, <1>4 DEF Ordered
<1>8. Ordered'
  BY <1>1, <1>2, <1>5, <1>6, <1>7 DEF Ordered, NextFrame
<1>9. lastFrame' # lastFrame => lastFrame = None \/ lastFrame' > lastFrame
  BY <1>2, <1>3, <1>4 DEF Ordered
<1> QED
  BY <1>8, <1>9

(* The invariant, and the order in which frames are applied.               *)
LEMMA InitiallyOrdered == Init => Ordered
<1> SUFFICES ASSUME Init PROVE Ordered
  OBVIOUS
<1>1. queue = <<>> /\ lastFrame = None /\ frames = <<>> /\ clip \in [start: Int, max: Int]
  BY DEF Init, Controller!Init
<1>2. queue \in Seq({})
  BY <1>1
<1>3. IsSequence(queue)
  BY <1>2 DEF IsSequence
<1> QED
  BY <1>1, <1>3 DEF Ordered

LEMMA StepsKeepOrder ==
  Ordered /\ [Next]_vars =>
    Ordered' /\ (lastFrame' # lastFrame => lastFrame = None \/ lastFrame' > lastFrame)
<1> SUFFICES ASSUME Ordered, [Next]_vars
             PROVE  /\ Ordered'
                    /\ lastFrame' # lastFrame => lastFrame = None \/ lastFrame' > lastFrame
  OBVIOUS
<1>1. CASE ControllerStep
  BY <1>1, ControllerKeepsOrder
<1>2. CASE ToolStep
  BY <1>2, ToolKeepsOrder
<1>3. CASE Apply
  BY <1>3, ApplyKeepsOrder
<1>4. CASE UNCHANGED vars
  BY <1>4 DEF vars, motionVars, Ordered, IsFrame, NextFrame
<1> QED
  BY <1>1, <1>2, <1>3, <1>4 DEF Next

(* The frames that reach the robot do so in the order of the clip.         *)
THEOREM InOrder == Spec => FramesArriveInOrder
<1>1. Ordered /\ [Next]_vars =>
        [lastFrame' # lastFrame => lastFrame = None \/ lastFrame' > lastFrame]_vars
  BY StepsKeepOrder
<1> QED
  BY <1>1, InitiallyOrdered, StepsKeepOrder, PTL DEF Spec, FramesArriveInOrder

(* After the end of the clip the controller is silent for good.            *)
THEOREM SilentForGood == Spec => SilenceAfterEnd
<1>1. ASSUME Ordered, Next, Silent PROVE Silent' /\ lastFrame' = lastFrame
  <2>1. /\ mode \in {"done", "stopped"} /\ IsSequence(queue)
        /\ Len(queue) \in Nat /\ DOMAIN queue = 1 .. Len(queue)
        /\ \A i \in 1 .. Len(queue) : queue[i].by # "controller"
    BY <1>1, AppendAndTail DEF Silent, Ordered
  <2>2. IsSequence(queue') /\ DOMAIN queue' = 1 .. Len(queue')
    <3>1. Ordered'
      BY <1>1, StepsKeepOrder
    <3>2. IsSequence(queue')
      BY <3>1 DEF Ordered
    <3> QED
      BY <3>2, AppendAndTail
  <2>3. CASE ControllerStep
    <3>1. Controller!Stop
      BY <2>1, <2>3 DEF ControllerStep, Controller!Next, Controller!Prime,
                        Controller!PlayFrame
    <3>2. mode' = "stopped" /\ queue' = queue /\ lastFrame' = lastFrame
      BY <2>3, <3>1 DEF ControllerStep, Controller!Stop
    <3> QED
      BY <1>1, <3>2 DEF Silent
  <2>4. CASE ToolStep
    <3> DEFINE c == [by |-> "tool", what |-> sent']
    <3>1. mode' = mode /\ lastFrame' = lastFrame /\ (queue' = queue \/ Deliver(c))
      BY <2>4 DEF ToolStep
    <3>2. CASE queue' = queue
      BY <1>1, <3>1, <3>2 DEF Silent
    <3>3. CASE Deliver(c)
      <4>1. c.by = "tool"
        OBVIOUS
      <4> HIDE DEF c
      <4>2. \A i \in 1 .. Len(queue') : queue'[i].by # "controller"
        BY <2>1, <3>3, <4>1, Delivered
      <4> QED
        BY <2>1, <2>2, <3>1, <4>2 DEF Silent
    <3> QED
      BY <3>1, <3>2, <3>3
  <2>5. CASE Apply
    <3>1. /\ mode' = mode /\ queue # <<>>
          /\ applied' = Head(queue) /\ queue' = Tail(queue)
          /\ lastFrame' = IF applied'.by = "controller" THEN applied'.what ELSE lastFrame
      BY <2>5 DEF Apply, Waiting
    <3>2. /\ Len(queue) > 0 /\ Head(queue) = queue[1] /\ Len(queue') = Len(queue) - 1
          /\ \A i \in 1 .. Len(queue) - 1 : queue'[i] = queue[i + 1]
      BY <2>1, <3>1, AppendAndTail
    <3>3. lastFrame' = lastFrame
      BY <2>1, <3>1, <3>2
    <3>4. \A i \in 1 .. Len(queue') : queue'[i].by # "controller"
      BY <2>1, <3>2
    <3> QED
      BY <2>1, <2>2, <3>1, <3>3, <3>4 DEF Silent
  <2> QED
    BY <1>1, <2>3, <2>4, <2>5 DEF Next
<1>2. Ordered /\ [Next]_vars => [Silent => Silent' /\ UNCHANGED lastFrame]_vars
  BY <1>1
<1> QED
  BY <1>2, InitiallyOrdered, StepsKeepOrder, PTL DEF Spec, SilenceAfterEnd

-------------------------------------------------------------------------------
(* The two publishers as parts of the bus.                                 *)

(* Seen alone, the controller is on the bus what MotionPlayback says.      *)
THEOREM ControllerIsPart == Spec => Controller!Spec
<1>1. Init => Controller!Init
  BY DEF Init
<1>2. [Next]_vars => [Controller!Next]_(Controller!vars)
  BY DEF Next, ControllerStep, ToolStep, Apply, vars, Controller!vars
<1> QED
  BY <1>1, <1>2, PTL DEF Spec, Controller!Spec

(* And so is the tool: neither disturbs the other, but on the robot.       *)
THEOREM ToolIsPart == Spec => Tool!Spec
<1>1. Init => Tool!Init
  BY DEF Init
<1>2. [Next]_vars => [Tool!Next]_(Tool!vars)
  BY DEF Next, ControllerStep, ToolStep, Apply, vars, toolVars, Tool!vars,
         Tool!nodeVars, Tool!moveVars, Tool!timeVars
<1> QED
  BY <1>1, <1>2, PTL DEF Spec, Tool!Spec

(* The theorems about the tool, in terms of its state on the bus.          *)
ToolTheorems == INSTANCE JointCmdPublisher_proofs

(* main, in both instances.                                                *)
LEMMA SameMain == Tool!Main <=> ToolTheorems!Main
<1>1. ASSUME NEW a, NEW b PROVE Tool!Zip(a, b) = ToolTheorems!Zip(a, b)
  BY DEF Tool!Zip, ToolTheorems!Zip, Tool!InSeq, ToolTheorems!InSeq
<1>2. Tool!TargetMap = ToolTheorems!TargetMap
  BY <1>1 DEF Tool!TargetMap, ToolTheorems!TargetMap, Tool!Empty, ToolTheorems!Empty
<1> QED
  BY <1>2 DEF Tool!Main, ToolTheorems!Main, Tool!Refused, ToolTheorems!Refused,
              Tool!moveVars, ToolTheorems!moveVars, Tool!timeVars, ToolTheorems!timeVars

(* Its tick, likewise.                                                     *)
LEMMA SameTick == Tool!Tick <=> ToolTheorems!Tick
<1>1. Tool!Snapshot <=> ToolTheorems!Snapshot
  BY DEF Tool!Snapshot, ToolTheorems!Snapshot, Tool!Value, ToolTheorems!Value
<1>2. \A n : Tool!Stay(n) = ToolTheorems!Stay(n)
  BY DEF Tool!Stay, ToolTheorems!Stay, Tool!Scale, ToolTheorems!Scale,
         Tool!Value, ToolTheorems!Value
<1>3. /\ Tool!Hold = ToolTheorems!Hold
      /\ Tool!AtTarget = ToolTheorems!AtTarget
      /\ Tool!Between = ToolTheorems!Between
  BY <1>2 DEF Tool!Hold, ToolTheorems!Hold, Tool!AtTarget, ToolTheorems!AtTarget,
              Tool!Between, ToolTheorems!Between, Tool!Scale, ToolTheorems!Scale,
              Tool!Smoothstep, ToolTheorems!Smoothstep
<1>4. /\ Tool!CallTimer <=> ToolTheorems!CallTimer
      /\ Tool!ReadClock <=> ToolTheorems!ReadClock
  BY DEF Tool!CallTimer, ToolTheorems!CallTimer, Tool!nodeVars, ToolTheorems!nodeVars,
         Tool!ReadClock, ToolTheorems!ReadClock, Tool!NextCall, ToolTheorems!NextCall,
         Tool!Times, ToolTheorems!Times, Tool!LastTime, ToolTheorems!LastTime
<1>5. Tool!TickWaiting <=> ToolTheorems!TickWaiting
  BY <1>4 DEF Tool!TickWaiting, ToolTheorems!TickWaiting,
              Tool!moveVars, ToolTheorems!moveVars
<1>6. Tool!TickFixed <=> ToolTheorems!TickFixed
  BY <1>1, <1>3, <1>4 DEF Tool!TickFixed, ToolTheorems!TickFixed,
                          Tool!Publish, ToolTheorems!Publish
<1>7. Tool!TickReached <=> ToolTheorems!TickReached
  BY <1>1, <1>3, <1>4 DEF Tool!TickReached, ToolTheorems!TickReached,
                          Tool!Publish, ToolTheorems!Publish,
                          Tool!Reached, ToolTheorems!Reached
<1>8. Tool!TickMoving <=> ToolTheorems!TickMoving
  BY <1>1, <1>3, <1>4 DEF Tool!TickMoving, ToolTheorems!TickMoving,
                          Tool!Publish, ToolTheorems!Publish,
                          Tool!Reached, ToolTheorems!Reached
<1> QED
  BY <1>5, <1>6, <1>7, <1>8 DEF Tool!Tick, ToolTheorems!Tick

(* So the tool on the bus is the tool of the theorems.                     *)
LEMMA SameTool == Tool!Spec => ToolTheorems!Spec
<1>1. Tool!Init => ToolTheorems!Init
  BY DEF Tool!Init, ToolTheorems!Init, Tool!Empty, ToolTheorems!Empty
<1>2. [Tool!Next]_(Tool!vars) => [ToolTheorems!Next]_(ToolTheorems!vars)
  <2> USE DEF Tool!nodeVars, Tool!moveVars, Tool!timeVars, ToolTheorems!nodeVars,
              ToolTheorems!moveVars, ToolTheorems!timeVars
  <2>1. Tool!Interrupt => ToolTheorems!Interrupt
    BY DEF Tool!Interrupt, ToolTheorems!Interrupt
  <2>2. Tool!ClockRuns => ToolTheorems!ClockRuns
    BY DEF Tool!ClockRuns, ToolTheorems!ClockRuns, Tool!LastTime, ToolTheorems!LastTime
  <2>3. ASSUME NEW t \in Tool!Times, Tool!ClockIsSet(t)
        PROVE  t \in ToolTheorems!Times /\ ToolTheorems!ClockIsSet(t)
    BY <2>3 DEF Tool!Times, ToolTheorems!Times, Tool!ClockIsSet, ToolTheorems!ClockIsSet
  <2>4. Tool!TimerExpires => ToolTheorems!TimerExpires
    BY DEF Tool!TimerExpires, ToolTheorems!TimerExpires,
           Tool!TimerIsDue, ToolTheorems!TimerIsDue
  <2>5. ASSUME NEW m \in States, Tool!JointState(m) PROVE ToolTheorems!JointState(m)
    BY <2>5 DEF Tool!JointState, ToolTheorems!JointState
  <2>6. UNCHANGED Tool!vars => UNCHANGED ToolTheorems!vars
    BY DEF Tool!vars, ToolTheorems!vars
  <2>7. Tool!Next => ToolTheorems!Next
    BY <2>1, <2>2, <2>3, <2>4, <2>5, SameMain, SameTick DEF Tool!Next, ToolTheorems!Next
  <2> QED
    BY <2>6, <2>7
<1> QED
  BY <1>1, <1>2, PTL DEF Tool!Spec, ToolTheorems!Spec

-------------------------------------------------------------------------------
(* What reaches the robot of a move.                                       *)

(* What is needed of the tool: nothing is sent before the snapshot, which  *)
(* no option changes, and what is sent stays between.                      *)
ToolFacts ==
  /\ proc = "parsing" => ~started
  /\ started /\ proc = "spinning" => sent # None
  /\ Tool!Moving /\ ~raced /\ sent # None => Within(sent)

(* It holds on the bus, by the theorems about the tool.                    *)
LEMMA ToolFactsHold == Spec => []ToolFacts
<1>0. ToolTheorems!ToolAssumption
  <2>1. \A f, S : Tool!IsPartial(f, S) <=> ToolTheorems!IsPartial(f, S)
    BY DEF Tool!IsPartial, ToolTheorems!IsPartial
  <2>2. Tool!Names = ToolTheorems!Names
    BY DEF Tool!Names, ToolTheorems!Names
  <2>3. \A a : Tool!IsArgs(a) <=> ToolTheorems!IsArgs(a)
    BY <2>1, <2>2 DEF Tool!IsArgs, ToolTheorems!IsArgs
  <2> QED
    BY <2>1, <2>2, <2>3, BusToolAssumption
       DEF Tool!ToolAssumption, ToolTheorems!ToolAssumption
<1>1. ToolTheorems!Spec => []ToolTheorems!Inv
  BY <1>0, ToolTheorems!Invariance
<1>2. ToolTheorems!Spec => []ToolTheorems!StaysBetween
  BY <1>0, ToolTheorems!AlwaysBetween
<1>3. ToolTheorems!Inv /\ ToolTheorems!StaysBetween => ToolFacts
  <2> SUFFICES ASSUME ToolTheorems!Inv, ToolTheorems!StaysBetween PROVE ToolFacts
    OBVIOUS
  <2>1. /\ proc = "parsing" => ~started
        /\ started /\ proc = "spinning" => sent # None
    BY DEF ToolTheorems!Inv, ToolTheorems!NotStarted
  <2>2. Tool!Moving <=> ToolTheorems!Moving
    BY DEF Tool!Moving, ToolTheorems!Moving
  <2>3. Tool!Commanded = ToolTheorems!Commanded
    BY DEF Tool!Commanded, ToolTheorems!Commanded
  <2>4. Tool!Scale(args.duration) = ToolTheorems!Scale(args.duration)
    BY DEF Tool!Scale, ToolTheorems!Scale
  <2>5. \A n : Tool!Goal(n) = ToolTheorems!Goal(n)
    BY <2>4 DEF Tool!Goal, ToolTheorems!Goal
  <2>6. Tool!Moving /\ ~raced /\ sent # None => Within(sent)
    BY <2>2, <2>3, <2>4, <2>5 DEF ToolTheorems!StaysBetween, Within
  <2> QED
    BY <2>1, <2>6 DEF ToolFacts
<1> QED
  BY <1>1, <1>2, <1>3, ToolIsPart, SameTool, PTL

(* A step of the tool after the snapshot changes nothing a move is judged  *)
(* by, and no race is forgotten.                                           *)
LEMMA MoveIsFixed ==
  ASSUME ToolFacts, Tool!Next, started
  PROVE  /\ started' /\ start' = start /\ target' = target /\ args' = args
         /\ ~raced' => ~raced
         /\ Tool!Moving' => Tool!Moving
<1> USE DEF Tool!nodeVars, Tool!moveVars, Tool!timeVars
<1>1. proc # "parsing"
  BY DEF ToolFacts
<1>2. ~Tool!Main
  BY <1>1 DEF Tool!Main
<1>3. start' = start /\ target' = target /\ args' = args
  <2>1. CASE Tool!Tick
    BY <2>1 DEF Tool!Tick, Tool!TickWaiting, Tool!TickFixed, Tool!TickReached,
                Tool!TickMoving, Tool!CallTimer, Tool!Snapshot
  <2>2. CASE ~Tool!Tick
    BY <1>2, <2>2 DEF Tool!Next, Tool!Interrupt, Tool!ClockRuns, Tool!ClockIsSet,
                      Tool!TimerExpires, Tool!JointState
  <2> QED
    BY <2>1, <2>2
<1>4. started'
  <2>1. CASE Tool!Tick
    BY <2>1, Zenon DEF Tool!Tick, Tool!TickWaiting, Tool!TickFixed, Tool!TickReached,
                Tool!TickMoving, Tool!Snapshot
  <2>2. CASE ~Tool!Tick
    BY <1>2, <2>2, Zenon DEF Tool!Next, Tool!Interrupt, Tool!ClockRuns, Tool!ClockIsSet,
                      Tool!TimerExpires, Tool!JointState
  <2> QED
    BY <2>1, <2>2
<1>5. ~raced' => ~raced
  <2>1. CASE Tool!Tick
    <3>1. Tool!ReadClock => (~raced' => ~raced)
      BY Zenon DEF Tool!ReadClock
    <3> QED
      BY <2>1, <3>1, Zenon DEF Tool!Tick, Tool!TickWaiting, Tool!TickFixed,
                               Tool!TickReached, Tool!TickMoving
  <2>2. CASE ~Tool!Tick
    BY <1>2, <2>2, Zenon DEF Tool!Next, Tool!Interrupt, Tool!ClockRuns, Tool!ClockIsSet,
                      Tool!TimerExpires, Tool!JointState
  <2> QED
    BY <2>1, <2>2
<1> QED
  BY <1>1, <1>3, <1>4, <1>5 DEF Tool!Moving

(* Before the snapshot the tool publishes with taking it only.             *)
LEMMA SnapshotComesFirst ==
  ASSUME Tool!Next, ToolPublishes
  PROVE  started' /\ proc' = "spinning"
BY DEF ToolPublishes, Tool!Tick, Tool!TickWaiting, Tool!TickFixed, Tool!TickReached,
       Tool!TickMoving, Tool!Snapshot

(* Within depends on the move alone.                                       *)
LEMMA WithinIsKept ==
  ASSUME start' = start, target' = target, args' = args, NEW c, Within(c)
  PROVE  Within(c)'
BY DEF Within, Tool!Commanded, Tool!Scale, Tool!Goal

(* The inductive invariant: the same of the commands that wait, and there  *)
(* are none of the tool before the snapshot.                               *)
BetweenInv ==
  /\ IsSequence(queue)
  /\ ~started => /\ \A i \in 1 .. Len(queue) : queue[i].by # "tool"
                 /\ applied # None => applied.by # "tool"
  /\ Tool!Moving /\ ~raced =>
       \A i \in 1 .. Len(queue) : queue[i].by = "tool" => Within(queue[i].what)
  /\ AppliedStaysBetween

(* A step of the tool keeps it.                                            *)
LEMMA ToolKeepsBetween ==
  ASSUME BetweenInv, ToolFacts, ToolFacts', ToolStep
  PROVE  BetweenInv'
<1> DEFINE c == [by |-> "tool", what |-> sent']
<1>1. applied' = applied /\ Tool!Next /\ (queue' = queue \/ (ToolPublishes /\ Deliver(c)))
  BY DEF ToolStep
<1>2. IsSequence(queue')
  BY <1>1, Delivered DEF BetweenInv
<1>3. PICK h \in {0, 1} :
        \A i \in 1 .. Len(queue') :
          \/ i + h \in 1 .. Len(queue) /\ queue'[i] = queue[i + h]
          \/ i = Len(queue') /\ queue'[i] = c /\ ToolPublishes
  <2>1. CASE queue' = queue
    <3>1. \A i \in 1 .. Len(queue') : i + 0 \in 1 .. Len(queue) /\ queue'[i] = queue[i + 0]
      BY <2>1, AppendAndTail DEF BetweenInv
    <3> QED
      BY <3>1
  <2>2. CASE ToolPublishes /\ Deliver(c)
    <3> HIDE DEF c
    <3>1. PICK h \in {0, 1} :
            \A i \in 1 .. Len(queue') :
              \/ i + h \in 1 .. Len(queue) /\ queue'[i] = queue[i + h]
              \/ i = Len(queue') /\ queue'[i] = c
      BY <2>2, Delivered DEF BetweenInv
    <3> QED
      BY <2>2, <3>1
  <2> QED
    BY <1>1, <2>1, <2>2
<1>4. ToolPublishes => started' /\ sent' # None
  BY <1>1, SnapshotComesFirst DEF ToolFacts
<1>5. ASSUME ~started'
      PROVE  ~started /\ \A i \in 1 .. Len(queue') : queue'[i].by # "tool"
  <2>1. ~started
    BY <1>1, <1>5, MoveIsFixed
  <2> QED
    BY <1>3, <1>4, <1>5, <2>1 DEF BetweenInv
<1>6. ASSUME Tool!Moving', ~raced', NEW i \in 1 .. Len(queue'), queue'[i].by = "tool",
             NEW w, w = queue'[i].what
      PROVE  Within(w)'
  <2>1. CASE i + h \in 1 .. Len(queue) /\ queue'[i] = queue[i + h]
    <3>1. started
      BY <1>6, <2>1 DEF BetweenInv
    <3>2. /\ start' = start /\ target' = target /\ args' = args /\ ~raced /\ Tool!Moving
      BY <1>1, <1>6, <3>1, MoveIsFixed
    <3>3. Within(w)
      BY <1>6, <2>1, <3>2 DEF BetweenInv
    <3> QED
      BY <3>2, <3>3, WithinIsKept
  <2>2. CASE queue'[i] = c /\ ToolPublishes
    <3>1. w = sent' /\ sent' # None
      BY <1>4, <1>6, <2>2
    <3>2. Within(sent)'
      BY <1>6, <3>1 DEF ToolFacts
    <3> QED
      BY <3>1, <3>2 DEF Within
  <2> QED
    BY <1>3, <2>1, <2>2
<1>7. AppliedStaysBetween'
  <2> SUFFICES ASSUME Tool!Moving', ~raced', applied # None, applied.by = "tool",
                      NEW w, w = applied.what
               PROVE  Within(w)'
    BY <1>1 DEF AppliedStaysBetween, Within
  <2>1. started
    BY DEF BetweenInv
  <2>2. start' = start /\ target' = target /\ args' = args /\ ~raced /\ Tool!Moving
    BY <1>1, <2>1, MoveIsFixed
  <2>3. Within(w)
    BY <2>2 DEF BetweenInv, AppliedStaysBetween
  <2> QED
    BY <2>2, <2>3, WithinIsKept
<1>8. Tool!Moving' /\ ~raced' =>
        \A i \in 1 .. Len(queue') : queue'[i].by = "tool" => Within(queue[i].what)'
  BY <1>6 DEF Within
<1> QED
  BY <1>1, <1>2, <1>5, <1>7, <1>8 DEF BetweenInv

(* So does every step without the tool that adds none of its commands.     *)
LEMMA OthersKeepBetween ==
  ASSUME BetweenInv, UNCHANGED toolVars, IsSequence(queue'),
         \A i \in 1 .. Len(queue') : queue'[i].by = "tool" =>
           \E j \in 1 .. Len(queue) : queue'[i] = queue[j],
         \/ applied' = applied
         \/ \E j \in 1 .. Len(queue) : applied' = queue[j]
  PROVE  BetweenInv'
<1>1. /\ start' = start /\ target' = target /\ args' = args
      /\ proc' = proc /\ started' = started /\ raced' = raced
  BY DEF toolVars
<1>2. Tool!Moving' <=> Tool!Moving
  BY <1>1 DEF Tool!Moving
<1>3. ASSUME ~started'
      PROVE  /\ \A i \in 1 .. Len(queue') : queue'[i].by # "tool"
             /\ applied' # None => applied'.by # "tool"
  <2>1. /\ \A j \in 1 .. Len(queue) : queue[j].by # "tool"
        /\ applied # None => applied.by # "tool"
    BY <1>1, <1>3 DEF BetweenInv
  <2> QED
    BY <2>1
<1>4. ASSUME Tool!Moving', ~raced', NEW i \in 1 .. Len(queue'), queue'[i].by = "tool",
             NEW w, w = queue'[i].what
      PROVE  Within(w)'
  <2>1. PICK j \in 1 .. Len(queue) : queue'[i] = queue[j]
    BY <1>4
  <2>2. Within(w)
    BY <1>1, <1>2, <1>4, <2>1 DEF BetweenInv
  <2> QED
    BY <1>1, <2>2, WithinIsKept
<1>5. ASSUME Tool!Moving', ~raced', applied' # None, applied'.by = "tool",
             NEW w, w = applied'.what
      PROVE  Within(w)'
  <2>1. Within(w)
    BY <1>1, <1>2, <1>5 DEF BetweenInv, AppliedStaysBetween
  <2> QED
    BY <1>1, <2>1, WithinIsKept
<1>6. Tool!Moving' /\ ~raced' =>
        \A i \in 1 .. Len(queue') : queue'[i].by = "tool" => Within(queue[i].what)'
  BY <1>4 DEF Within
<1>7. AppliedStaysBetween'
  BY <1>5 DEF AppliedStaysBetween, Within
<1> QED
  BY <1>3, <1>6, <1>7 DEF BetweenInv

(* A step of the controller keeps it: its commands are not the tool's.     *)
LEMMA ControllerKeepsBetween ==
  ASSUME BetweenInv, ControllerStep
  PROVE  BetweenInv'
<1> DEFINE c == [by |-> "controller", what |-> frames'[Len(frames')]]
<1>1. applied' = applied /\ UNCHANGED toolVars /\ (queue' = queue \/ Deliver(c))
  BY DEF ControllerStep
<1>2. c.by = "controller"
  OBVIOUS
<1> HIDE DEF c
<1>3. IsSequence(queue')
  BY <1>1, Delivered DEF BetweenInv
<1>4. PICK h \in {0, 1} :
        \A i \in 1 .. Len(queue') :
          \/ i + h \in 1 .. Len(queue) /\ queue'[i] = queue[i + h]
          \/ i = Len(queue') /\ queue'[i] = c
  <2>1. CASE queue' = queue
    <3>1. \A i \in 1 .. Len(queue') : i + 0 \in 1 .. Len(queue) /\ queue'[i] = queue[i + 0]
      BY <2>1, AppendAndTail DEF BetweenInv
    <3> QED
      BY <3>1
  <2>2. CASE Deliver(c)
    BY <2>2, Delivered DEF BetweenInv
  <2> QED
    BY <1>1, <2>1, <2>2
<1>5. \A i \in 1 .. Len(queue') : queue'[i].by = "tool" =>
        \E j \in 1 .. Len(queue) : queue'[i] = queue[j]
  BY <1>2, <1>4
<1> QED
  BY <1>1, <1>3, <1>5, OthersKeepBetween

(* What hl_motion takes waited before.                                     *)
LEMMA ApplyKeepsBetween ==
  ASSUME BetweenInv, Apply
  PROVE  BetweenInv'
<1>1. /\ queue # <<>> /\ applied' = Head(queue) /\ queue' = Tail(queue)
      /\ UNCHANGED toolVars
  BY DEF Apply, Waiting
<1>2. /\ Len(queue) \in Nat /\ Len(queue) > 0 /\ Head(queue) = queue[1]
      /\ IsSequence(queue') /\ Len(queue') = Len(queue) - 1
      /\ \A i \in 1 .. Len(queue) - 1 : queue'[i] = queue[i + 1]
  BY <1>1, AppendAndTail DEF BetweenInv
<1>3. \A i \in 1 .. Len(queue') : i + 1 \in 1 .. Len(queue) /\ queue'[i] = queue[i + 1]
  BY <1>2
<1>4. 1 \in 1 .. Len(queue) /\ applied' = queue[1]
  BY <1>1, <1>2
<1> QED
  BY <1>1, <1>2, <1>3, <1>4, OthersKeepBetween

(* At first nothing waits and nothing was taken.                           *)
LEMMA InitiallyBetween == Init => BetweenInv
<1> SUFFICES ASSUME Init PROVE BetweenInv
  OBVIOUS
<1>1. queue = <<>> /\ applied = None
  BY DEF Init
<1>2. IsSequence(queue) /\ Len(queue) = 0
  BY <1>1 DEF IsSequence
<1> QED
  BY <1>1, <1>2 DEF BetweenInv, AppliedStaysBetween

(* What hl_motion has last applied of the tool's commands is, for every    *)
(* joint of the move, between its start and its target, however many       *)
(* commands of either publisher waited or were pushed out in between: the  *)
(* queue adds nothing to what _tick sends.                                 *)
THEOREM AppliedBetween == Spec => []AppliedStaysBetween
<1>1. ToolFacts /\ ToolFacts' /\ BetweenInv /\ [Next]_vars => BetweenInv'
  <2> SUFFICES ASSUME ToolFacts, ToolFacts', BetweenInv, [Next]_vars PROVE BetweenInv'
    OBVIOUS
  <2>1. CASE ControllerStep
    BY <2>1, ControllerKeepsBetween
  <2>2. CASE ToolStep
    BY <2>2, ToolKeepsBetween
  <2>3. CASE Apply
    BY <2>3, ApplyKeepsBetween
  <2>4. CASE UNCHANGED vars
    <3>1. queue' = queue /\ applied' = applied /\ UNCHANGED toolVars
      BY <2>4 DEF vars, motionVars
    <3> QED
      BY <3>1, OthersKeepBetween DEF BetweenInv
  <2> QED
    BY <2>1, <2>2, <2>3, <2>4 DEF Next
<1>2. BetweenInv => AppliedStaysBetween
  BY DEF BetweenInv
<1> QED
  BY <1>1, <1>2, InitiallyBetween, ToolFactsHold, PTL DEF Spec

===============================================================================
