------------------------------ MODULE CommandBus ------------------------------
(***************************************************************************)
(* The controller node and the test tool at the same time: two publishers  *)
(* of /motion/joint_cmd, and hl_motion, which takes one command after the  *)
(* other from its subscription and applies it.  The controller is what     *)
(* MotionPlayback promises, which RLControllerNode implements; the tool is *)
(* JointCmdPublisher as it is.  Nothing arbitrates between the two.        *)
(***************************************************************************)
EXTENDS Integers, Sequences

CONSTANTS
  Clips,     \* clips the controller may play
  MaxFrames, \* bound: frames of an endless clip
  Depth,     \* history depth of hl_motion's subscription
  Joints, OtherNames, ArgLists, States, None, MaxSets   \* of the tool

ASSUME BusAssumption == Depth \in Nat \ {0} /\ MaxFrames \in Nat

VARIABLES
  clip, mode, frames,     \* the controller
  args, proc, target, current, received, start, started, done, sent, clock,
  next, expired, sets, raced,                           \* the tool
  queue,     \* commands hl_motion has not taken yet
  applied,   \* the last command it has taken
  lastFrame  \* history: the last of the controller's frames among them

toolVars == <<args, proc, target, current, received, start, started, done,
              sent, clock, next, expired, sets, raced>>
motionVars == <<queue, applied, lastFrame>>

Controller == INSTANCE MotionPlayback
Tool == INSTANCE JointCmdPublisher

ASSUME BusToolAssumption == Tool!ToolAssumption

vars == <<clip, mode, frames, toolVars, motionVars>>

Init ==
  /\ clip \in Clips
  /\ Controller!Init
  /\ Tool!Init
  /\ queue = <<>>
  /\ applied = None
  /\ lastFrame = None

(* KEEP_LAST: one history for both publishers.                             *)
Deliver(command) ==
  LET q == Append(queue, command)
  IN  queue' = IF Len(q) > Depth THEN Tail(q) ELSE q

ControllerStep ==
  /\ Len(frames) < MaxFrames
  /\ Controller!Next
  /\ IF frames' = frames THEN UNCHANGED queue
     ELSE Deliver([by |-> "controller", what |-> frames'[Len(frames')]])
  /\ UNCHANGED <<toolVars, applied, lastFrame>>

(* A tick of the tool that comes to its end publishes.                     *)
ToolPublishes == Tool!Tick /\ received /\ proc' = "spinning"

ToolStep ==
  /\ Tool!Next
  /\ IF ToolPublishes THEN Deliver([by |-> "tool", what |-> sent'])
     ELSE UNCHANGED queue
  /\ UNCHANGED <<clip, mode, frames, applied, lastFrame>>

BugNewestFirst == [i \in DOMAIN queue |-> queue[Len(queue) - i + 1]]

Waiting == queue

(* hl_motion takes the oldest command.                                     *)
Apply ==
  /\ queue # <<>>
  /\ applied' = Head(Waiting)
  /\ queue' = Tail(Waiting)
  /\ lastFrame' = IF applied'.by = "controller" THEN applied'.what ELSE lastFrame
  /\ UNCHANGED <<clip, mode, frames, toolVars>>

Next == ControllerStep \/ ToolStep \/ Apply

Spec == Init /\ [][Next]_vars

-------------------------------------------------------------------------------
(* Properties.                                                             *)

(* Frames may be pushed out by the tool's commands, but those that reach   *)
(* the robot do so in the order of the clip (both publishers' calls).      *)
FramesArriveInOrder ==
  [][lastFrame' # lastFrame => lastFrame = None \/ lastFrame' > lastFrame]_vars

Silent ==
  /\ mode \in {"done", "stopped"}
  /\ \A i \in DOMAIN queue : queue[i].by # "controller"

(* After the end of the clip, and once its last frames are taken, the tool *)
(* is alone: nothing of the controller is applied any more, whatever the   *)
(* tool does (timerCallback falls silent).                                 *)
SilenceAfterEnd ==
  [][Silent => Silent' /\ UNCHANGED lastFrame]_vars

(* No joint that has a target leaves the way from its start to the target. *)
Within(c) ==
  \A n \in Tool!Commanded :
    LET s == Tool!Scale(args.duration) * start[n]
    IN  \/ s <= c[n] /\ c[n] <= Tool!Goal(n)
        \/ Tool!Goal(n) <= c[n] /\ c[n] <= s

(* What the robot has last applied of the tool's commands is between start *)
(* and target of the move, however many commands of either publisher       *)
(* waited, and however old it was when it was taken: the snapshot and the  *)
(* target the tool judges by are still those the command was made from     *)
(* (_tick).                                                                *)
AppliedStaysBetween ==
  Tool!Moving /\ ~raced /\ applied # None /\ applied.by = "tool" => Within(applied.what)

===============================================================================
