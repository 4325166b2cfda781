---------------------------- MODULE MotionPlayback ----------------------------
(***************************************************************************)
(* What the controller promises the robot, whatever the sensors, the       *)
(* executor and the network do: once primed, it plays the frames of the    *)
(* reference clip one after the other from the start frame, never skipping *)
(* or repeating one, and stops for good at the end of the clip.  The       *)
(* detailed specification, RLControllerNode, is shown to implement it.     *)
(***************************************************************************)
EXTENDS Integers, Sequences

VARIABLES
  clip,    \* [start, max]: start_timestep and max_timestep of the config
  mode,    \* "idle", "ready" (primed, playing), "done" or "stopped"
  frames   \* the frames commanded so far

vars == <<clip, mode, frames>>

(* A clip without a positive max_timestep has no end.                      *)
EndReached(n) == clip.max > 0 /\ clip.start + n >= clip.max

Init ==
  /\ clip \in [start: Int, max: Int]
  /\ mode = "idle"
  /\ frames = <<>>

(* The motion is initialised; nothing is commanded yet.                    *)
Prime ==
  /\ mode = "idle"
  /\ mode' = "ready"
  /\ UNCHANGED <<clip, frames>>

BugPlayOn ==
  /\ mode # "idle"
  /\ frames' = Append(frames, clip.start + Len(frames))
  /\ UNCHANGED <<clip, mode>>

PlayFrame ==
  /\ mode = "ready"
  /\ frames' = Append(frames, clip.start + Len(frames))
  /\ mode' = IF EndReached(Len(frames) + 1) THEN "done" ELSE "ready"
  /\ UNCHANGED clip

(* The process ends: at the operator's request or because it failed.       *)
Stop ==
  /\ mode # "stopped"
  /\ mode' = "stopped"
  /\ UNCHANGED <<clip, frames>>

Next == Prime \/ PlayFrame \/ Stop

Spec == Init /\ [][Next]_vars

===============================================================================
