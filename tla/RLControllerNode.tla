--------------------------- MODULE RLControllerNode ---------------------------
(***************************************************************************)
(* The controller node of src/src/rl_controller_node.cpp, run by main.cpp: *)
(* two sensor subscriptions and a wall timer dispatched by the             *)
(* single-threaded executor of rclcpp::spin.                               *)
(*                                                                         *)
(* A sensor sample is its sequence number on its topic.  A vector of       *)
(* numbers is its origin: a reference motion is the timestep whose         *)
(* inference produced it, a raw action is the number of its inference (0   *)
(* is the dry run, k the k-th control step), and the smoothed action is    *)
(* the set of the raw actions it has a share of.                           *)
(*                                                                         *)
(* An operator named Bug... is a faulty variant of the one that follows    *)
(* it; no action uses it, and a property must be able to tell the two      *)
(* apart.                                                                  *)
(***************************************************************************)
EXTENDS Integers, Sequences

CONSTANTS
  Configs,      \* the configurations the node may be started with
  Depth,        \* history depth of the two subscriptions (10 in the code)
  None,         \* no motion command, no alignment
  MaxSent,      \* bound: samples published on a topic
  MaxCommands   \* bound: commands after which an endless clip is left

Topics == {"joint", "imu"}

(***************************************************************************)
(* What the YAML file and the metadata of the ONNX model decide.  "loads"  *)
(* is FALSE when loadConfig fails; "outputs" is the number of tensors the  *)
(* model returns (actions, joint_pos, joint_vel, body_pos_w, body_quat_w,  *)
(* in this order); "bodies" says that the configuration names some body;   *)
(* "beta" is action_beta: 0, 1 or neither.                                 *)
(***************************************************************************)
Config == [loads: BOOLEAN, hz: Int, start: Int, max: Int,
           beta: {"zero", "part", "one"}, residual: BOOLEAN,
           outputs: Nat, bodies: BOOLEAN]

ASSUME ConfigsAssumption == Configs \subseteq Config
ASSUME BoundsAssumption ==
  Depth \in Nat \ {0} /\ MaxSent \in Nat /\ MaxCommands \in Nat
ASSUME NoneAssumption == None \notin Int

VARIABLES
  cfg,          \* the configuration, read once by the constructor
  proc,         \* "constructing", "spinning", "exited", "threw", "faulted"
  sent,         \* samples hl_motion has published to the node, per topic
  queue,        \* samples waiting in each subscription, oldest first
  expired,      \* the timer's period has elapsed since it was last called
  ready,        \* what the last wait of the executor collected, not yet run
  latest,       \* _latest_joint_state and _latest_imu (0: no sample yet)
  received,     \* _joint_received and _imu_received
  initialized,  \* _initialized
  timestep,     \* _timestep
  playSpeed,    \* _play_speed, 1 or 0
  motionDone,   \* _flag_motion_done
  command,      \* _converter._command
  lastAction,   \* _converter._last_action
  align,        \* _converter._init_align
  cmds          \* everything published on /motion/joint_cmd

envVars  == <<cfg, sent>>
subVars  == <<queue, latest, received>>
playVars == <<initialized, timestep, playSpeed, motionDone>>
convVars == <<command, lastAction, align>>
vars == <<envVars, proc, subVars, expired, ready, playVars, convVars, cmds>>

Entities == Topics \cup {"timer"}

-------------------------------------------------------------------------------
Init ==
  /\ cfg \in Configs
  /\ proc = "constructing"
  /\ sent = [t \in Topics |-> 0]
  /\ queue = [t \in Topics |-> <<>>]
  /\ expired = FALSE
  /\ ready = {}
  /\ latest = [t \in Topics |-> 0]
  /\ received = [t \in Topics |-> FALSE]
  /\ initialized = FALSE
  /\ timestep = 0
  /\ playSpeed = 1
  /\ motionDone = FALSE
  /\ command = None
  /\ lastAction = {}
  /\ align = None
  /\ cmds = <<>>

(***************************************************************************)
(* The constructor's integer division 1000 / control_hz and the call of    *)
(* create_wall_timer.  Dividing by zero is undefined: an x86 build traps,  *)
(* the committed aarch64 build yields 0.  A negative period makes          *)
(* create_wall_timer throw; below -1000 Hz the quotient is 0 again.        *)
(***************************************************************************)
TimerCreation(hz) ==
  IF hz = 0 THEN {"spinning", "faulted"}
  ELSE IF hz \in -1000 .. -1 THEN {"threw"}
  ELSE {"spinning"}

(* After a failing loadConfig the context is shut down: spin dispatches    *)
(* nothing on it, it returns or throws.                                    *)
Construct ==
  /\ proc = "constructing"
  /\ IF cfg.loads
     THEN /\ proc' \in TimerCreation(cfg.hz)
          /\ timestep' = cfg.start
     ELSE /\ proc' \in {"exited", "threw"}
          /\ UNCHANGED timestep
  /\ UNCHANGED <<envVars, subVars, expired, ready, initialized, playSpeed,
                 motionDone, convVars, cmds>>

(* SIGINT: rclcpp shuts the context down, spin returns and main ends; a    *)
(* constructor still running throws on the dead context.                   *)
Interrupt ==
  /\ \/ proc = "constructing" /\ proc' \in {"exited", "threw"}
     \/ proc = "spinning" /\ proc' = "exited"
  /\ UNCHANGED <<envVars, subVars, expired, ready, playVars, convVars, cmds>>

-------------------------------------------------------------------------------
(* The middleware and the executor.                                        *)

BugKeepAll(q) == q
BugDropNewest(q) == IF Len(q) > Depth THEN SubSeq(q, 1, Depth) ELSE q

(* KEEP_LAST: the oldest sample makes room for the newest.                 *)
KeepLast(q) == IF Len(q) > Depth THEN Tail(q) ELSE q

(* hl_motion publishes; samples are counted from the subscription on, for  *)
(* the volatile topic keeps none of the earlier ones.                      *)
Publish(t) ==
  /\ proc = "spinning"
  /\ sent[t] < MaxSent
  /\ sent' = [sent EXCEPT ![t] = @ + 1]
  /\ queue' = [queue EXCEPT ![t] = KeepLast(Append(@, sent[t] + 1))]
  /\ UNCHANGED <<cfg, proc, expired, ready, latest, received, playVars,
                 convVars, cmds>>

TimerExpires ==
  /\ proc = "spinning"
  /\ ~expired
  /\ motionDone \/ Len(cmds) < MaxCommands
  /\ expired' = TRUE
  /\ UNCHANGED <<envVars, proc, subVars, ready, playVars, convVars, cmds>>

Collected ==
  {t \in Topics : queue[t] # <<>>} \cup (IF expired THEN {"timer"} ELSE {})

(* The executor waits again only when all that it collected has been run.  *)
WaitForWork ==
  /\ proc = "spinning"
  /\ ready = {}
  /\ Collected # {}
  /\ ready' = Collected
  /\ UNCHANGED <<envVars, proc, subVars, expired, playVars, convVars, cmds>>

(* One sample per subscription per wait; callbacks never overlap.          *)
Dispatch(e) ==
  /\ proc = "spinning"
  /\ e \in ready
  /\ ready' = ready \ {e}

-------------------------------------------------------------------------------
(* jointStateCallback and imuCallback.                                     *)
SensorCallback(t) ==
  /\ Dispatch(t)
  /\ latest' = [latest EXCEPT ![t] = Head(queue[t])]
  /\ received' = [received EXCEPT ![t] = TRUE]
  /\ queue' = [queue EXCEPT ![t] = Tail(@)]
  /\ UNCHANGED <<envVars, proc, expired, playVars, convVars, cmds>>

-------------------------------------------------------------------------------
(* timerCallback, one action for each way through it.                      *)

(* The executor calls the timer, which rearms it, then the callback.       *)
DispatchTimer == Dispatch("timer") /\ expired' = FALSE

BugEitherSensor == received["joint"] \/ received["imu"]

SensorsReceived == received["joint"] /\ received["imu"]

(* Still waiting for the first joint_state or the first imu sample.        *)
TickWaiting ==
  /\ DispatchTimer
  /\ ~SensorsReceived
  /\ UNCHANGED <<envVars, proc, subVars, playVars, convVars, cmds>>

HasMotion == cfg.outputs >= 2

BugStoreWhenPlaying ==
  command' = IF HasMotion /\ initialized THEN timestep ELSE command

(* result.joint_pos is stored as the motion command when it is there.      *)
SetMotionCommand == command' = IF HasMotion THEN timestep ELSE command

BugSwapWeights(n) ==
  lastAction' = IF cfg.beta = "zero" THEN {n}
                ELSE IF cfg.beta = "one" THEN lastAction
                ELSE lastAction \cup {n}

(* processAction blends raw action n into the previous smoothed action.    *)
ProcessAction(n) ==
  lastAction' = IF cfg.beta = "one" THEN {n}
                ELSE IF cfg.beta = "zero" THEN lastAction
                ELSE lastAction \cup {n}

(* initializeMotion indexes an empty vector: result.actions, or the        *)
(* body_quat_w of the anchor when only body_pos_w was returned.            *)
DryRunFaults == cfg.outputs = 0 \/ (cfg.bodies /\ cfg.outputs = 4)

BugNoAlignment == UNCHANGED align

(* The alignment is based on the anchor of the frame of the dry run.       *)
SetAlignment ==
  align' = IF cfg.bodies /\ cfg.outputs >= 5 THEN timestep ELSE align

TickInitialize ==
  /\ DispatchTimer
  /\ SensorsReceived
  /\ ~initialized
  /\ ~DryRunFaults
  /\ SetMotionCommand
  /\ SetAlignment
  /\ ProcessAction(0)
  /\ initialized' = TRUE
  /\ UNCHANGED <<envVars, proc, subVars, timestep, playSpeed, motionDone, cmds>>

(* The motion is done: the callback returns, publishing nothing.           *)
TickDone ==
  /\ DispatchTimer
  /\ SensorsReceived
  /\ initialized
  /\ motionDone
  /\ UNCHANGED <<envVars, proc, subVars, playVars, convVars, cmds>>

(* buildObservation indexes an empty vector of the stored command: its     *)
(* joint_vel, or the body_pos_w of the anchor.                             *)
ObservationFaults ==
  /\ command # None
  /\ cfg.outputs = 2 \/ (cfg.bodies /\ cfg.outputs = 3)

(* The origin of each part of the observation.                             *)
Observation ==
  [command |-> command,
   anchor  |-> IF command # None /\ cfg.bodies THEN align ELSE None,
   joint   |-> latest["joint"],
   imu     |-> latest["imu"],
   action  |-> lastAction]

BugStaleBase == IF cfg.residual /\ command # None THEN command ELSE None

(* computePdTarget adds the action to the stored motion or to the default. *)
PdBase == IF cfg.residual /\ command' # None THEN command' ELSE None

BugEndWithoutFlag ==
  /\ timestep' = timestep + playSpeed
  /\ playSpeed' = IF cfg.max > 0 /\ timestep' >= cfg.max THEN 0 ELSE playSpeed
  /\ UNCHANGED motionDone

BugEndOneLate ==
  /\ timestep' = timestep + playSpeed
  /\ IF cfg.max > 0 /\ timestep' > cfg.max
     THEN playSpeed' = 0 /\ motionDone' = TRUE
     ELSE UNCHANGED <<playSpeed, motionDone>>

BugEndByEquality ==
  /\ timestep' = timestep + playSpeed
  /\ IF cfg.max > 0 /\ timestep' = cfg.max
     THEN playSpeed' = 0 /\ motionDone' = TRUE
     ELSE UNCHANGED <<playSpeed, motionDone>>

AdvanceTimestep ==
  /\ timestep' = timestep + playSpeed
  /\ IF cfg.max > 0 /\ timestep' >= cfg.max
     THEN playSpeed' = 0 /\ motionDone' = TRUE
     ELSE UNCHANGED <<playSpeed, motionDone>>

BugStepWhenDone == SensorsReceived /\ initialized /\ ~ObservationFaults
BugStepUninitialized == SensorsReceived /\ ~motionDone /\ ~ObservationFaults

ControlStep ==
  /\ SensorsReceived
  /\ initialized
  /\ ~motionDone
  /\ ~ObservationFaults

TickControl ==
  /\ DispatchTimer
  /\ ControlStep
  /\ SetMotionCommand
  /\ ProcessAction(Len(cmds) + 1)
  /\ cmds' = Append(cmds, [step |-> timestep, obs |-> Observation,
                           base |-> PdBase])
  /\ AdvanceTimestep
  /\ UNCHANGED <<envVars, proc, subVars, initialized, align>>

(* Undefined behaviour: the null data of an empty vector is read.          *)
TickFaults ==
  /\ DispatchTimer
  /\ SensorsReceived
  /\ IF initialized THEN ~motionDone /\ ObservationFaults ELSE DryRunFaults
  /\ proc' = "faulted"
  /\ UNCHANGED <<envVars, subVars, playVars, convVars, cmds>>

(* ONNX Runtime throws out of infer; nothing between there and main        *)
(* catches it.  The callback has changed nothing by then.                  *)
TickThrows ==
  /\ DispatchTimer
  /\ SensorsReceived
  /\ IF initialized THEN ControlStep ELSE TRUE
  /\ proc' = "threw"
  /\ UNCHANGED <<envVars, subVars, playVars, convVars, cmds>>

TimerCallback ==
  TickWaiting \/ TickInitialize \/ TickDone \/ TickControl \/ TickFaults
  \/ TickThrows

-------------------------------------------------------------------------------
Next ==
  \/ Construct
  \/ Interrupt
  \/ \E t \in Topics : Publish(t)
  \/ TimerExpires
  \/ WaitForWork
  \/ \E t \in Topics : SensorCallback(t)
  \/ TimerCallback

Spec == Init /\ [][Next]_vars

(***************************************************************************)
(* Fairness.  hl_motion publishes each topic at least once; it may fall    *)
(* silent after that, or go on.  The wall clock keeps running, and spin    *)
(* keeps waiting and dispatching while the process is up.  Nothing obliges *)
(* inference to throw or the operator to interrupt.                        *)
(***************************************************************************)
Fairness ==
  /\ WF_vars(Construct)
  /\ WF_vars(TimerExpires)
  /\ WF_vars(WaitForWork)
  /\ WF_vars(TimerCallback)
  /\ \A t \in Topics : /\ WF_vars(sent[t] = 0 /\ Publish(t))
                        /\ WF_vars(SensorCallback(t))

FairSpec == Spec /\ Fairness

-------------------------------------------------------------------------------
(* Types.                                                                  *)

MotionStamp == Int \cup {None}

ObservationType ==
  [command: MotionStamp, anchor: MotionStamp, joint: Nat, imu: Nat,
   action: SUBSET Nat]

CommandType == [step: Int, obs: ObservationType, base: MotionStamp]

(* Every variable has its type; the queues respect the history depth.      *)
TypeOK ==
  /\ cfg \in Config
  /\ proc \in {"constructing", "spinning", "exited", "threw", "faulted"}
  /\ sent \in [Topics -> Nat]
  /\ queue \in [Topics -> Seq(Nat)]
  /\ \A t \in Topics : Len(queue[t]) <= Depth
  /\ expired \in BOOLEAN
  /\ ready \subseteq Entities
  /\ latest \in [Topics -> Nat]
  /\ received \in [Topics -> BOOLEAN]
  /\ initialized \in BOOLEAN
  /\ timestep \in Int
  /\ playSpeed \in {0, 1}
  /\ motionDone \in BOOLEAN
  /\ command \in MotionStamp
  /\ lastAction \in SUBSET Nat
  /\ align \in MotionStamp
  /\ cmds \in Seq(CommandType)

-------------------------------------------------------------------------------
(* Safety.                                                                 *)

(* The commands play the frames from start_timestep one by one: however    *)
(* ticks, samples and waits interleave, none is skipped, repeated or       *)
(* reordered, and _timestep is the next frame (timerCallback).             *)
FramesInOrder ==
  /\ \A i \in DOMAIN cmds : cmds[i].step = cfg.start + i - 1
  /\ initialized => timestep = cfg.start + Len(cmds)

(* The observation of a control step is fed by the previous inference and  *)
(* by no other: its reference motion is the frame before (the dry run's    *)
(* own frame for the first command), and the smoothed action in it has a   *)
(* share of every earlier raw action action_beta keeps and of no later     *)
(* one (initializeMotion, buildObservation, processAction).                *)
FeedbackIsOneInferenceOld ==
  \A i \in DOMAIN cmds :
    /\ cmds[i].obs.command = IF ~HasMotion THEN None
                             ELSE IF i = 1 THEN cfg.start
                             ELSE cmds[i-1].step
    /\ cmds[i].obs.action = IF cfg.beta = "one" THEN {i-1}
                            ELSE IF cfg.beta = "zero" THEN {}
                            ELSE 0 .. i-1

(* A residual action is added to the reference motion of the very frame it *)
(* was inferred for, although the observation of that inference still      *)
(* holds the frame before (setMotionCommand runs before computePdTarget).  *)
ResidualTracksItsFrame ==
  \A i \in DOMAIN cmds :
    cmds[i].base = IF cfg.residual /\ HasMotion THEN cmds[i].step ELSE None

(* Commands rest on received samples of both topics, never on the default  *)
(* constructed messages, and a later command never rests on an older       *)
(* sample than an earlier one (the guard of timerCallback, the callbacks). *)
SensorsMoveForward ==
  \A i \in DOMAIN cmds :
    /\ cmds[i].obs.joint > 0 /\ cmds[i].obs.imu > 0
    /\ \A j \in 1 .. i : /\ cmds[j].obs.joint <= cmds[i].obs.joint
                         /\ cmds[j].obs.imu <= cmds[i].obs.imu

(* A clip of n frames is at most n commands; the end is tested only after  *)
(* publishing, so a start at or past the end still costs one command.      *)
ClipBoundsCommands ==
  cfg.max > 0 =>
    \/ Len(cmds) <= 1
    \/ Len(cmds) <= cfg.max - cfg.start

(* A model whose outputs do not fit the configuration makes the node index *)
(* an empty vector; that happens before the robot was ever commanded.      *)
FaultsBeforeMotion == proc = "faulted" => cmds = <<>>

(* An observed anchor pose is expressed in the frame of the start of the   *)
(* clip: the alignment was taken at the dry run, before its first use, and *)
(* is not taken again (initializeMotion).                                  *)
AnchorsAligned ==
  \A i \in DOMAIN cmds :
    cmds[i].obs.anchor = IF HasMotion /\ cfg.bodies THEN cfg.start ELSE None

(* Once the motion is done the node never commands the robot again, nor    *)
(* moves its clock or its memory of the last action.                       *)
DoneIsFinal ==
  [][motionDone => /\ motionDone'
                   /\ UNCHANGED <<cmds, timestep, lastAction, command>>]_vars

(* The node implements the abstract playback.                              *)
Playback == INSTANCE MotionPlayback WITH
  clip   <- [start |-> cfg.start, max |-> cfg.max],
  mode   <- IF proc \notin {"constructing", "spinning"} THEN "stopped"
            ELSE IF motionDone THEN "done"
            ELSE IF initialized THEN "ready"
            ELSE "idle",
  frames <- [i \in DOMAIN cmds |-> cmds[i].step]

(* Every step of the node is a step of the playback or leaves it alone.    *)
ImplementsPlayback == Playback!Spec

(* The comment on the motionDone branch of timerCallback says "Keep        *)
(* publishing last command (hold position)": a tick after the end of the   *)
(* motion would publish a command.  The code returns; this does not hold.  *)
HoldsPosition ==
  [][motionDone /\ "timer" \in ready \ ready' => Len(cmds') = Len(cmds) + 1]_vars

-------------------------------------------------------------------------------
(* Liveness.                                                               *)

(* A finite clip is played to its end unless the process ends first: no    *)
(* interleaving of samples, waits and ticks starves the control loop.      *)
PlaybackCompletes ==
  (cfg.max > 0) ~> (motionDone \/ proc \in {"exited", "threw", "faulted"})

(* Every sample published, or a newer one of its topic, reaches the node   *)
(* while the process is up: the timer does not starve the subscriptions,   *)
(* and what a full queue drops is replaced by something newer.  It does    *)
(* not matter whether hl_motion goes on publishing or falls silent after   *)
(* any sample; under a publisher faster than the loop the node is behind.  *)
SampleOrNewerArrives ==
  \A t \in Topics, n \in 1 .. MaxSent :
    proc = "spinning" /\ sent[t] >= n
      ~> latest[t] >= n \/ proc # "spinning"

===============================================================================
