# rl_deploy in TLA+

A verification project for `rl_deploy`, the ROS 2 node that plays a BeyondMimic
motion-tracking policy (an ONNX network) on the CASBOT02 humanoid. It holds TLA+
modules translated from the source, TLC configurations that check them on small
instances, and theorems about them that TLAPS proves for every value of the
constants. Paths below are relative to the repository's root, named `src/`.

## 1. The system

`rl_deploy_node` is one process with one thread. Two topics come in from the
motion layer (`hl_motion`), one goes out to it:

    /motion/joint_state ──► jointStateCallback ─► _latest_joint_state, _joint_received ─┐
    /motion/imu         ──► imuCallback        ─► _latest_imu, _imu_received ───────────┤
    wall timer (1000/control_hz ms) ──► timerCallback ◄─────────────────────────────────┘
                                          │ DataConverter.buildObservation
                                          │ OnnxInfer.infer(observation, timestep)
                                          │ DataConverter.setMotionCommand / processAction
                                          ▼ DataConverter.computePdTarget, actionToJointCmd
                                     /motion/joint_cmd

The network holds the reference motion as well as the policy: `infer` is given
the timestep and returns the action and the reference of that frame (joint
positions, velocities and body poses). The reference is fed back into the *next*
observation, the action (smoothed) too.

| component | state | operations | who calls it |
|---|---|---|---|
| **RLControllerNode** (`src/src/rl_controller_node.cpp`, `src/src/main.cpp`) | latest messages and their flags, `_initialized`, `_timestep`, `_play_speed`, `_flag_motion_done` | constructor, `loadConfig`, `jointStateCallback`, `imuCallback`, `timerCallback`, `initializeMotion` | the rclcpp executor |
| **DataConverter** (`src/src/data_converter.cpp`) | configuration, two adapters, reverse name map, `_command`, `_last_action`, `_init_align` | `configure`, `configureFromYaml`, `setMotionCommand`, `initAlignment`, `buildObservation`, `processAction`, `computePdTarget`, `actionToJointCmd` | the node |
| **DoFAdapter** (same file) | index table, target length | `build`, `fit` | DataConverter |
| **TransformAlignment**, frame math (same file) | yaw and position of the start | `setBase`, `alignQuat`, `alignPos`, `alignTransform`, `subtractFrameTransforms`, `matrixFromQuat` | DataConverter |
| **OnnxInfer** (`src/src/onnx_infer.cpp`) | the session, its names, the metadata | `loadModel`, `parseModelMeta`, `infer`, `dryRun` | the node |
| **Configuration** (`src/config/rl_config.yaml`) | – | read once, overrides the metadata | `loadConfig` |
| **JointCmdPublisher** (`src/scripts/test_joint_cmd.py`) | options, measured pose, start and target pose, start time, done flag | `_joint_state_cb`, `_tick`: interpolate to a pose, or hold | a person; second publisher on `/motion/joint_cmd` |
| **StateChecker** (`src/scripts/check_state.py`) | counters, last messages, start time | two callbacks that count, `_print_stats` | a person |
| **Launch** (`src/launch/run.sh`) | the working copy: binary and cmake's cache | build if there is no binary, change directory, run | a person |

Not program logic of the repository: `src/include/onnxruntime` (vendored
headers), `src/build` (a generated tree, committed), `src/model` (the trained
network), `src/CMakeLists.txt` and `src/package.xml`.

### What makes it correct, and what is hard

* **The node.** The robot is commanded only on real samples of both topics; the
  frames are played in order, without gap or repetition, and the motion ends for
  good; each observation is fed back exactly one inference late, while the
  residual base is not late at all; the anchor is aligned to the start of the
  clip, and before its first use. Hard: the order of ticks and samples is the
  executor's and the network's, inference can be slower than the sensors so that
  queues overflow, the feedback is spread over four calls whose order matters,
  and the process goes on after several kinds of failed start.
* **The routing of joints.** The observation is permuted robot → model and
  renamed model → wire; the command is permuted model → robot and renamed again.
  A slip in one of the four commands one motor with another's target. Hard:
  names repeat, lists are partial, `joint_name_map` may be many-to-one, messages
  may be short and in any order.
* **Start-up.** Every vector of the configuration must fit the lists of joints
  and the network's shapes. Hard: two sources override one another list by list,
  most vectors are indexed without a check, some at the dry run, some at the first
  observation, some only for residual actions; what is too short must show before
  the robot moves, and sources that agree must be safe whoever overrides whom.
* **Frame math and action filter.** The heading of the clip must not matter, only
  where it goes from its start; smoothing, clipping and scaling must be applied in
  the order the policy was trained with. Hard: Eigen's `eulerAngles` takes its
  first angle from [0, π]; the memory is unclipped while the command is clipped;
  numbers that are no numbers stay.
* **The test tool.** A move starts where the joint is, never goes back, never
  leaves the way between start and target, and ends. Hard: its time is the
  system's clock, which may be set, also between the timer's waking up and its
  callback, or within the callback; the messages may name some joints only.
* **The diagnostic tool.** It survives the same clock, and a silent topic
  shows.
* **Two publishers.** Nothing arbitrates between controller and test tool; what
  is left is that the controller's frames keep their order and end for good.
* **Launch.** The node runs where its relative `model_path` is meant, from
  wherever the script was called, and a build that was cut short does not block
  the next call.

The full list of hazards, each at its line and with the properties that cover
it, is in `PROJECT.json`.

## 2. The modules

| module | what it is | component |
|---|---|---|
| `MotionPlayback` | abstract: what the node promises the robot | the node |
| `RLControllerNode` | node, executor, subscriptions, life of the process | the node, the order of calls into DataConverter, what `infer` returns |
| `DoFAdapter` | `build` and `fit` as operators over lists of names | DoFAdapter |
| `JointRouting` | `configure` and a control step, as far as joints and names go | DataConverter, Configuration |
| `Startup` | the size of every vector from the files to the first commands | `loadConfig`, OnnxInfer, DataConverter |
| `ActionFilter` | smoothing, clipping, scaling, the PD target, as numbers | DataConverter |
| `TransformAlignment` | alignment and relative pose of the anchor, as numbers | TransformAlignment and frame math |
| `JointCmdPublisher` | the test tool | JointCmdPublisher |
| `CommandBus` | the node's abstract playback and the test tool on one topic | composition |
| `StateChecker` | the diagnostic tool | StateChecker |
| `Launch` | the script, called again and again on one working copy | Launch |

`MC…` modules hold the instances for TLC (`Launch` needs none), `…_proofs` modules
the theorems (`Scripts_proofs` those of `Launch` and `StateChecker`).
`RLControllerNode` instantiates `MotionPlayback` with a refinement mapping;
`CommandBus` instantiates `MotionPlayback` and `JointCmdPublisher`; `JointRouting`
is built on `DoFAdapter`. The machines of the controller are separate on purpose:
which frame is played does not depend on which slot a joint has, nor on what number
is in it.

Operators named `Bug…` are faulty variants of the operator that follows them: a
dropped guard, an end tested one frame late, two weights swapped. No action uses
them. Each property is known to fail when one of them is put in place of the
correct operator (`mutants` in `PROJECT.json`), which is how we know that the
property can fail at all.

### RLControllerNode

| variable | code |
|---|---|
| `cfg` | YAML and metadata, as the flags that steer the control flow |
| `proc` | the process: in the constructor, in `rclcpp::spin`, returned from `main`, ended by an uncaught exception, or past undefined behaviour |
| `sent`, `queue` | what `hl_motion` has published; the KEEP_LAST history of each subscription (`Depth`, 10 in the code) |
| `expired`, `ready` | the wall timer's period has elapsed; the entities the executor's last wait returned and has not yet run |
| `latest`, `received` | `_latest_joint_state`/`_latest_imu`, `_joint_received`/`_imu_received` |
| `initialized`, `timestep`, `playSpeed`, `motionDone` | `_initialized`, `_timestep`, `_play_speed`, `_flag_motion_done` |
| `command`, `lastAction`, `align` | `_converter._command`, `_last_action`, `_init_align` |
| `cmds` | everything published on `/motion/joint_cmd`, with the origin of each part |

| action | code |
|---|---|
| `Construct` | the constructor: `loadConfig`, the period, `create_wall_timer` |
| `Interrupt` | SIGINT |
| `Publish(t)`, `TimerExpires`, `WaitForWork` | `hl_motion`, the clock, the executor's wait (external, from their use in `src/src/main.cpp` and the constructor) |
| `SensorCallback(t)` | `jointStateCallback`, `imuCallback` |
| `TickWaiting`, `TickInitialize`, `TickDone`, `TickControl` | the four ways through `timerCallback` that return normally |
| `TickFaults`, `TickThrows` | the two that do not: an empty vector is indexed; ONNX Runtime throws |

*Data are origins.* A sample is its sequence number, a reference motion the
timestep it was inferred for, a raw action the number of its inference, the
smoothed action the set of raw actions that have a share in it. So "fed by the
inference before" is a statement about state, and no number is computed.

*Decisions.*
* An interrupt comes between callbacks: rclcpp lets a running callback finish.
  If it comes in the constructor, or if `loadConfig` failed and shut the context
  down, `main` still calls `spin`, which dispatches nothing on a dead context.
* Within one wait, the order in which the collected entities run is left open.
  rclcpp runs timers before subscriptions, but the order is not promised: what
  holds here holds for it. Expiries of the timer collapse into one, as a wall
  timer of rclcpp skips missed periods.
* One sample is taken per subscription and wait; `rclcpp::spin` on the default
  executor runs one callback at a time, so the fields need no lock.
* The QoS is the default: reliable, volatile, KEEP_LAST. Samples are lost only
  when the history overflows, and are counted from the subscription on.
* Indexing an empty vector is undefined; the model ends in `"faulted"`. The
  division by `control_hz = 0` traps on x86 and yields 0 on the aarch64 build
  that is committed under `src/build`: both outcomes are in `TimerCreation`.
* The list of joints is not empty; with zero joints nothing would be indexed.

### DoFAdapter and JointRouting

A joint name is a number, ordered as `std::map` orders the strings: only
equality and this order matter. A measured value is its index in the message, a
target is the index of the model's joint it was computed for, 0 is `0.0`. `Fit`
lets the last writer of a slot win and leaves other slots 0: the parameter
`tmpl` of `fit` is used by no caller. `Configure` is `configure` as far as names
go, `ControlStep` is the passage of one message through `buildObservation`,
`computePdTarget` and `actionToJointCmd`, and `ControlFaults` is that passage
through adapters that were never built.

### Startup

`src` is what the YAML file, the metadata and the model contain, every list as its
number of elements; `sizes` are the lists of `_cfg`, `command` the vectors of
`_command`. `misread` is history: the vectors that were read past their end. `Start`
is the constructor with `loadConfig`, `DryRun` is `initializeMotion`, `ControlStep`
the passage of `timerCallback` from the observation to the command. Each step names
what it reads (`Read(vector, has, needs)`); a read past an end may fault or go on,
so both are in `Reading`. `InferThrows` is what makes ONNX Runtime refuse: a number
of inputs other than two, a dynamic size, a buffer shorter than the tensor declared
over it. Tensors have the rank the code expects and do not change their shape; `kp`
and `kd` are stored and never read, and are left out. Odd control rates are in
`RLControllerNode`.

### ActionFilter

One joint, for all are treated alike. `last` is `_last_action`, `command` the
reference position, `target` and `base` the last PD target and what it was added
to; `low`, `high` and `tainted` are history. `DryRun` and `ControlStep` are
`initializeMotion` and `timerCallback` as far as actions go. Numbers are integers
of some unit together with ±∞ and NaN, whose arithmetic (`Times`, `Plus`) and
comparisons are IEEE's: `0 * inf` is NaN, `std::clamp` lets NaN pass. Both what the
network returns as action and what it returns as reference, which is the base of a
residual action, may be such a number; the configured default pose is finite.
Rounding is left out; the instances make every quotient exact. With a negative clip
`std::clamp` has its bounds swapped, which is undefined: `Clamp` does what its two
comparisons do.

### TransformAlignment

Exact arithmetic: an orientation is a quaternion of integers, not normalised, its
matrix is `Norm` times as large, and a yaw is a direction `<<x, y>>` of any length.
`FirstAngle` and `ThirdAngle` are `eulerAngles(0,1,2)` on directions; where the
sign of a floating-point zero decides between two angles, both are possible.
`bases` holds the alignments of two copies of one clip, of which `turn` makes the
second; `SetBase` is `initAlignment` for both, `Observe` the anchor's part of
`buildObservation`, with `override` for `override_robot_anchor_pos`. The only call
sets `yaw_only` and `xy_only`, so the other branches are not in the module.

### JointCmdPublisher and CommandBus

| variable | code |
|---|---|
| `args` | the options, after argparse |
| `proc` | in `main`, in `rclpy.spin`, ended, or ended by an exception in a callback |
| `target`, `current`, `received`, `start`, `started`, `done` | `_target_map`, `_current_pos`, `_current_received`, `_start_pos`, `_start_time`, `_done` |
| `sent` | the last command |
| `clock`, `next`, `expired` | the clock since `_start_time`, when the timer is due, whether it was found due |
| `sets`, `raced` | how often the clock was set; history: it was set back while a tick was overdue, or within one |

`Main`, `Interrupt`, `JointState(m)` are `main`, Ctrl-C and `_joint_state_cb`;
`TickWaiting`, `TickFixed` (`--zero` and `--hold`), `TickReached` and `TickMoving`
the ways through `_tick`; `ClockRuns`, `ClockIsSet` and `TimerExpires` are the
clock and the executor (external). Time is counted in periods of the timer;
positions of a move of duration `d` in units of `1 / Scale(d)`, so that the
smoothstep is exact.

Timer and node read the same clock, so one that is set back delays the ticks too.
Two things can still make the elapsed time negative: a clock set back while a tick
is overdue, that is between the timer's waking up and its callback or before it
wakes up, and one set back within the callback, before the clock is read; the first
tick reads it twice, for `_start_time` and for `elapsed`, with the log between.
`ReadClock` is that reading: between the call of the timer and the reading no
period passes, or one does, or the clock is set. Both cases are kept in `raced`,
and the properties that they break say so.

`CommandBus` runs `MotionPlayback` (which the node implements) and
`JointCmdPublisher` side by side. What they publish goes into the one history of
hl_motion's subscription (`queue`, KEEP_LAST), from which `Apply` takes the oldest.
The tool's assumption on its constants is repeated there as `BusToolAssumption`.

### StateChecker and Launch

`StateChecker` has the counters, the rate that was printed last as a fraction, and
the same clock and timer as the test tool. What a line says of single joints is
left out. Its specification is named `CheckerSpec`, because `Scripts_proofs` extends
both modules. `Launch` follows the script from command to command (`step`); any of
them may fail (`set -e`) or be interrupted, the power may fail while the linker
writes, and between two calls someone may clean up. `binary` and `cache` are what
a call leaves behind; a configuration file is the directory it lies in. The
initial working copy is the committed one or one without its build tree.

## 3. The runs

| run (distinct states) | question | bounds |
|---|---|---|
| `playback` (229 697) | For six clips (from the start, the middle, the end, past the end, endless, negative start), three kinds of smoothing, models that return 0 to 7 tensors, failing start-ups and odd control rates: do the invariants hold, is the end final, is the playback implemented, does a misfit stop the node before the first command; and, under fairness, is a finite clip played to its end, and does each sample, or a newer one, reach the node? | `Depth` 2, 3 samples per topic, 3 commands |
| `hold_position` | Does the node hold the position when the motion is done, as its comment says? No (below). | |
| `routing` (57 133) | All lists of one to three joints with repetitions, the empty list of the robot, eight name maps, and the deployed 25 joints with their map; short, shuffled and rotated messages of 4 and 49 joints: is a joint commanded where it is observed? | names 11–13 and wires 1–2; 11 messages |
| `one_to_one` | Does an empty `robot_joint_names` mean one to one? No (below). | |
| `align` (114 436) | Is the heading of a clip ignored, and which yaw is kept? | 67 starts of any tilt, 4 turns, 6 later frames, 3 robots |
| `align_tilted` | Does an aligned clip face forward? No, after a negative roll (below). | |
| `filter` (24 564) | Are targets within reach, does smoothing stay in range, is what was lost lost for good? | a dry run and two steps, 7 raw actions with ±∞ and NaN, references of 7, 40, −∞ and NaN, clips of −8 to 100 |
| `sizes` (23 788) | For every mix of YAML lists and metadata and for models with missing, short and long tensors: what is read past its end, and when? | two joints, two bodies, and the deployed sizes |
| `tool` (862 536) | Does the test tool start without a jump, go one way, stay on it, arrive, and stay there? | two joints, durations −1 to 3 periods, the clock set twice to any time, at any moment |
| `checker` (118 987) | Does the diagnostic tool survive its clock, and does silence show? | 9 units of half a second, 2 messages per topic, rates of 1, 1/2, 2, 0 and −1, the clock set once |
| `launch` (560) | Does the node run at home, and does the script start it in the end? | three directories |
| `bus` (3 885 126) | What is left of the controller's order, and of the tool's move, beside a second publisher? | a clip of two frames, an endless one cut at 3, a move of 2 periods, the clock set once, `Depth` 2 |

The properties:

* `FramesInOrder`, `ClipBoundsCommands`, `DoneIsFinal`, and `ImplementsPlayback`,
  which sums them up: whatever the sensors, the executor and the network do, the
  robot is given the frames of the clip in order, and nothing after the end.
* `FeedbackIsOneInferenceOld` and `ResidualTracksItsFrame`: the four calls around
  `infer` come in the one order that gives the observation the old reference and
  the old action and the residual its own.
* `SensorsMoveForward`: no command rests on a default message or goes back in time.
* `FaultsBeforeMotion`: undefined behaviour of a misfitting model strikes before
  the robot moves, never in the middle of a motion.
* `AnchorsAligned`: the alignment belongs to the frame the clip starts with.
* `PlaybackCompletes`, `SampleOrNewerArrives`: nothing starves on the one thread.
  The second does not say that the newest sample arrives, which under a publisher
  faster than the loop it need not: of every sample, it or a newer one does.
* `SameMotor`, `MotorsNamedOnce`, `ActionsReachMotors`: the two permutations and
  the two renamings invert one another, and no action is lost on the way.
* `FittingSourcesAreSafe`: `SourcesFit` is the agreement of the sources that saves
  the node from every read past an end; without it `MisfitsShowBeforeMotion` says
  that a misfit shows by the first command.
* `SmoothingStaysInRange`, `TargetWithinReach`, `CommandIsNearestToMemory`: the
  blend does not overshoot for any `action_beta` in [0, 1], the clip bounds the
  command and only the command. A reference of the network that is not finite is
  the base of a residual action past every clip; `TargetWithinReach` names this case,
  and the raw action that was not finite. `LostForGood`: a single infinite or NaN action
  spoils the joint for the rest of the motion, also with `action_beta` 1.
* `ClipHeadingIsIgnored`: turning and shifting the whole clip changes no
  observation, if it starts level. `YawFlipsWithRoll` says what happens otherwise.
* `StaysBetween`, `NeverBacksOff`, `NoJumpAtStart`, `TargetIsKept`,
  `ReachesTarget`: the moves of the test tool, under a clock that is set.
* `StatsSurviveTheClock`, `SilenceShows`: the diagnostic tool.
* `RunsAtHome`, `StartsInTheEnd`: the script. A relative configuration file is
  found if the script is called as its usage shows, from the project's directory; of
  other directories nothing is promised. The two states it cannot leave by
  itself are named: a cache that cmake refuses, and a binary cut short, which
  counts as built.
* `FramesArriveInOrder`, `SilenceAfterEnd`: the controller's frames on the topic with
  two publishers. `AppliedStaysBetween`: the tool's commands, old as they may be when
  the robot takes them, are still between the start and the target of the move.

**Why the bounds are enough.** `Depth` is 2 instead of 10: with three samples a
queue overflows, holds several samples, and is drained between waits. `MaxSent`
bounds the samples, not the ticks: between two samples any number of ticks may pass,
and ticks go on when the samples have stopped. No property rests on that silence:
`SampleOrNewerArrives` is a statement about each sample, which more samples only
make easier to fulfil. `MaxCommands` cuts endless clips only: the finite ones (at
most three frames) are played to their end, and the timer keeps expiring after it.
Three joints are enough for a duplicate beside a joint of its own. Two control steps
are enough for the filter, whose state is one number; its raw actions are multiples
of 8, so three halvings stay exact. The quaternions of `align` with coefficients −1
to 1 have every sign of roll, pitch and yaw, and gimbal lock. The tool's clock is
set within one period around the move, farther away is no different; twice is needed
to go back and forth. The proofs cover the rest.

`CHECK_DEADLOCK FALSE` stands where a process really ends or a bound is spent; it
is not needed for `launch`, where the script can always be called again, and for
`align`.

**Fairness.** `FairSpec` of the node assumes weak fairness of the constructor, the
clock, the executor's wait, each dispatch and the first sample of each topic; after
that `hl_motion` may publish on or fall silent at any time. `spin` is a loop that
waits and dispatches all it has collected before it waits again, and the clock does
not depend on the node. `Interrupt` has no fairness, and a throw is one of the ways
the fair `TimerCallback` may take, never one it must: liveness is therefore stated
"or the process has ended". The test tool has the same fairness for its clock,
timer, callbacks and `main`. For the script, weak fairness says that it is called
again, and strong fairness of its four steps that no command fails each time it is
reached; clean-ups are not fair, which is why `StartsInTheEnd` names the two states
only a clean-up ends.

### What the runs found

1. `hold_position`: the comment in `src/src/rl_controller_node.cpp` on the branch for a
   finished motion says that the last command is published on; the code returns
   and `/motion/joint_cmd` falls silent. Whether the robot holds its pose is left
   to the receiver.
2. `one_to_one`: `src/include/data_converter.hpp` says an empty
   `robot_joint_names` means one to one; the code builds no adapter then, and
   `buildObservation` reads an empty vector at the first control step.
3. `align_tilted`: the class promises a yaw-only alignment, but takes the third of
   `eulerAngles(0,1,2)`, whose first angle Eigen keeps in [0, π]. An anchor that
   starts with a negative roll, however small, is aligned to face backward. The
   theorem `YawFlips` says this for every orientation.

Seen while modelling, and not runs of their own: `joint_name_map` hides a joint's
own name, so the "same-name fallback" of `src/config/rl_config.yaml` holds only for
joints without an entry; 1000 / `control_hz` is cut to whole milliseconds, so 60 Hz
is run as 62.5 Hz and logged as 60; the test tool warns of an unknown joint that it
"will still try to command" and never puts into a command, `--hold` sends back the
measured position at every tick and 0.0 for a joint never measured; `--rate` of the
diagnostic tool is an interval in its help and a frequency in its usage and code;
`run.sh path/to/config.yaml` is looked up from the project's directory, not from
the caller's.

## 4. The proofs

Assumed of the constants, and nothing else: the configurations are records of the
right shape (`ConfigsAssumption`, `SourcesAssumption`, `FilterAssumption`,
`PosesAssumption`, `ToolAssumption` and, on the bus, `BusToolAssumption`), `Depth`
and the other bounds are numbers (`BoundsAssumption`, `BusAssumption`), `None` is
not one of the values it stands beside (`NoneAssumption`), lists, maps and messages
are made of names and a name map has a last entry, being finite
(`RoutingAssumption`), two of the directories are the project's and the build's
(`DirsAssumption`), and a rate is a fraction, of any sign, the period of a positive
one being a whole number of the units of time (`CheckerAssumption`). The bounds of
the runs are constants too, so the theorems hold for clips, queues and numbers of
samples of any length. TLC evaluates these assumptions in every run.

**RLControllerNode.**

* `TypeInv` adds to `TypeOK` that a collected subscription still has a sample
  (`ReadyIsQueued`). Without it `Head(queue[t])` in a callback would have no
  type; it holds because only the callback takes samples and KEEP_LAST never
  empties a queue. → `TypeCorrect`.
* `PlaybackInv` says what the variables are as a function of the number of
  commands (`StateInv`: timestep, stored reference, smoothed action, alignment,
  play speed, done flag) and what each command was made of (`CommandsInv`). None
  of the safety properties is inductive alone: that the observation is one
  inference old needs what is stored *now*, which needs how often the timer has
  run. `QuietStep`, `InitializeStep` and `ControlStepPreserves` are the three
  cases. → `FramesAreInOrder`, `FeedbackIsFresh`, `ResidualIsTracked`,
  `ClipIsBound`, `FaultsComeFirst`, `AnchorsAreAligned`, `DoneStaysDone`.
* `SensorInv` orders the samples: those of the commands before the latest, the
  latest before the queue, the queue increasing and below what was sent. Three
  stages have to be ordered because a sample passes all three.
  → `SensorsAreMonotone`.
* `NodeImplementsPlayback`: initial states map to initial states and each action
  to a step or a stutter of `MotionPlayback`, using `PlaybackInv` for the frame
  and the end.

**JointRouting.** `RoutingInv` keeps the adapters and the reverse map what
`Configure` made them, and ties the last observation and command to one message.
`AdaptersInvert` is the heart: if the adapter robot → model takes slot `i` to
`k`, and the adapter model → robot fills `i` from `k`, then both agree on the
name, repeated names included, because both take the last of equal names.
→ `CommandsGoWhereObserved`, `NamesAreUnique`.

Without repeated names every joint of the model has one slot of the robot
(`NamesakesOfSlot`), so no action is lost → `ActionsArrive`. `TypeCorrect` rests on
the types of the two adapters.

**Startup.** The invariant says in which order things are read: nothing before the
dry run (`NothingYet`), the lists of `_cfg` are what `Configured` made them
(`SizesInv`), the stored command is the one of the dry run (`CommandInv`), and once
a command was published everything a control step reads has been read before
(`CommandedInv`), so a later step can read nothing new past its end.
→ `FittingIsSafe`, `MisfitsShowFirst`; and
`FallbacksAlwaysFit`: the lists the code makes itself are long enough.

**ActionFilter.** A convex combination of two numbers of a range lies in it, also
when the quotient is rounded down; `Clamp` returns the nearest number of its
interval; and a sum with a number that is not finite is that number, or NaN, which
is where the two exceptions of `TargetWithinReach` come from. The theorems hold for
every action and every reference, finite or not. → `SmoothingInRange`,
`TargetsWithinReach`, `CommandIsNearest`, `LostIsLost`.

**TransformAlignment.** `YawOfOrientation`: for every quaternion of integers the
direction `eulerAngles` leaves is parallel to the principal yaw, and the sign of
the roll decides whether it is opposite. The proof multiplies out the matrix, with
its entries as variables of the polynomial identities. → `YawFlips`, `TypeCorrect`.

`HeadingInv` ties the two bases of a level clip: the second has the yaw and the
position of the first, turned and shifted (`BaseTurned`). It holds because the
matrix of a product with a turn is the product of the matrices (`TurnedColumns`),
because a level orientation has no other yaw than its principal one (`LevelYaw`),
which therefore turns with the clip (`YawTurns`). That the observations are equal
follows frame by frame: `UnturnUndoes` says that what is turned with its yaw is
turned back, `AlignTurns` that any frame, level or not, is aligned alike, and
`RelativeScales` that the robot's orientation adds nothing. Lengths are carried along
in all of them, because nothing is normalised. → `HeadingIgnored`. Its complement to
the run `align_tilted` is `LevelStartFacesForward`: from a level start the first
frame does face forward.

**JointCmdPublisher.** None of its properties is inductive. The invariant says of
which times it is certain that they will have passed at the next call of the timer
(`Passed(e)`: not before the timer is due, or shown by the clock already), for a
clock that is set back must come to `next` again before there is another tick. Unless
raced, the start has passed (`DueInv`); what was sent last is where the move is at some
time that has passed, or the target, and then the end has passed (`MoveInv`).
`TimeBetweenTicks` keeps this whatever happens between two ticks, and `TimeOfTick` says
that a tick reads a clock that shows all of it. Monotony and bounds of the smoothstep
are lemmas on integers, for every duration. → `AlwaysBetween`, `MoveNeverBacksOff`,
`TargetKept`, `StartsWithoutJump`.

**CommandBus.** `Ordered`: the controller's frames in the queue increase, are
above the last one taken and below the next one to be played; dropping the oldest
and interleaving others keep this. → `InOrder`, `SilentForGood`.

Every behaviour of the bus is one of the abstract playback and one of the tool
(`ControllerIsPart`, `ToolIsPart`), so what is proved of the tool holds on the bus:
`ToolTheorems` is an instance of `JointCmdPublisher_proofs`, and `SameTool` says
that its tool is the one on the bus. `BetweenInv` extends `StaysBetween` to the
commands that wait: a command of the tool is judged by the start and the targets of
the move, so it matters that these are fixed before the first command is sent
(`ToolFacts`) and no step changes them after (`MoveIsFixed`). → `AppliedBetween`:
what the robot last applied of the tool's commands is between start and target, not
only what was sent; `bus` checks the same (`AppliedStaysBetween`).

**Launch and StateChecker** (`Scripts_proofs`). The working directory as a function
of the step. → `NodeRunsAtHome`, `TypeCorrect`. Of the checker, `StatsInv` keeps how
a printed line came about: a rate that is not zero is the messages over the uptime
of *that* line, never of another clock reading. Without it two lines could not be
compared. → `StatsSurvive`, `SilenceIsShown`.

**Only model-checked.** The liveness properties `PlaybackCompletes`,
`SampleOrNewerArrives`, `ReachesTarget` and `StartsInTheEnd` (liveness under fairness
and ENABLED are beyond the prover). Every invariant and action property of a passing
run is a theorem. Nothing here needs induction over data or a RECURSIVE operator,
both beyond the prover too.

## 5. Not modelled, and what is left

* **The ONNX Runtime headers** (`src/include/onnxruntime`) are vendored and make up
  about 11 300 of the 12 700 lines of the repository's sources; the modules hold
  what `OnnxInfer` uses of them. Of the repository's own code nearly every line is
  mapped; what is not is logging, getters, includes and the text processing below.
* **Build files and the generated build tree** have no behaviour of their own; the
  committed binary and cache are the initial state of `Launch`.
* **The network's function** is arbitrary in the models, its numbers of inputs and
  outputs are configurations.
* **Floats**: rounding is left out everywhere. In particular the timestep is passed
  to the network as a float, so past 2^24 frames of an endless clip (93 hours at
  50 Hz) consecutive timesteps become equal; the models keep it exact.
* **Text**: how the metadata are split at commas, how options and YAML are parsed.
  Only how many elements come out, and that a failure ends the start, is modelled.
* **No property** where the code promises none: nothing watches over the age of
  the samples, nothing pairs joint and imu samples of one observation, `--hold` has
  no bound on its drift.
* **Left open inside**: DDS, rclcpp, rclpy and ONNX Runtime, from their use only.

What could follow: that the robot's own path under the tool's commands is monotone
(`NeverBacksOff` for `applied`), with the order of the waiting commands as the
invariant; the clock of the two Python tools as a module of its own, so that what is
proved of `DueInv` can be cited for `StateChecker`.
