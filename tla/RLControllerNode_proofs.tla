------------------------ MODULE RLControllerNode_proofs ------------------------
(***************************************************************************)
(* Theorems about RLControllerNode, for every set of configurations, every *)
(* history depth and every bound on samples and commands.                  *)
(***************************************************************************)
EXTENDS RLControllerNode, SequenceTheorems, TLAPS

(* What the executor collected from a subscription is still in its queue.  *)
ReadyIsQueued == \A t \in Topics : t \in ready => queue[t] # <<>>

TypeInv == TypeOK /\ ReadyIsQueued

-------------------------------------------------------------------------------
(* Lemmas about the middleware.                                            *)

(* A published sample enters a queue that never outgrows its depth.        *)
LEMMA KeepLastAppend ==
  ASSUME NEW q \in Seq(Nat), Len(q) <= Depth, NEW n \in Nat
  PROVE  /\ KeepLast(Append(q, n)) \in Seq(Nat)
         /\ Len(KeepLast(Append(q, n))) <= Depth
         /\ KeepLast(Append(q, n)) # <<>>
<1> DEFINE a == Append(q, n)
<1>1. a \in Seq(Nat) /\ Len(a) = Len(q) + 1 /\ Depth \in Nat \ {0}
      /\ Len(q) \in Nat /\ Len(<<>>) = 0
  BY BoundsAssumption, AppendProperties, LenProperties, EmptySeq
<1>2. Len(a) # Len(<<>>)
  BY <1>1
<1>3. a # <<>>
  BY <1>2, Zenon
<1>4. CASE Len(a) > Depth
  <2>1. Tail(a) \in Seq(Nat) /\ Len(Tail(a)) = Len(a) - 1
    BY <1>1, <1>3, HeadTailProperties
  <2> QED
    BY <1>1, <1>4, <2>1 DEF KeepLast
<1>5. CASE ~(Len(a) > Depth)
  BY <1>1, <1>3, <1>5 DEF KeepLast
<1> QED
  BY <1>4, <1>5

(* The blended action has a share of earlier actions and of action n only. *)
LEMMA ProcessActionType ==
  ASSUME lastAction \in SUBSET Nat, NEW n \in Nat, ProcessAction(n)
  PROVE  lastAction' \in SUBSET Nat
BY DEF ProcessAction

(* The observation built from well-typed state is well typed.              *)
LEMMA ObservationHasType ==
  ASSUME TypeOK
  PROVE  Observation \in ObservationType
BY DEF TypeOK, Topics, Observation, ObservationType, MotionStamp

-------------------------------------------------------------------------------
(* The type invariant, with what the executor relies on to take a sample.  *)
THEOREM TypeInvariant == Spec => []TypeInv
<1>1. Init => TypeInv
  <2> SUFFICES ASSUME Init PROVE TypeInv
    OBVIOUS
  <2>1. cfg \in Config
    BY ConfigsAssumption DEF Init
  <2>2. queue \in [Topics -> Seq(Nat)] /\ \A t \in Topics : Len(queue[t]) <= Depth
    BY EmptySeq, BoundsAssumption DEF Init
  <2>3. cmds \in Seq(CommandType)
    BY EmptySeq DEF Init
  <2>5. sent \in [Topics -> Nat] /\ latest \in [Topics -> Nat]
        /\ received \in [Topics -> BOOLEAN]
    BY DEF Init
  <2>6. expired \in BOOLEAN /\ initialized \in BOOLEAN /\ motionDone \in BOOLEAN
    BY Zenon DEF Init
  <2>4. ready \subseteq Entities /\ ReadyIsQueued
    BY DEF Init, ReadyIsQueued
  <2> QED
    BY <2>1, <2>2, <2>3, <2>4, <2>5, <2>6 DEF Init, TypeInv, TypeOK, MotionStamp
<1>2. TypeInv /\ [Next]_vars => TypeInv'
  <2> SUFFICES ASSUME TypeInv, [Next]_vars
               PROVE  TypeInv'
    OBVIOUS
  <2> USE DEF TypeInv, ReadyIsQueued
  <2>1. CASE Construct
    BY <2>1 DEF Construct, TypeOK, TimerCreation, Config, envVars, subVars, convVars
  <2>2. CASE Interrupt
    BY <2>2 DEF Interrupt, TypeOK, envVars, subVars, playVars, convVars
  <2>3. ASSUME NEW t \in Topics, Publish(t)
        PROVE  TypeInv'
    <3>1. /\ KeepLast(Append(queue[t], sent[t] + 1)) \in Seq(Nat)
          /\ Len(KeepLast(Append(queue[t], sent[t] + 1))) <= Depth
          /\ KeepLast(Append(queue[t], sent[t] + 1)) # <<>>
      BY KeepLastAppend DEF TypeOK
    <3> QED
      BY <2>3, <3>1 DEF Publish, TypeOK, playVars, convVars
  <2>4. CASE TimerExpires
    BY <2>4 DEF TimerExpires, TypeOK, envVars, subVars, playVars, convVars
  <2>5. CASE WaitForWork
    <3>1. ready' \subseteq Entities /\ \A t \in Topics : t \in ready' => queue[t] # <<>>
      BY <2>5 DEF WaitForWork, Collected, Entities, Topics
    <3> QED
      BY <2>5, <3>1 DEF WaitForWork, TypeOK, envVars, subVars, playVars, convVars
  <2>6. ASSUME NEW t \in Topics, SensorCallback(t)
        PROVE  TypeInv'
    <3>1. queue[t] \in Seq(Nat) /\ queue[t] # <<>> /\ Len(queue[t]) <= Depth
      BY <2>6 DEF SensorCallback, Dispatch, TypeOK
    <3>2. /\ Head(queue[t]) \in Nat
          /\ Tail(queue[t]) \in Seq(Nat)
          /\ Len(Tail(queue[t])) <= Depth
      BY <3>1, HeadTailProperties, LenProperties, BoundsAssumption
    <3> QED
      BY <2>6, <3>2 DEF SensorCallback, Dispatch, Entities, TypeOK, envVars,
                        playVars, convVars
  <2>7. CASE TickWaiting
    BY <2>7 DEF TickWaiting, DispatchTimer, Dispatch, TypeOK, envVars, subVars,
                playVars, convVars
  <2>8. CASE TickInitialize
    <3>1. lastAction' \in SUBSET Nat
      BY <2>8, ProcessActionType DEF TickInitialize, TypeOK
    <3> QED
      BY <2>8, <3>1 DEF TickInitialize, DispatchTimer, Dispatch, SetMotionCommand,
                  SetAlignment, TypeOK, MotionStamp, envVars, subVars
  <2>9. CASE TickDone
    BY <2>9 DEF TickDone, DispatchTimer, Dispatch, TypeOK, envVars, subVars,
                playVars, convVars
  <2>10. CASE TickControl
    <3>1. lastAction' \in SUBSET Nat
      BY <2>10, ProcessActionType DEF TickControl, TypeOK
    <3>2. /\ command' \in MotionStamp
          /\ PdBase \in MotionStamp
      BY <2>10 DEF TickControl, SetMotionCommand, PdBase, TypeOK, MotionStamp
    <3>3. [step |-> timestep, obs |-> Observation, base |-> PdBase] \in CommandType
      BY <3>2, ObservationHasType DEF CommandType, TypeOK
    <3>4. cmds' \in Seq(CommandType)
      BY <2>10, <3>3, AppendProperties DEF TickControl, TypeOK
    <3>5. timestep' \in Int /\ playSpeed' \in {0, 1}
      BY <2>10 DEF TickControl, AdvanceTimestep, TypeOK
    <3>6. motionDone' \in BOOLEAN
      BY <2>10, Zenon DEF TickControl, AdvanceTimestep, TypeOK
    <3> QED
      BY <2>10, <3>1, <3>2, <3>4, <3>5, <3>6
         DEF TickControl, DispatchTimer, Dispatch, TypeOK, envVars, subVars
  <2>11. CASE TickFaults
    BY <2>11 DEF TickFaults, DispatchTimer, Dispatch, TypeOK, envVars, subVars,
                 playVars, convVars
  <2>12. CASE TickThrows
    BY <2>12 DEF TickThrows, DispatchTimer, Dispatch, TypeOK, envVars, subVars,
                 playVars, convVars
  <2>13. CASE UNCHANGED vars
    BY <2>13 DEF vars, TypeOK, envVars, subVars, playVars, convVars
  <2> QED
    BY <2>1, <2>2, <2>3, <2>4, <2>5, <2>6, <2>7, <2>8, <2>9, <2>10, <2>11,
       <2>12, <2>13 DEF Next, TimerCallback
<1> QED
  BY <1>1, <1>2, PTL DEF Spec

(* Every reachable state is well typed: in particular neither subscription *)
(* ever holds more than Depth samples.                                     *)
THEOREM TypeCorrect == Spec => []TypeOK
<1>1. TypeInv => TypeOK
  BY DEF TypeInv
<1> QED
  BY <1>1, TypeInvariant, PTL

-------------------------------------------------------------------------------
(***************************************************************************)
(* The playback invariant.  The safety properties speak of the commands    *)
(* already published; what makes them inductive is the relation between    *)
(* the number of commands and the state the next one is computed from.     *)
(***************************************************************************)

(* Nothing has been touched before the dry run.                            *)
Unprimed ==
  /\ ~motionDone
  /\ cmds = <<>>
  /\ command = None
  /\ lastAction = {}
  /\ proc = "spinning" => timestep = cfg.start

(* A configuration under which the first observation faults.               *)
Unobservable == HasMotion /\ (cfg.outputs = 2 \/ (cfg.bodies /\ cfg.outputs = 3))

(* From the dry run on, each part of the state is a function of the number *)
(* of commands: _timestep, the motion command and the smoothed action.     *)
Primed ==
  /\ proc # "constructing"
  /\ timestep = cfg.start + Len(cmds)
  /\ command = IF ~HasMotion THEN None
               ELSE IF Len(cmds) = 0 THEN cfg.start
               ELSE cfg.start + Len(cmds) - 1
  /\ lastAction = IF cfg.beta = "one" THEN {Len(cmds)}
                  ELSE IF cfg.beta = "zero" THEN {}
                  ELSE 0 .. Len(cmds)
  /\ ~DryRunFaults
  /\ HasMotion /\ cfg.bodies => Unobservable \/ align = cfg.start
  /\ Len(cmds) > 0 => ~Unobservable

(* While the motion is playing, its end lies ahead.                        *)
Playing ==
  ~motionDone => /\ playSpeed = 1
                 /\ cfg.max > 0 => Len(cmds) = 0 \/ cfg.start + Len(cmds) < cfg.max

StateInv ==
  /\ initialized => Primed
  /\ ~initialized => Unprimed
  /\ Playing

CommandsInv ==
  /\ FramesInOrder
  /\ FeedbackIsOneInferenceOld
  /\ ResidualTracksItsFrame
  /\ ClipBoundsCommands
  /\ AnchorsAligned

PlaybackInv == StateInv /\ CommandsInv /\ FaultsBeforeMotion

(* Steps that leave the playback alone preserve the invariant, provided    *)
(* the process only ever leaves its main loop.                             *)
LEMMA QuietStep ==
  ASSUME PlaybackInv,
         UNCHANGED <<cfg, playVars, convVars, cmds>>,
         proc' = proc \/ proc' \notin {"constructing", "spinning"},
         proc' = "faulted" => proc = "faulted" \/ cmds = <<>>
  PROVE  PlaybackInv'
<1> USE DEF playVars, convVars
<1>1. StateInv'
  BY DEF PlaybackInv, StateInv, Unprimed, Unobservable, Primed, Playing,
         HasMotion, DryRunFaults
<1>2. CommandsInv'
  BY DEF PlaybackInv, CommandsInv, FramesInOrder, FeedbackIsOneInferenceOld,
         ResidualTracksItsFrame, ClipBoundsCommands, AnchorsAligned, HasMotion
<1>3. FaultsBeforeMotion'
  BY DEF PlaybackInv, FaultsBeforeMotion
<1> QED
  BY <1>1, <1>2, <1>3 DEF PlaybackInv

(* The dry run establishes what the control steps rely on.                 *)
LEMMA InitializeStep ==
  ASSUME TypeOK, PlaybackInv, TickInitialize
  PROVE  PlaybackInv'
<1> USE DEF TickInitialize, envVars, subVars
<1>1. /\ cmds = <<>> /\ cmds' = <<>> /\ Len(cmds') = 0
      /\ command = None /\ lastAction = {}
      /\ timestep = cfg.start /\ timestep' = cfg.start
      /\ cfg' = cfg /\ cfg.start \in Int /\ cfg.max \in Int
      /\ proc = "spinning" /\ proc' = "spinning"
  BY EmptySeq DEF DispatchTimer, Dispatch, PlaybackInv, StateInv, Unprimed,
                  TypeOK, Config
<1>2. command' = IF HasMotion THEN cfg.start ELSE None
  BY <1>1 DEF SetMotionCommand
<1>3. lastAction' = IF cfg.beta = "one" THEN {0}
                    ELSE IF cfg.beta = "zero" THEN {}
                    ELSE 0 .. 0
  BY <1>1 DEF ProcessAction
<1>4. HasMotion /\ cfg.bodies => Unobservable \/ align' = cfg.start
  BY <1>1 DEF SetAlignment, HasMotion, Unobservable, DryRunFaults, TypeOK, Config
<1>5. Primed'
  BY <1>1, <1>2, <1>3, <1>4 DEF Primed, HasMotion, Unobservable, DryRunFaults
<1>6. Playing'
  BY <1>1 DEF PlaybackInv, StateInv, Unprimed, Playing
<1>7. initialized'
  OBVIOUS
<1>8. CommandsInv'
  BY <1>1, <1>7 DEF CommandsInv, FramesInOrder, FeedbackIsOneInferenceOld,
     ResidualTracksItsFrame, ClipBoundsCommands, AnchorsAligned
<1>9. FaultsBeforeMotion'
  BY <1>1 DEF FaultsBeforeMotion
<1> QED
  BY <1>5, <1>6, <1>7, <1>8, <1>9 DEF PlaybackInv, StateInv

(* A control step appends one command made of exactly the frame, the       *)
(* feedback and the alignment that are due.                                *)
LEMMA ControlStepPreserves ==
  ASSUME TypeOK, PlaybackInv, TickControl
  PROVE  PlaybackInv'
<1> DEFINE n == Len(cmds)
           c == [step |-> timestep, obs |-> Observation, base |-> PdBase]
<1>1. /\ initialized /\ initialized' /\ ~motionDone /\ ~ObservationFaults
      /\ cmds' = Append(cmds, c)
      /\ cfg' = cfg /\ align' = align /\ HasMotion' = HasMotion
      /\ proc = "spinning" /\ proc' = "spinning"
  BY DEF TickControl, ControlStep, DispatchTimer, Dispatch, envVars, HasMotion
<1>2. /\ n \in Nat /\ DOMAIN cmds = 1 .. n
      /\ Len(cmds') = n + 1 /\ DOMAIN cmds' = 1 .. n + 1
      /\ \A i \in 1 .. n : cmds'[i] = cmds[i]
      /\ cmds'[n + 1] = c
  <2>1. cmds \in Seq({cmds[i] : i \in DOMAIN cmds} \cup {c})
    BY LenProperties DEF TypeOK
  <2> QED
    BY <2>1, <1>1, AppendProperties, LenProperties
<1>3. /\ timestep = cfg.start + n /\ playSpeed = 1
      /\ cfg.start \in Int /\ cfg.max \in Int /\ cfg.start # None
      /\ timestep \in Int /\ timestep # None
      /\ timestep' = timestep + 1
  BY <1>1, NoneAssumption
     DEF PlaybackInv, StateInv, Primed, Playing, TypeOK, Config, TickControl,
         AdvanceTimestep
<1>4. /\ command = IF ~HasMotion THEN None
                   ELSE IF n = 0 THEN cfg.start ELSE cfg.start + n - 1
      /\ lastAction = IF cfg.beta = "one" THEN {n}
                      ELSE IF cfg.beta = "zero" THEN {} ELSE 0 .. n
      /\ ~DryRunFaults
      /\ HasMotion /\ cfg.bodies => Unobservable \/ align = cfg.start
  BY <1>1 DEF PlaybackInv, StateInv, Primed
<1>5. HasMotion <=> command # None
  BY <1>2, <1>3, <1>4, NoneAssumption
<1>6. ~Unobservable
  BY <1>1, <1>5 DEF ObservationFaults, Unobservable
<1>7. command' = IF HasMotion THEN cfg.start + n ELSE None
  BY <1>3, <1>4 DEF TickControl, SetMotionCommand
<1>8. lastAction' = IF cfg.beta = "one" THEN {n + 1}
                    ELSE IF cfg.beta = "zero" THEN {} ELSE 0 .. n + 1
  <2>1. ProcessAction(n + 1)
    BY DEF TickControl
  <2>2. (0 .. n) \cup {n + 1} = 0 .. n + 1
    BY <1>2
  <2> QED
    BY <2>1, <2>2, <1>4 DEF ProcessAction
<1>9. Primed'
  BY <1>1, <1>2, <1>3, <1>4, <1>6, <1>7, <1>8
     DEF Primed, Unobservable, DryRunFaults
<1>10. Playing'
  BY <1>1, <1>2, <1>3 DEF Playing, TickControl, AdvanceTimestep
<1>11. FramesInOrder'
  BY <1>1, <1>2, <1>3, <1>9 DEF PlaybackInv, CommandsInv, FramesInOrder, Primed
<1>12. FeedbackIsOneInferenceOld'
  <2>1. c.obs.command = command /\ c.obs.action = lastAction
    BY DEF Observation
  <2>2. n # 0 => n \in 1 .. n /\ cmds'[n].step = cfg.start + n - 1
    BY <1>2, <1>3 DEF PlaybackInv, CommandsInv, FramesInOrder
  <2> SUFFICES ASSUME NEW i \in 1 .. n + 1
               PROVE  /\ cmds'[i].obs.command = IF ~HasMotion THEN None
                                                ELSE IF i = 1 THEN cfg.start
                                                ELSE cmds'[i-1].step
                      /\ cmds'[i].obs.action = IF cfg.beta = "one" THEN {i-1}
                                               ELSE IF cfg.beta = "zero" THEN {}
                                               ELSE 0 .. i-1
    BY <1>1, <1>2 DEF FeedbackIsOneInferenceOld
  <2>3. CASE i = n + 1
    <3>1. i - 1 = n /\ (i = 1 <=> n = 0) /\ cmds'[i] = c
      BY <1>2, <2>3
    <3> HIDE DEF c, n
    <3> QED
      BY <1>4, <2>1, <2>2, <3>1
  <2>4. CASE i \in 1 .. n
    <3>1. cmds'[i] = cmds[i] /\ (i # 1 => cmds'[i-1] = cmds[i-1])
      BY <1>2, <2>4
    <3> QED
      BY <1>2, <2>4, <3>1
         DEF PlaybackInv, CommandsInv, FeedbackIsOneInferenceOld
  <2> QED
    BY <1>2, <2>3, <2>4
<1>13. ResidualTracksItsFrame'
  <2>1. c.base = IF cfg.residual /\ HasMotion THEN c.step ELSE None
    BY <1>3, <1>7 DEF PdBase
  <2> QED
    BY <1>1, <1>2, <2>1 DEF PlaybackInv, CommandsInv, ResidualTracksItsFrame
<1>14. ClipBoundsCommands'
  BY <1>1, <1>2, <1>3 DEF PlaybackInv, StateInv, Playing, ClipBoundsCommands
<1>15. AnchorsAligned'
  <2>1. c.obs.anchor = IF HasMotion /\ cfg.bodies THEN cfg.start ELSE None
    BY <1>4, <1>5, <1>6 DEF Observation
  <2> QED
    BY <1>1, <1>2, <2>1 DEF PlaybackInv, CommandsInv, AnchorsAligned
<1>16. FaultsBeforeMotion'
  BY <1>1 DEF FaultsBeforeMotion
<1> QED
  BY <1>1, <1>9, <1>10, <1>11, <1>12, <1>13, <1>14, <1>15, <1>16
     DEF PlaybackInv, StateInv, CommandsInv

(* The playback invariant holds in every reachable state.                  *)
THEOREM PlaybackInvariant == Spec => []PlaybackInv
<1>1. Init => PlaybackInv
  BY EmptySeq DEF Init, PlaybackInv, StateInv, CommandsInv, Unprimed, Playing,
     FramesInOrder, FeedbackIsOneInferenceOld, ResidualTracksItsFrame,
     ClipBoundsCommands, AnchorsAligned, FaultsBeforeMotion
<1>2. TypeOK /\ PlaybackInv /\ [Next]_vars => PlaybackInv'
  <2> SUFFICES ASSUME TypeOK, PlaybackInv, [Next]_vars
               PROVE  PlaybackInv'
    OBVIOUS
  <2> USE DEF envVars, subVars
  <2>1. CASE Construct
    BY <2>1 DEF Construct, TimerCreation, convVars, PlaybackInv, StateInv,
       CommandsInv, Primed, Unprimed, Playing, FramesInOrder, HasMotion,
       FeedbackIsOneInferenceOld, ResidualTracksItsFrame, ClipBoundsCommands,
       AnchorsAligned, FaultsBeforeMotion
  <2>2. CASE Interrupt
    BY <2>2, QuietStep DEF Interrupt
  <2>3. ASSUME NEW t \in Topics, Publish(t)
        PROVE  PlaybackInv'
    BY <2>3, QuietStep DEF Publish
  <2>4. CASE TimerExpires
    BY <2>4, QuietStep DEF TimerExpires
  <2>5. CASE WaitForWork
    BY <2>5, QuietStep DEF WaitForWork
  <2>6. ASSUME NEW t \in Topics, SensorCallback(t)
        PROVE  PlaybackInv'
    BY <2>6, QuietStep DEF SensorCallback
  <2>7. CASE TickWaiting
    BY <2>7, QuietStep DEF TickWaiting
  <2>8. CASE TickInitialize
    BY <2>8, InitializeStep
  <2>9. CASE TickDone
    BY <2>9, QuietStep DEF TickDone
  <2>10. CASE TickControl
    BY <2>10, ControlStepPreserves
  <2>11. CASE TickFaults
    <3>1. Len(cmds) \in Nat /\ (cmds = <<>> \/ Len(cmds) > 0)
      BY EmptySeq, LenProperties DEF TypeOK
    <3>2. initialized => cmds = <<>>
      BY <2>11, <3>1, NoneAssumption
         DEF TickFaults, ObservationFaults, PlaybackInv, StateInv, Primed,
             Unobservable
    <3>3. ~initialized => cmds = <<>>
      BY DEF PlaybackInv, StateInv, Unprimed
    <3> QED
      BY <2>11, <3>2, <3>3, QuietStep DEF TickFaults
  <2>12. CASE TickThrows
    BY <2>12, QuietStep DEF TickThrows
  <2>13. CASE UNCHANGED vars
    BY <2>13, QuietStep DEF vars
  <2> QED
    BY <2>1, <2>2, <2>3, <2>4, <2>5, <2>6, <2>7, <2>8, <2>9, <2>10, <2>11,
       <2>12, <2>13 DEF Next, TimerCallback
<1> QED
  BY <1>1, <1>2, TypeCorrect, PTL DEF Spec

-------------------------------------------------------------------------------
(* The safety properties of the playback, one theorem each.                *)

(* The commands are the frames from start_timestep on, one by one.         *)
THEOREM FramesAreInOrder == Spec => []FramesInOrder
<1>1. PlaybackInv => FramesInOrder
  BY DEF PlaybackInv, CommandsInv
<1> QED
  BY <1>1, PlaybackInvariant, PTL

(* Each observation is fed by the inference just before, no other.         *)
THEOREM FeedbackIsFresh == Spec => []FeedbackIsOneInferenceOld
<1>1. PlaybackInv => FeedbackIsOneInferenceOld
  BY DEF PlaybackInv, CommandsInv
<1> QED
  BY <1>1, PlaybackInvariant, PTL

(* Each residual action is added to the frame it was inferred for.         *)
THEOREM ResidualIsTracked == Spec => []ResidualTracksItsFrame
<1>1. PlaybackInv => ResidualTracksItsFrame
  BY DEF PlaybackInv, CommandsInv
<1> QED
  BY <1>1, PlaybackInvariant, PTL

(* A clip of n frames costs at most n commands, or one.                    *)
THEOREM ClipIsBound == Spec => []ClipBoundsCommands
<1>1. PlaybackInv => ClipBoundsCommands
  BY DEF PlaybackInv, CommandsInv
<1> QED
  BY <1>1, PlaybackInvariant, PTL

(* Missing model outputs stop the node before the robot is commanded.      *)
THEOREM FaultsComeFirst == Spec => []FaultsBeforeMotion
<1>1. PlaybackInv => FaultsBeforeMotion
  BY DEF PlaybackInv
<1> QED
  BY <1>1, PlaybackInvariant, PTL

(* Every observed anchor is aligned to the start frame of the clip.        *)
THEOREM AnchorsAreAligned == Spec => []AnchorsAligned
<1>1. PlaybackInv => AnchorsAligned
  BY DEF PlaybackInv, CommandsInv
<1> QED
  BY <1>1, PlaybackInvariant, PTL

(* No step after the end of the motion commands the robot again.           *)
THEOREM DoneStaysDone == Spec => DoneIsFinal
<1>1. PlaybackInv /\ [Next]_vars =>
        [motionDone => /\ motionDone'
                       /\ UNCHANGED <<cmds, timestep, lastAction, command>>]_vars
  <2> SUFFICES ASSUME PlaybackInv, [Next]_vars, motionDone
               PROVE  \/ motionDone' /\ UNCHANGED <<cmds, timestep, lastAction, command>>
                      \/ UNCHANGED vars
    OBVIOUS
  <2>1. initialized
    BY DEF PlaybackInv, StateInv, Unprimed
  <2> USE <2>1 DEF playVars, convVars
  <2>2. CASE Construct
    BY <2>2 DEF Construct, PlaybackInv, StateInv, Primed
  <2>3. CASE Interrupt
    BY <2>3 DEF Interrupt
  <2>4. CASE \E t \in Topics : Publish(t) \/ SensorCallback(t)
    BY <2>4 DEF Publish, SensorCallback
  <2>5. CASE TimerExpires \/ WaitForWork
    BY <2>5 DEF TimerExpires, WaitForWork
  <2>6. CASE TimerCallback
    BY <2>6 DEF TimerCallback, TickWaiting, TickInitialize, TickDone,
                TickControl, ControlStep, TickFaults, TickThrows
  <2> QED
    BY <2>2, <2>3, <2>4, <2>5, <2>6 DEF Next
<1> QED
  BY <1>1, PlaybackInvariant, PTL DEF Spec, DoneIsFinal

-------------------------------------------------------------------------------
(***************************************************************************)
(* Sensor data.  That the commands rest on ever newer samples follows from *)
(* the order of the samples still waiting: all newer than the one the node *)
(* holds, none newer than the last one published.                          *)
(***************************************************************************)

(* q holds samples after lo, up to hi, in the order they were published.   *)
InOrderBetween(q, lo, hi) ==
  /\ \A i \in 1 .. Len(q) : lo < q[i] /\ q[i] <= hi
  /\ \A i, j \in 1 .. Len(q) : i < j => q[i] < q[j]

QueueInv ==
  \A t \in Topics : /\ latest[t] <= sent[t]
                    /\ received[t] => latest[t] > 0
                    /\ InOrderBetween(queue[t], latest[t], sent[t])

(* No command rests on a sample newer than the one the node holds.         *)
ObservedInv ==
  \A i \in DOMAIN cmds : /\ cmds[i].obs.joint <= latest["joint"]
                         /\ cmds[i].obs.imu <= latest["imu"]

SensorInv == QueueInv /\ ObservedInv /\ SensorsMoveForward

(* Publishing the next sample keeps a queue in order, dropped or not.      *)
LEMMA KeepLastInOrder ==
  ASSUME NEW q \in Seq(Nat), NEW lo \in Nat, NEW hi \in Nat, lo <= hi,
         InOrderBetween(q, lo, hi)
  PROVE  InOrderBetween(KeepLast(Append(q, hi + 1)), lo, hi + 1)
<1> DEFINE a == Append(q, hi + 1)
<1>1. /\ a \in Seq(Nat) /\ Len(q) \in Nat /\ Len(a) = Len(q) + 1
      /\ \A i \in 1 .. Len(q) : a[i] = q[i] /\ a[i] \in Nat
      /\ a[Len(q) + 1] = hi + 1
      /\ Len(<<>>) = 0
  BY AppendProperties, LenProperties, EmptySeq
<1>2. InOrderBetween(a, lo, hi + 1)
  <2>1. ASSUME NEW i \in 1 .. Len(a)
        PROVE  lo < a[i] /\ a[i] <= hi + 1
    <3>1. CASE i \in 1 .. Len(q)
      BY <1>1, <3>1 DEF InOrderBetween
    <3>2. CASE i = Len(q) + 1
      BY <1>1, <3>2
    <3> QED
      BY <1>1, <3>1, <3>2
  <2>2. ASSUME NEW i \in 1 .. Len(a), NEW j \in 1 .. Len(a), i < j
        PROVE  a[i] < a[j]
    <3>1. CASE j \in 1 .. Len(q)
      <4>1. i \in 1 .. Len(q)
        BY <2>2, <3>1
      <4> QED
        BY <1>1, <2>2, <3>1, <4>1 DEF InOrderBetween
    <3>2. CASE j = Len(q) + 1
      <4>1. i \in 1 .. Len(q)
        BY <1>1, <2>2, <3>2
      <4> QED
        BY <1>1, <3>2, <4>1 DEF InOrderBetween
    <3> QED
      BY <1>1, <3>1, <3>2
  <2> QED
    BY <2>1, <2>2 DEF InOrderBetween
<1> HIDE DEF a
<1>3. Len(a) # Len(<<>>)
  BY <1>1
<1>4. a # <<>>
  BY <1>3, Zenon
<1>5. /\ Len(Tail(a)) = Len(a) - 1
      /\ \A i \in 1 .. Len(Tail(a)) : Tail(a)[i] = a[i + 1]
  BY <1>1, <1>4, HeadTailProperties
<1>6. InOrderBetween(Tail(a), lo, hi + 1)
  BY <1>1, <1>2, <1>5 DEF InOrderBetween
<1> QED
  BY <1>2, <1>6 DEF KeepLast, a

(* Taking the oldest sample leaves only newer ones.                        *)
LEMMA TakeInOrder ==
  ASSUME NEW q \in Seq(Nat), q # <<>>, NEW lo \in Nat, NEW hi \in Nat,
         InOrderBetween(q, lo, hi)
  PROVE  /\ lo < Head(q) /\ Head(q) <= hi
         /\ InOrderBetween(Tail(q), Head(q), hi)
<1>1. /\ Len(q) \in Nat \ {0}
      /\ \A i \in 1 .. Len(q) : q[i] \in Nat
      /\ Len(Tail(q)) = Len(q) - 1
      /\ \A i \in 1 .. Len(Tail(q)) : Tail(q)[i] = q[i + 1]
  BY HeadTailProperties, EmptySeq, LenProperties
<1>2. Head(q) = q[1]
  OBVIOUS
<1> QED
  BY <1>1, <1>2 DEF InOrderBetween

(* Commands rest on received samples only, and never go back in time.      *)
THEOREM SensorsAreMonotone == Spec => []SensorsMoveForward
<1>1. Init => SensorInv
  BY EmptySeq DEF Init, SensorInv, QueueInv, ObservedInv, SensorsMoveForward,
                  InOrderBetween
<1>2. TypeInv /\ SensorInv /\ [Next]_vars => SensorInv'
  <2> SUFFICES ASSUME TypeInv, SensorInv, [Next]_vars
               PROVE  SensorInv'
    OBVIOUS
  <2> USE DEF envVars, subVars
  <2>1. ASSUME UNCHANGED <<sent, queue, latest, received, cmds>>
        PROVE  SensorInv'
    BY <2>1 DEF SensorInv, QueueInv, ObservedInv, SensorsMoveForward
  <2>2. ASSUME NEW t \in Topics, Publish(t)
        PROVE  SensorInv'
    <3>1. /\ queue[t] \in Seq(Nat) /\ latest[t] \in Nat /\ sent[t] \in Nat
          /\ latest[t] <= sent[t]
          /\ InOrderBetween(queue[t], latest[t], sent[t])
      BY DEF TypeInv, TypeOK, SensorInv, QueueInv
    <3>2. InOrderBetween(KeepLast(Append(queue[t], sent[t] + 1)), latest[t], sent[t] + 1)
      BY <3>1, KeepLastInOrder
    <3>3. /\ sent' = [sent EXCEPT ![t] = sent[t] + 1]
          /\ queue' = [queue EXCEPT ![t] = KeepLast(Append(queue[t], sent[t] + 1))]
          /\ UNCHANGED <<latest, received, cmds>>
      BY <2>2 DEF Publish
    <3>4. QueueInv'
      BY <3>1, <3>2, <3>3 DEF TypeInv, TypeOK, SensorInv, QueueInv
    <3> QED
      BY <3>3, <3>4 DEF SensorInv, ObservedInv, SensorsMoveForward
  <2>3. ASSUME NEW t \in Topics, SensorCallback(t)
        PROVE  SensorInv'
    <3>1. /\ queue[t] \in Seq(Nat) /\ queue[t] # <<>>
          /\ latest[t] \in Nat /\ sent[t] \in Nat
          /\ InOrderBetween(queue[t], latest[t], sent[t])
      BY <2>3 DEF TypeInv, TypeOK, ReadyIsQueued, SensorInv, QueueInv,
                  SensorCallback, Dispatch
    <3>2. /\ latest[t] < Head(queue[t]) /\ Head(queue[t]) <= sent[t]
          /\ InOrderBetween(Tail(queue[t]), Head(queue[t]), sent[t])
          /\ Head(queue[t]) \in Nat
      BY <3>1, TakeInOrder, HeadTailProperties
    <3>3. /\ latest' = [latest EXCEPT ![t] = Head(queue[t])]
          /\ received' = [received EXCEPT ![t] = TRUE]
          /\ queue' = [queue EXCEPT ![t] = Tail(queue[t])]
          /\ UNCHANGED <<sent, cmds>>
      BY <2>3 DEF SensorCallback
    <3>4. QueueInv'
      BY <3>1, <3>2, <3>3 DEF TypeInv, TypeOK, SensorInv, QueueInv
    <3>5. \A u \in Topics : latest[u] \in Nat /\ latest'[u] \in Nat
                           /\ latest[u] <= latest'[u]
      BY <3>1, <3>2, <3>3 DEF TypeInv, TypeOK
    <3>6. \A i \in DOMAIN cmds : cmds[i].obs.joint \in Nat /\ cmds[i].obs.imu \in Nat
      <4>1. \A i \in DOMAIN cmds : cmds[i] \in CommandType
        BY LenProperties DEF TypeInv, TypeOK
      <4> QED
        BY <4>1 DEF CommandType, ObservationType
    <3>7. ObservedInv'
      BY <3>3, <3>5, <3>6 DEF SensorInv, ObservedInv, Topics
    <3> QED
      BY <3>3, <3>4, <3>7 DEF SensorInv, SensorsMoveForward
  <2>4. CASE TickControl
    <3> DEFINE n == Len(cmds)
               c == [step |-> timestep, obs |-> Observation, base |-> PdBase]
    <3>1. cmds' = Append(cmds, c) /\ SensorsReceived
          /\ UNCHANGED <<sent, queue, latest, received>>
      BY <2>4 DEF TickControl, ControlStep
    <3>2. /\ n \in Nat /\ DOMAIN cmds = 1 .. n /\ DOMAIN cmds' = 1 .. n + 1
          /\ \A i \in 1 .. n : cmds'[i] = cmds[i]
          /\ cmds'[n + 1] = c
      <4>1. cmds \in Seq({cmds[i] : i \in DOMAIN cmds} \cup {c})
        BY LenProperties DEF TypeInv, TypeOK
      <4> QED
        BY <4>1, <3>1, AppendProperties, LenProperties
    <3>3. c.obs.joint = latest["joint"] /\ c.obs.imu = latest["imu"]
      BY DEF Observation
    <3>4. /\ latest["joint"] \in Nat /\ latest["imu"] \in Nat
          /\ latest["joint"] > 0 /\ latest["imu"] > 0
      BY <3>1 DEF SensorsReceived, TypeInv, TypeOK, SensorInv, QueueInv, Topics
    <3> HIDE DEF n, c
    <3>5. QueueInv'
      BY <3>1 DEF SensorInv, QueueInv
    <3>6. ObservedInv'
      BY <3>1, <3>2, <3>3, <3>4 DEF SensorInv, ObservedInv
    <3>7. SensorsMoveForward'
      <4> SUFFICES ASSUME NEW i \in 1 .. n + 1
                   PROVE  /\ cmds'[i].obs.joint > 0 /\ cmds'[i].obs.imu > 0
                          /\ \A j \in 1 .. i :
                               /\ cmds'[j].obs.joint <= cmds'[i].obs.joint
                               /\ cmds'[j].obs.imu <= cmds'[i].obs.imu
        BY <3>2 DEF SensorsMoveForward
      <4>1. CASE i = n + 1
        <5>1. \A j \in 1 .. i : j \in 1 .. n + 1
          BY <4>1
        <5> QED
          BY <3>1, <3>2, <3>3, <3>4, <3>6, <4>1, <5>1 DEF ObservedInv
      <4>2. CASE i \in 1 .. n
        <5>1. /\ i \in DOMAIN cmds /\ cmds'[i] = cmds[i]
              /\ \A j \in 1 .. i : cmds'[j] = cmds[j]
          BY <3>2, <4>2
        <5> QED
          BY <5>1 DEF SensorInv, SensorsMoveForward
      <4> QED
        BY <3>2, <4>1, <4>2
    <3> QED
      BY <3>5, <3>6, <3>7 DEF SensorInv
  <2>5. CASE Construct \/ Interrupt \/ TimerExpires \/ WaitForWork
    BY <2>1, <2>5 DEF Construct, Interrupt, TimerExpires, WaitForWork
  <2>6. CASE TickWaiting \/ TickInitialize \/ TickDone
    BY <2>1, <2>6 DEF TickWaiting, TickInitialize, TickDone
  <2>7. CASE TickFaults \/ TickThrows
    BY <2>1, <2>7 DEF TickFaults, TickThrows
  <2>8. CASE UNCHANGED vars
    BY <2>1, <2>8 DEF vars
  <2> QED
    BY <2>2, <2>3, <2>4, <2>5, <2>6, <2>7, <2>8 DEF Next, TimerCallback
<1>3. SensorInv => SensorsMoveForward
  BY DEF SensorInv
<1> QED
  BY <1>1, <1>2, <1>3, TypeInvariant, PTL DEF Spec

-------------------------------------------------------------------------------
(***************************************************************************)
(* Refinement.  Initialisation maps to Prime, a control step to PlayFrame, *)
(* the end of the process to Stop, and every other step to a stutter.      *)
(***************************************************************************)

(* The frames of a sequence of commands are a sequence of their own, which *)
(* grows with it.                                                          *)
LEMMA FramesOfCommands ==
  ASSUME NEW s \in Seq(CommandType), NEW c \in CommandType
  PROVE  LET F(u) == [i \in DOMAIN u |-> u[i].step]
         IN  /\ F(s) \in Seq(Int) /\ Len(F(s)) = Len(s)
             /\ F(Append(s, c)) = Append(F(s), c.step)
<1> DEFINE F(u) == [i \in DOMAIN u |-> u[i].step]
           a == Append(s, c)
<1>1. \A d \in CommandType : d.step \in Int
  BY DEF CommandType
<1>2. /\ Len(s) \in Nat /\ DOMAIN s = 1 .. Len(s)
      /\ \A i \in 1 .. Len(s) : s[i] \in CommandType
  BY LenProperties
<1>3. /\ DOMAIN a = 1 .. Len(s) + 1
      /\ \A i \in 1 .. Len(s) : a[i] = s[i]
      /\ a[Len(s) + 1] = c
  BY AppendProperties, LenProperties
<1>4. F(s) \in [1 .. Len(s) -> Int]
  BY <1>1, <1>2
<1>5. F(s) \in Seq(Int) /\ Len(F(s)) = Len(s)
  BY <1>2, <1>4, SeqDef, LenProperties
<1>6. F(a) \in [1 .. Len(s) + 1 -> Int]
  BY <1>1, <1>2, <1>3
<1>7. F(a) \in Seq(Int) /\ Len(F(a)) = Len(s) + 1
  BY <1>2, <1>6, SeqDef, LenProperties
<1>8. /\ Append(F(s), c.step) \in Seq(Int)
      /\ Len(Append(F(s), c.step)) = Len(s) + 1
      /\ \A i \in 1 .. Len(s) : Append(F(s), c.step)[i] = F(s)[i]
      /\ Append(F(s), c.step)[Len(s) + 1] = c.step
  BY <1>1, <1>5, AppendProperties
<1>9. \A i \in 1 .. Len(s) + 1 : F(a)[i] = Append(F(s), c.step)[i]
  BY <1>2, <1>3, <1>8
<1>10. F(a) = Append(F(s), c.step)
  BY <1>7, <1>8, <1>9, SeqEqual
<1> QED
  BY <1>5, <1>10

(* The node implements the abstract playback.                              *)
THEOREM NodeImplementsPlayback == Spec => ImplementsPlayback
<1> DEFINE frames == [i \in DOMAIN cmds |-> cmds[i].step]
<1>1. Init => Playback!Init
  <2> SUFFICES ASSUME Init PROVE Playback!Init
    OBVIOUS
  <2>1. frames = <<>>
    BY DEF Init
  <2>2. [start |-> cfg.start, max |-> cfg.max] \in [start : Int, max : Int]
    BY ConfigsAssumption DEF Init, Config
  <2> QED
    BY <2>1, <2>2 DEF Init, Playback!Init
<1>2. TypeInv /\ PlaybackInv /\ [Next]_vars => [Playback!Next]_(Playback!vars)
  <2> SUFFICES ASSUME TypeInv, PlaybackInv, [Next]_vars
               PROVE  [Playback!Next]_(Playback!vars)
    OBVIOUS
  <2> USE DEF envVars, subVars, playVars, convVars
  <2>1. ASSUME UNCHANGED <<cfg, proc, initialized, motionDone, cmds>>
        PROVE  UNCHANGED Playback!vars
    BY <2>1 DEF Playback!vars
  <2>2. ASSUME proc \in {"constructing", "spinning"},
               proc' \notin {"constructing", "spinning"},
               UNCHANGED <<cfg, cmds>>
        PROVE  Playback!Stop
    BY <2>2 DEF Playback!Stop
  <2>3. CASE Construct
    <3>1. ~initialized /\ ~motionDone
      BY <2>3 DEF Construct, PlaybackInv, StateInv, Primed, Unprimed
    <3>2. CASE proc' = "spinning"
      BY <2>3, <3>1, <3>2 DEF Construct, Playback!vars
    <3>3. CASE proc' # "spinning"
      BY <2>2, <2>3, <3>3 DEF Construct, TimerCreation, Playback!Next
    <3> QED
      BY <3>2, <3>3
  <2>4. CASE Interrupt
    BY <2>2, <2>4 DEF Interrupt, Playback!Next
  <2>5. CASE \E t \in Topics : Publish(t) \/ SensorCallback(t)
    BY <2>1, <2>5 DEF Publish, SensorCallback
  <2>6. CASE TimerExpires \/ WaitForWork
    BY <2>1, <2>6 DEF TimerExpires, WaitForWork
  <2>7. CASE TickWaiting \/ TickDone
    BY <2>1, <2>7 DEF TickWaiting, TickDone
  <2>8. CASE TickInitialize
    <3>1. ~motionDone
      BY <2>8 DEF TickInitialize, PlaybackInv, StateInv, Unprimed
    <3>2. proc = "spinning" /\ UNCHANGED <<cfg, proc, motionDone, cmds>>
          /\ ~initialized /\ initialized'
      BY <2>8 DEF TickInitialize, DispatchTimer, Dispatch
    <3> QED
      BY <3>1, <3>2 DEF Playback!Next, Playback!Prime
  <2>9. CASE TickControl
    <3> DEFINE c == [step |-> timestep, obs |-> Observation, base |-> PdBase]
    <3>1. /\ proc = "spinning" /\ proc' = "spinning" /\ initialized /\ initialized'
          /\ ~motionDone /\ cmds' = Append(cmds, c) /\ cfg' = cfg
          /\ timestep = cfg.start + Len(cmds) /\ playSpeed = 1
          /\ timestep' = timestep + 1
      BY <2>9 DEF TickControl, ControlStep, DispatchTimer, Dispatch, PlaybackInv,
                  StateInv, Primed, Playing, AdvanceTimestep
    <3>2. c \in CommandType /\ cmds \in Seq(CommandType)
      BY <2>9, ObservationHasType
         DEF TickControl, SetMotionCommand, PdBase, CommandType, TypeInv, TypeOK,
             MotionStamp
    <3>3. frames' = Append(frames, timestep) /\ Len(frames) = Len(cmds)
      BY <3>1, <3>2, FramesOfCommands
    <3>4. motionDone' <=> (cfg.max > 0 /\ cfg.start + (Len(cmds) + 1) >= cfg.max)
      <4>1. /\ Len(cmds) \in Nat /\ cfg.start \in Int /\ cfg.max \in Int
        BY LenProperties DEF TypeInv, TypeOK, Config
      <4>2. timestep' = cfg.start + (Len(cmds) + 1)
        BY <3>1, <4>1
      <4> QED
        BY <2>9, <3>1, <4>2 DEF TickControl, AdvanceTimestep
    <3> QED
      BY <3>1, <3>3, <3>4
         DEF Playback!Next, Playback!PlayFrame, Playback!EndReached
  <2>10. CASE TickFaults \/ TickThrows
    BY <2>2, <2>10 DEF TickFaults, TickThrows, DispatchTimer, Dispatch, Playback!Next
  <2>11. CASE UNCHANGED vars
    BY <2>1, <2>11 DEF vars
  <2> QED
    BY <2>3, <2>4, <2>5, <2>6, <2>7, <2>8, <2>9, <2>10, <2>11
       DEF Next, TimerCallback
<1> QED
  BY <1>1, <1>2, TypeInvariant, PlaybackInvariant, PTL
     DEF Spec, ImplementsPlayback, Playback!Spec

===============================================================================
