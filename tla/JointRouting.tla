----------------------------- MODULE JointRouting -----------------------------
(***************************************************************************)
(* The way of the joints through DataConverter: from the names and values  *)
(* of a /motion/joint_state message to the slots of the model's            *)
(* observation, and from the slots of the model's action to the names and  *)
(* targets of a /motion/joint_cmd message.                                 *)
(*                                                                         *)
(* A measured value is its index in the message, a target is the index of  *)
(* the model's joint it was computed for, and zero is 0.0.  Every vector   *)
(* the model returns is taken to have one element per joint of the model.  *)
(***************************************************************************)
EXTENDS DoFAdapter, Functions

CONSTANTS
  Configs,   \* the configurations the converter may be given
  Messages   \* the joint_state messages hl_motion may publish

(* joint_names, robot_joint_names and joint_name_map of BeyondMimicConfig; *)
(* a name map is finite, so it has a last wire name.                       *)
IsConfig(c) ==
  /\ c.model \in Seq(Name) /\ c.robot \in Seq(Name)
  /\ c.map \in [DOMAIN c.map -> Name]
  /\ DOMAIN c.map \subseteq Name
  /\ DOMAIN c.map # {} => \E last \in DOMAIN c.map : \A w \in DOMAIN c.map : w <= last

(* A joint_state may hold fewer positions or velocities than names.        *)
IsMessage(m) == m.names \in Seq(Name) /\ m.positions \in Nat /\ m.velocities \in Nat

ASSUME RoutingAssumption ==
  /\ \A c \in Configs : IsConfig(c)
  /\ \A m \in Messages : IsMessage(m)

VARIABLES
  cfg,          \* _cfg, the part that names joints
  proc,         \* "constructing", "ready" or "faulted"
  robot2model,  \* _robot2model
  model2robot,  \* _model2robot
  wireNames,    \* _model_to_ros2_names
  msg,          \* the joint_state behind the last command, or <<>>
  obs,          \* the joint positions and velocities observed, model order
  cmd           \* the last joint_cmd

confVars == <<robot2model, model2robot, wireNames>>
vars == <<cfg, proc, confVars, msg, obs, cmd>>

-------------------------------------------------------------------------------
NoMap == [n \in {} |-> n]

ControlledNames == IF cfg.robot = <<>> THEN cfg.model ELSE cfg.robot

BugReverseToFirst(map) == [n \in Range(map) |-> Min(DOMAIN map)]

(* The reverse of joint_name_map, filled in the order of the wire names: a *)
(* joint that several wire names are mapped to gets the last of them.      *)
ReverseMap(map) ==
  [n \in Range(map) |-> Max({w \in DOMAIN map : map[w] = n})]

Init ==
  /\ cfg \in Configs
  /\ proc = "constructing"
  /\ robot2model = Unbuilt
  /\ model2robot = Unbuilt
  /\ wireNames = NoMap
  /\ msg = <<>>
  /\ obs = [pos |-> <<>>, vel |-> <<>>]
  /\ cmd = <<>>

(* Without robot_joint_names nothing is built, nor is the name map used.   *)
Configure ==
  /\ proc = "constructing"
  /\ proc' = "ready"
  /\ IF cfg.robot = <<>>
     THEN UNCHANGED confVars
     ELSE /\ robot2model' = Build(ControlledNames, cfg.model, NoMap)
          /\ model2robot' = Build(cfg.model, ControlledNames, NoMap)
          /\ wireNames' = ReverseMap(cfg.map)
  /\ UNCHANGED <<cfg, msg, obs, cmd>>

(* The name a joint of the robot has on hl_motion's topics.                *)
WireName(name) == IF name \in DOMAIN wireNames THEN wireNames[name] ELSE name

(* The value a message with "count" values reports under a name, or zero.  *)
Reported(m, count, name) ==
  LET i == LookUp(m.names, name) IN IF i <= count THEN i ELSE Zero

BugExtractOwnNames(m, count) ==
  [c \in DOMAIN ControlledNames |-> Reported(m, count, ControlledNames[c])]

Extract(m, count) ==
  [c \in DOMAIN ControlledNames |->
     Reported(m, count, WireName(ControlledNames[c]))]

(* buildObservation reads one element per joint of the model.              *)
ObservationFaults == robot2model.len < Len(cfg.model)

(* computePdTarget: the target of every joint, in the robot's order.       *)
PdTarget ==
  LET model == [k \in DOMAIN cfg.model |-> k]
  IN  IF cfg.robot = <<>> THEN model ELSE Fit(model2robot, model)

(* actionToJointCmd; PdTarget has one element per controlled joint.        *)
JointCmd ==
  [i \in DOMAIN PdTarget |->
     [name |-> WireName(ControlledNames[i]), target |-> PdTarget[i]]]

(* A control step of the node with the joint_state it holds.               *)
ControlStep(m) ==
  /\ proc = "ready"
  /\ ~ObservationFaults
  /\ msg' = m
  /\ obs' = [pos |-> Fit(robot2model, Extract(m, m.positions)),
             vel |-> Fit(robot2model, Extract(m, m.velocities))]
  /\ cmd' = JointCmd
  /\ UNCHANGED <<cfg, proc, confVars>>

(* Undefined behaviour: an empty vector is read.                           *)
ControlFaults ==
  /\ proc = "ready"
  /\ ObservationFaults
  /\ proc' = "faulted"
  /\ UNCHANGED <<cfg, confVars, msg, obs, cmd>>

Next ==
  \/ Configure
  \/ \E m \in Messages : ControlStep(m)
  \/ ControlFaults

Spec == Init /\ [][Next]_vars

-------------------------------------------------------------------------------
(* Types.                                                                  *)

AdapterType == [len: Nat, target: Seq(Nat)]

(* Every variable has its type.                                            *)
TypeOK ==
  /\ IsConfig(cfg)
  /\ proc \in {"constructing", "ready", "faulted"}
  /\ robot2model \in AdapterType /\ model2robot \in AdapterType
  /\ wireNames \in [DOMAIN wireNames -> Name]
  /\ msg = <<>> \/ IsMessage(msg)
  /\ obs \in [pos: Seq(Nat), vel: Seq(Nat)]
  /\ cmd \in Seq([name: Name, target: Nat])

-------------------------------------------------------------------------------
(* Safety.                                                                 *)

(* The motor commanded for a joint of the model is the motor that joint is *)
(* observed on: the two reorderings and the two translations of names      *)
(* invert one another, for whatever lists, name map and message, repeated  *)
(* names included (buildObservation against actionToJointCmd).             *)
SameMotor ==
  \A i \in DOMAIN cmd :
    LET k == cmd[i].target
    IN  k # 0 => /\ obs.pos[k] = Reported(msg, msg.positions, cmd[i].name)
                 /\ obs.vel[k] = Reported(msg, msg.velocities, cmd[i].name)

(* No motor is named twice in a joint_cmd, when the robot's list names no  *)
(* joint twice and no wire name is a robot joint's name as well.           *)
MotorsNamedOnce ==
  IsInjective(cfg.robot) /\ Range(cfg.robot) \cap DOMAIN cfg.map = {}
    => \A i, j \in DOMAIN cmd : cmd[i].name = cmd[j].name => i = j

(* When the robot lists every joint of the model, the action of each of    *)
(* them reaches a motor; what is sent to position zero instead is a robot  *)
(* joint the model does not know, or the earlier of two equal names.       *)
ActionsReachMotors ==
  cmd # <<>> =>
    /\ IsInjective(cfg.model) /\ Range(cfg.model) \subseteq Range(cfg.robot)
         => \A k \in DOMAIN cfg.model : \E i \in DOMAIN cmd : cmd[i].target = k
    /\ \A i \in DOMAIN cmd :
         cmd[i].target = 0 <=> \/ cfg.robot[i] \notin Range(cfg.model)
                              \/ \E j \in DOMAIN cmd : j > i /\ cfg.robot[j] = cfg.robot[i]

-------------------------------------------------------------------------------
(* What a comment says and the code does not do.                           *)

(* "If empty, assumes 1:1 with model joint_names": a configuration without *)
(* robot_joint_names would work.                                           *)
EmptyListMeansOneToOne == cfg.robot = <<>> => proc # "faulted"

===============================================================================
