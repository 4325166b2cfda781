-------------------------------- MODULE Startup --------------------------------
(***************************************************************************)
(* The sizes of all vectors, from the sources to the first commands:       *)
(* loadConfig, OnnxInfer, configureFromYaml, the dry run and the control   *)
(* steps.  A list is its number of elements.  Most vectors are indexed up  *)
(* to the number of joints, whatever their own size; reading one past its  *)
(* end is undefined: the process faults, or goes on with garbage.          *)
(*                                                                         *)
(* kp and kd are left out, for they are stored and never read.  Tensors    *)
(* have the rank the code expects, and do not change their shape.          *)
(***************************************************************************)
EXTENDS Integers, Sequences

CONSTANTS
  Sources,   \* the files the node may be started with
  None       \* a key the YAML file does not have

(* Lists both the YAML file and the metadata may give.                     *)
Lists == {"joints", "defaults", "scales", "bodies"}

(***************************************************************************)
(* "loads": both files can be read and every value in them converted.      *)
(* "anchor": the position of anchor_body_name among the names of bodies.   *)
(* "inputs", "obs", "outputs": the number of the model's inputs, the size  *)
(* of the first one (negative if dynamic), and the sizes of its outputs.   *)
(***************************************************************************)
Source == [loads: BOOLEAN, yaml: [Lists -> Nat \cup {None}],
           meta: [Lists -> Nat], robot: Nat, anchor: Nat,
           estimator: BOOLEAN, residual: BOOLEAN,
           inputs: Nat, obs: Int, outputs: Seq(Nat)]

ASSUME SourcesAssumption == Sources \subseteq Source
ASSUME NoneAssumption == None \notin Nat

VARIABLES
  src,        \* the files
  proc,       \* "starting", "configured", "playing", or how it ended
  sizes,      \* of the lists in _cfg
  command,    \* of the vectors in _command
  commanded,  \* a joint_cmd was published
  misread     \* history: the vectors that were read past their end

vars == <<src, proc, sizes, command, commanded, misread>>

NoCommand == [pos |-> 0, vel |-> 0, bodyPos |-> 0, bodyQuat |-> 0]

Init ==
  /\ src \in Sources
  /\ proc = "starting"
  /\ sizes = [l \in Lists |-> 0]
  /\ command = NoCommand
  /\ commanded = FALSE
  /\ misread = {}

-------------------------------------------------------------------------------
(* loadConfig and configureFromYaml.                                       *)

(* The metadata counts only if it names joints.                            *)
FromModel(l) == IF src.meta["joints"] > 0 THEN src.meta[l] ELSE 0

BugYAMLOnly(l) == src.yaml[l]

(* A key of the YAML file overrides; an empty action_scales does not.      *)
Given(l) ==
  IF src.yaml[l] = None \/ (l = "scales" /\ src.yaml[l] = 0)
  THEN FromModel(l) ELSE src.yaml[l]

NumDof == Given("joints")

(* Lists that are empty after that get one element per joint.              *)
Configured(l) ==
  IF l \in {"defaults", "scales"} /\ Given(l) = 0 THEN NumDof ELSE Given(l)

(* The constructor, up to the timer.                                       *)
Start ==
  /\ proc = "starting"
  /\ IF src.loads
     THEN /\ proc' = "configured"
          /\ sizes' = [l \in Lists |-> Configured(l)]
     ELSE proc' = "refused" /\ UNCHANGED sizes
  /\ UNCHANGED <<src, command, commanded, misread>>

-------------------------------------------------------------------------------
(* What is read, with the size it has and the size it is taken to have.    *)

N == sizes["joints"]

Read(vector, has, needs) == [vector |-> vector, has |-> has, needs |-> needs]

Short(reads) == {r.vector : r \in {s \in reads : s.has < s.needs}}

Output(i) == IF i \in DOMAIN src.outputs THEN src.outputs[i] ELSE 0

BugAnchorPastEnd == src.anchor

(* setAnchorBodyIndex: a name not found is the first body.                 *)
AnchorIndex == IF src.anchor < sizes["bodies"] THEN src.anchor ELSE 0

(* bodyPos and bodyQuat of the anchor.                                     *)
AnchorReads(c) ==
  {Read("body_pos_w", c.bodyPos, 3 * AnchorIndex + 3),
   Read("body_quat_w", c.bodyQuat, 4 * AnchorIndex + 4)}

(* infer is given two inputs, and as many names as the model has.          *)
InferReads == {Read("input_names", src.inputs, 2)}

(* ONNX Runtime throws: on a missing input or a wrong name, on a negative  *)
(* dimension, on a buffer shorter than the tensor.  (A longer one is cut   *)
(* off without a word.)                                                    *)
InferThrows(length) == src.inputs # 2 \/ src.obs < 0 \/ length < src.obs

Result == [pos |-> Output(2), vel |-> Output(3),
           bodyPos |-> Output(4), bodyQuat |-> Output(5)]

SetMotionCommand == command' = IF Result.pos = 0 THEN command ELSE Result

(* processAction.                                                          *)
ActionReads == {Read("actions", Output(1), N),
                Read("action_scales", sizes["scales"], N)}

(* The adapters are built only for a list of robot joints.                 *)
Measured == IF sizes["joints"] > 0 /\ src.robot = 0 THEN 0 ELSE N

ObservationReads ==
  {Read("dof_pos_model", Measured, N),
   Read("default_dof_pos", sizes["defaults"], N)}
  \cup (IF command.pos = 0 THEN {}
        ELSE {Read("joint_pos", command.pos, N),
              Read("joint_vel", command.vel, N)}
             \cup (IF sizes["bodies"] > 0 THEN AnchorReads(command) ELSE {}))

(* Reference, anchor, angular velocity, joints, last action; a base linear *)
(* velocity is never part of it.                                           *)
ObservationLength ==
  2 * N + (IF src.estimator THEN 9 ELSE 6) + 3 + 2 * N + N

(* computePdTarget.                                                        *)
TargetReads ==
  IF src.residual /\ command'.pos > 0
  THEN {Read("joint_pos", command'.pos, N)}
  ELSE {Read("default_dof_pos", sizes["defaults"], N)}

(* Undefined behaviour, if any, then "next".                               *)
Reading(reads, next) ==
  /\ misread' = misread \cup Short(reads)
  /\ proc' \in IF Short(reads) = {} THEN {next} ELSE {next, "faulted"}

-------------------------------------------------------------------------------
BugForgetDryRun == UNCHANGED command

DryRunCommand == SetMotionCommand

(* initializeMotion: inference on zeros, of just the model's size.         *)
DryRun ==
  /\ proc = "configured"
  /\ IF InferThrows(src.obs)
     THEN Reading(InferReads, "threw") /\ UNCHANGED command
     ELSE /\ DryRunCommand
          /\ Reading(InferReads \cup ActionReads
                     \cup (IF /\ Result.pos > 0 /\ Result.bodyPos > 0
                              /\ sizes["bodies"] > 0
                           THEN AnchorReads(Result) ELSE {}),
                     "playing")
  /\ UNCHANGED <<src, sizes, commanded>>

(* timerCallback from the observation to the command.                      *)
ControlStep ==
  /\ proc = "playing"
  /\ IF InferThrows(ObservationLength)
     THEN /\ Reading(ObservationReads \cup InferReads, "threw")
          /\ UNCHANGED <<command, commanded>>
     ELSE /\ SetMotionCommand
          /\ Reading(ObservationReads \cup InferReads \cup ActionReads
                     \cup TargetReads, "playing")
          /\ commanded' = (commanded \/ proc' = "playing")
  /\ UNCHANGED <<src, sizes>>

Next == Start \/ DryRun \/ ControlStep

Spec == Init /\ [][Next]_vars

-------------------------------------------------------------------------------
(* Types.                                                                  *)

Vectors == {"input_names", "actions", "action_scales", "default_dof_pos",
            "dof_pos_model", "joint_pos", "joint_vel", "body_pos_w",
            "body_quat_w"}

(* Every variable has its type.                                            *)
TypeOK ==
  /\ src \in Source
  /\ proc \in {"starting", "refused", "configured", "playing", "threw", "faulted"}
  /\ sizes \in [Lists -> Nat]
  /\ command \in [pos: Nat, vel: Nat, bodyPos: Nat, bodyQuat: Nat]
  /\ commanded \in BOOLEAN
  /\ misread \subseteq Vectors

-------------------------------------------------------------------------------
(* Properties.                                                             *)

Fits(n, needed) == n = 0 \/ n >= needed

(* What the sources must agree on.  Each of them has to fit the number of  *)
(* joints that is in force in the end, whichever of the two gave it.       *)
SourcesFit ==
  /\ src.inputs = 2
  /\ src.obs \in 0 .. ObservationLength
  /\ src.robot > 0
  /\ \A l \in {"defaults", "scales"} :
       /\ Fits(src.meta[l], NumDof)
       /\ src.yaml[l] # None => Fits(src.yaml[l], NumDof)
  /\ Output(1) >= NumDof
  /\ Output(2) > 0 => /\ Output(2) >= NumDof /\ Output(3) >= NumDof
                      /\ Output(4) >= 3 * Given("bodies")
                      /\ Output(5) >= 4 * Given("bodies")

(* Sources that agree are safe: no vector is ever read past its end, and   *)
(* no exception leaves a callback, whichever source overrides the other    *)
(* and whether or not the anchor's name is found (configureFromYaml,       *)
(* setAnchorBodyIndex, buildObservation, processAction, computePdTarget).  *)
FittingSourcesAreSafe ==
  proc # "starting" /\ SourcesFit => misread = {} /\ proc \notin {"threw", "faulted"}

(* The fallbacks fit: a list that no source gives, or gives empty, is      *)
(* never too short, also when the YAML file changes the number of joints   *)
(* (the fallbacks of configureFromYaml come after the overrides).          *)
FallbacksFit ==
  /\ Given("defaults") = 0 => "default_dof_pos" \notin misread
  /\ Given("scales") = 0 => "action_scales" \notin misread

(* A misfit shows before the robot moves: from the first command on no     *)
(* other vector is read past its end than before it, and a process that    *)
(* got there without undefined behaviour does not fall over a size later,  *)
(* for the dry run already stores what later steps read.                   *)
MisfitsShowBeforeMotion ==
  [][commanded => /\ UNCHANGED misread
                  /\ misread = {} => UNCHANGED proc]_vars

===============================================================================
