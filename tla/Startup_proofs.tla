---------------------------- MODULE Startup_proofs ----------------------------
(***************************************************************************)
(* Theorems about Startup, for every set of sources.                       *)
(***************************************************************************)
EXTENDS Startup, SequenceTheorems, TLAPS

-------------------------------------------------------------------------------
(* Lemmas about sizes.                                                     *)

(* The output of the model has a size, which is zero if there is none.     *)
LEMMA OutputType ==
  ASSUME src \in Source, NEW i \in Nat
  PROVE  Output(i) \in Nat
<1>1. src.outputs \in Seq(Nat)
  BY DEF Source
<1>2. CASE i \in DOMAIN src.outputs
  BY <1>1, <1>2, ElementOfSeq, LenProperties DEF Output
<1>3. CASE i \notin DOMAIN src.outputs
  BY <1>3 DEF Output
<1> QED
  BY <1>2, <1>3

(* A list has a size, whoever gave it.                                     *)
LEMMA GivenType ==
  ASSUME src \in Source, NEW l \in Lists
  PROVE  Given(l) \in Nat /\ Configured(l) \in Nat
<1>1. src.yaml[l] \in Nat \cup {None} /\ src.meta[l] \in Nat
  BY DEF Source
<1>2. FromModel(l) \in Nat
  BY <1>1 DEF FromModel
<1>3. Given(l) \in Nat
  BY <1>1, <1>2 DEF Given
<1>4. "joints" \in Lists
  BY DEF Lists
<1>5. src.yaml["joints"] \in Nat \cup {None} /\ src.meta["joints"] \in Nat
  BY <1>4 DEF Source
<1>6. NumDof \in Nat
  BY <1>5 DEF NumDof, Given, FromModel
<1> QED
  BY <1>3, <1>6 DEF Configured

(* A list that fits the joints in both sources, or that no source gives,   *)
(* is configured with an element for each of them.                         *)
LEMMA ConfiguredFits ==
  ASSUME src \in Source, NEW l \in {"defaults", "scales"},
         Given(l) # 0 => /\ Fits(src.meta[l], NumDof)
                         /\ src.yaml[l] # None => Fits(src.yaml[l], NumDof)
  PROVE  Configured(l) >= NumDof
<1>1. l \in Lists /\ "joints" \in Lists
  BY DEF Lists
<1>2. Given(l) \in Nat /\ NumDof \in Nat
  BY <1>1, GivenType DEF NumDof
<1>3. CASE Given(l) = 0
  BY <1>2, <1>3 DEF Configured
<1>4. CASE Given(l) # 0
  <2>1. Given(l) \in {src.yaml[l], src.meta[l]} /\ (Given(l) = src.yaml[l] => src.yaml[l] # None)
    BY <1>2, <1>4, NoneAssumption DEF Given, FromModel
  <2>2. Given(l) >= NumDof
    BY <1>2, <1>4, <2>1 DEF Fits
  <2> QED
    BY <1>4, <2>2 DEF Configured
<1> QED
  BY <1>3, <1>4

(* The joints and the bodies are as given.                                 *)
LEMMA ConfiguredAsGiven ==
  Configured("joints") = NumDof /\ Configured("bodies") = Given("bodies")
  BY DEF Configured, NumDof

(* No vector that is long enough is short.                                 *)
LEMMA ShortEmpty ==
  ASSUME NEW reads, \A r \in reads : ~(r.has < r.needs)
  PROVE  Short(reads) = {}
  BY DEF Short

(* Only vectors that are read can be short.                                *)
LEMMA ShortVectors ==
  ASSUME NEW reads, NEW S, \A r \in reads : r.vector \in S
  PROVE  Short(reads) \subseteq S
  BY DEF Short

-------------------------------------------------------------------------------
(* Types.                                                                  *)

(* Everything that is read is one of the vectors.                          *)
LEMMA ReadsAreVectors ==
  /\ \A r \in InferReads \cup ActionReads \cup ObservationReads \cup TargetReads :
       r.vector \in Vectors
  /\ \A c : \A r \in AnchorReads(c) : r.vector \in Vectors
<1>1. \A c : \A r \in AnchorReads(c) : r.vector \in Vectors
  BY DEF AnchorReads, Read, Vectors
<1>2. \A r \in InferReads \cup ActionReads \cup TargetReads : r.vector \in Vectors
  BY DEF InferReads, ActionReads, TargetReads, Read, Vectors
<1>3. \A r \in ObservationReads : r.vector \in Vectors
  BY <1>1 DEF ObservationReads, Read, Vectors
<1> QED
  BY <1>1, <1>2, <1>3

CommandType == [pos: Nat, vel: Nat, bodyPos: Nat, bodyQuat: Nat]

(* What a model returns can be commanded.                                  *)
LEMMA ResultType ==
  ASSUME src \in Source
  PROVE  Result \in CommandType /\ Result.pos = Output(2)
  BY OutputType DEF Result, CommandType

(* The length of an observation.                                           *)
LEMMA LengthType ==
  ASSUME TypeOK
  PROVE  N \in Nat /\ ObservationLength \in Nat
<1>1. N \in Nat
  BY DEF TypeOK, N, Lists
<1> QED
  BY <1>1 DEF ObservationLength

(* Types are kept.                                                         *)
LEMMA TypeStep == TypeOK /\ [Next]_vars => TypeOK'
<1> SUFFICES ASSUME TypeOK, [Next]_vars PROVE TypeOK'
  OBVIOUS
<1> USE DEF TypeOK
<1>1. CASE Start
  <2>1. \A l \in Lists : Configured(l) \in Nat
    BY GivenType
  <2> QED
    BY <1>1, <2>1 DEF Start
<1>2. ASSUME NEW reads, NEW next \in {"playing", "threw"}, Reading(reads, next),
             \A r \in reads : r.vector \in Vectors
      PROVE  /\ misread' \subseteq Vectors
             /\ proc' \in {"playing", "threw", "faulted"}
  <2>1. Short(reads) \subseteq Vectors
    BY <1>2, ShortVectors
  <2> QED
    BY <1>2, <2>1 DEF Reading
<1>3. Result \in CommandType
  BY ResultType
<1>4. CASE DryRun
  <2>1. command' \in CommandType
    BY <1>3, <1>4 DEF DryRun, DryRunCommand, SetMotionCommand, CommandType
  <2>2. CASE InferThrows(src.obs)
    <3>1. Reading(InferReads, "threw")
      BY <1>4, <2>2 DEF DryRun
    <3>2. misread' \subseteq Vectors /\ proc' \in {"playing", "threw", "faulted"}
      BY <1>2, <3>1, ReadsAreVectors
    <3> QED
      BY <1>4, <2>1, <3>2 DEF DryRun, CommandType
  <2>3. CASE ~InferThrows(src.obs)
    <3> DEFINE reads == InferReads \cup ActionReads
                     \cup (IF /\ Result.pos > 0 /\ Result.bodyPos > 0
                              /\ sizes["bodies"] > 0
                           THEN AnchorReads(Result) ELSE {})
    <3>1. Reading(reads, "playing")
      BY <1>4, <2>3 DEF DryRun
    <3>2. \A r \in reads : r.vector \in Vectors
      BY ReadsAreVectors
    <3>3. misread' \subseteq Vectors /\ proc' \in {"playing", "threw", "faulted"}
      BY <1>2, <3>1, <3>2
    <3> QED
      BY <1>4, <2>1, <3>3 DEF DryRun, CommandType
  <2> QED
    BY <2>2, <2>3
<1>5. CASE ControlStep
  <2>1. command' \in CommandType
    BY <1>3, <1>5 DEF ControlStep, SetMotionCommand, CommandType
  <2>2. \/ Reading(ObservationReads \cup InferReads, "threw")
        \/ Reading(ObservationReads \cup InferReads \cup ActionReads
                   \cup TargetReads, "playing")
    BY <1>5 DEF ControlStep
  <2>3. misread' \subseteq Vectors /\ proc' \in {"playing", "threw", "faulted"}
    BY <1>2, <2>2, ReadsAreVectors
  <2>4. commanded' \in BOOLEAN
    BY <1>5 DEF ControlStep
  <2> QED
    BY <1>5, <2>1, <2>3, <2>4 DEF ControlStep, CommandType
<1>6. CASE UNCHANGED vars
  BY <1>6 DEF vars
<1> QED
  BY <1>1, <1>4, <1>5, <1>6 DEF Next

(* Every variable has its type, whatever the files hold.                   *)
THEOREM TypeCorrect == Spec => []TypeOK
<1>1. Init => TypeOK
  <2> SUFFICES ASSUME Init PROVE TypeOK
    OBVIOUS
  <2>1. src \in Source
    BY SourcesAssumption DEF Init
  <2>2. sizes \in [Lists -> Nat] /\ command \in CommandType
    BY DEF Init, NoCommand, CommandType
  <2>3. commanded \in BOOLEAN
    BY DEF Init
  <2> QED
    BY <2>1, <2>2, <2>3 DEF Init, TypeOK, CommandType
<1> QED
  BY <1>1, TypeStep, PTL DEF Spec

-------------------------------------------------------------------------------
(* The inductive invariant.                                                *)

(* Until a constructor has succeeded nothing has happened.                 *)
NothingYet ==
  proc \in {"starting", "refused"} => misread = {} /\ commanded = FALSE

(* From then on the sizes are the configured ones.                         *)
SizesInv ==
  proc \notin {"starting", "refused"} => sizes = [l \in Lists |-> Configured(l)]

(* The command is what the dry run left, and stays it.                     *)
Final == IF Result.pos = 0 THEN NoCommand ELSE Result

CommandInv ==
  /\ proc \in {"starting", "refused", "configured"} => command = NoCommand
  /\ proc = "playing" => command = Final

(* All that a control step reads.                                          *)
StepReads ==
  ObservationReads \cup InferReads \cup ActionReads
  \cup (IF src.residual /\ command.pos > 0
        THEN {Read("joint_pos", command.pos, N)}
        ELSE {Read("default_dof_pos", sizes["defaults"], N)})

(* Once a command was published, a whole control step has been survived.   *)
CommandedInv ==
  commanded =>
    /\ proc \in {"playing", "threw", "faulted"}
    /\ ~InferThrows(ObservationLength)
    /\ proc = "playing" => Short(StepReads) \subseteq misread

Inv == NothingYet /\ SizesInv /\ CommandInv /\ CommandedInv

(* The command of a control step is the one of the dry run.                *)
LEMMA StepKeepsCommand ==
  ASSUME TypeOK, Inv, ControlStep
  PROVE  /\ proc = "playing" /\ command' = command
         /\ src' = src /\ sizes' = sizes
         /\ ~InferThrows(ObservationLength) =>
              /\ Reading(StepReads, "playing")
              /\ commanded' = (commanded \/ proc' = "playing")
         /\ InferThrows(ObservationLength) =>
              /\ Reading(ObservationReads \cup InferReads, "threw")
              /\ commanded' = commanded
<1>1. proc = "playing" /\ src' = src /\ sizes' = sizes
  BY DEF ControlStep
<1>2. command = Final
  BY <1>1 DEF Inv, CommandInv
<1>3. command' = command
  BY <1>2 DEF ControlStep, SetMotionCommand, Final
<1>4. CASE InferThrows(ObservationLength)
  BY <1>1, <1>3, <1>4 DEF ControlStep
<1>5. CASE ~InferThrows(ObservationLength)
  <2>1. TargetReads = IF src.residual /\ command.pos > 0
                      THEN {Read("joint_pos", command.pos, N)}
                      ELSE {Read("default_dof_pos", sizes["defaults"], N)}
    BY <1>3 DEF TargetReads
  <2>2. Reading(ObservationReads \cup InferReads \cup ActionReads
                \cup TargetReads, "playing")
    BY <1>5 DEF ControlStep
  <2>3. Reading(StepReads, "playing")
    BY <2>1, <2>2 DEF StepReads
  <2> QED
    BY <1>1, <1>3, <1>5, <2>3 DEF ControlStep
<1> QED
  BY <1>4, <1>5

(* What the sizes alone determine is the same before and after a step that *)
(* leaves them alone.                                                      *)
LEMMA SameSizes ==
  ASSUME src' = src, sizes' = sizes
  PROVE  /\ N' = N /\ ObservationLength' = ObservationLength
         /\ Final' = Final /\ Result' = Result
         /\ \A l \in Lists : Configured(l)' = Configured(l)
         /\ InferThrows(ObservationLength)' = InferThrows(ObservationLength)
         /\ command' = command => StepReads' = StepReads
<1>1. N' = N
  BY DEF N
<1>2. ObservationLength' = ObservationLength
  BY <1>1 DEF ObservationLength
<1>3. Result' = Result /\ Final' = Final
  BY DEF Result, Output, Final
<1>4. \A l \in Lists : Configured(l)' = Configured(l)
  BY DEF Configured, Given, NumDof, FromModel
<1>5. InferThrows(ObservationLength)' = InferThrows(ObservationLength)
  BY <1>2 DEF InferThrows
<1>6. ASSUME command' = command PROVE StepReads' = StepReads
  <2>1. ObservationReads' = ObservationReads
    BY <1>1, <1>6 DEF ObservationReads, Measured, AnchorReads, AnchorIndex
  <2>2. InferReads' = InferReads /\ ActionReads' = ActionReads
    BY <1>1 DEF InferReads, ActionReads, Output
  <2> QED
    BY <1>1, <1>6, <2>1, <2>2 DEF StepReads
<1> QED
  BY <1>1, <1>2, <1>3, <1>4, <1>5, <1>6

(* The invariant is inductive.                                             *)
LEMMA InvStep == TypeOK /\ Inv /\ [Next]_vars => Inv'
<1> SUFFICES ASSUME TypeOK, Inv, [Next]_vars PROVE Inv'
  OBVIOUS
<1>1. CASE Start
  <2>1. /\ proc = "starting" /\ src' = src /\ command' = command
        /\ misread' = misread /\ commanded' = commanded
        /\ proc' \in {"configured", "refused"}
        /\ proc' = "configured" => sizes' = [l \in Lists |-> Configured(l)]
    BY <1>1 DEF Start
  <2>2. \A l \in Lists : Configured(l)' = Configured(l)
    BY <2>1 DEF Configured, Given, NumDof, FromModel
  <2>3. SizesInv'
    BY <2>1, <2>2 DEF SizesInv
  <2>4. misread = {} /\ commanded = FALSE /\ command = NoCommand
    BY <2>1 DEF Inv, NothingYet, CommandInv
  <2>5. NothingYet' /\ CommandInv' /\ CommandedInv'
    BY <2>1, <2>4 DEF NothingYet, CommandInv, CommandedInv
  <2> QED
    BY <2>3, <2>5 DEF Inv
<1>2. CASE DryRun
  <2>1. /\ proc = "configured" /\ src' = src /\ sizes' = sizes
        /\ commanded' = commanded
        /\ proc' \in {"threw", "playing", "faulted"}
    BY <1>2 DEF DryRun, Reading
  <2>2. NothingYet'
    BY <2>1 DEF NothingYet
  <2>3. SizesInv'
    BY <2>1, SameSizes DEF Inv, SizesInv
  <2>4. commanded = FALSE
    BY <2>1 DEF Inv, CommandedInv, TypeOK
  <2>5. CommandedInv'
    BY <2>1, <2>4 DEF CommandedInv
  <2>6. CommandInv'
    <3>1. CASE InferThrows(src.obs)
      <4>1. proc' \in {"threw", "faulted"}
        BY <1>2, <3>1 DEF DryRun, Reading
      <4> QED
        BY <4>1 DEF CommandInv
    <3>2. CASE ~InferThrows(src.obs)
      <4>1. command' = IF Result.pos = 0 THEN command ELSE Result
        BY <1>2, <3>2 DEF DryRun, DryRunCommand, SetMotionCommand
      <4>2. command = NoCommand
        BY <2>1 DEF Inv, CommandInv
      <4>3. command' = Final
        BY <4>1, <4>2 DEF Final
      <4> QED
        BY <2>1, <4>3, SameSizes DEF CommandInv
    <3> QED
      BY <3>1, <3>2
  <2> QED
    BY <2>2, <2>3, <2>5, <2>6 DEF Inv
<1>3. CASE ControlStep
  <2>1. /\ proc = "playing" /\ command' = command /\ src' = src /\ sizes' = sizes
        /\ proc' \in {"playing", "threw", "faulted"}
    BY <1>3, StepKeepsCommand DEF Reading, ControlStep
  <2>2. NothingYet' /\ SizesInv'
    BY <2>1, SameSizes DEF Inv, NothingYet, SizesInv
  <2>3. CommandInv'
    BY <2>1, SameSizes DEF Inv, CommandInv
  <2>4. ASSUME commanded' PROVE ~InferThrows(ObservationLength)
    BY <1>3, <2>4, StepKeepsCommand DEF Inv, CommandedInv
  <2>5. CommandedInv'
    <3> SUFFICES ASSUME commanded'
                 PROVE  /\ ~InferThrows(ObservationLength)'
                        /\ Short(StepReads)' \subseteq misread'
      BY <2>1 DEF CommandedInv
    <3>1. ~InferThrows(ObservationLength)
      BY <2>4
    <3>2. misread' = misread \cup Short(StepReads)
      BY <1>3, <3>1, StepKeepsCommand DEF Reading
    <3>3. Short(StepReads)' = Short(StepReads)
      BY <2>1, SameSizes DEF Short
    <3> QED
      BY <2>1, <3>1, <3>2, <3>3, SameSizes
  <2> QED
    BY <2>2, <2>3, <2>5 DEF Inv
<1>4. CASE UNCHANGED vars
  <2>1. src' = src /\ sizes' = sizes /\ command' = command
    BY <1>4 DEF vars
  <2>2. Short(StepReads)' = Short(StepReads)
    BY <2>1, SameSizes DEF Short
  <2>3. NothingYet' /\ SizesInv' /\ CommandInv'
    BY <1>4, <2>1, SameSizes DEF vars, Inv, NothingYet, SizesInv, CommandInv
  <2>4. CommandedInv'
    BY <1>4, <2>1, <2>2, SameSizes DEF vars, Inv, CommandedInv
  <2> QED
    BY <2>3, <2>4 DEF Inv
<1> QED
  BY <1>1, <1>2, <1>3, <1>4 DEF Next

(* It holds in every reachable state.                                      *)
LEMMA Invariance == Spec => []Inv
<1>1. Init => Inv
  BY DEF Init, Inv, NothingYet, SizesInv, CommandInv, CommandedInv
<1> QED
  BY <1>1, InvStep, TypeCorrect, PTL DEF Spec

(* Misfits of the sources show before the robot moves.                     *)
THEOREM MisfitsShowFirst == Spec => MisfitsShowBeforeMotion
<1>1. TypeOK /\ Inv /\ [Next]_vars =>
        [commanded => /\ UNCHANGED misread
                      /\ misread = {} => UNCHANGED proc]_vars
  <2> SUFFICES ASSUME TypeOK, Inv, [Next]_vars, commanded
               PROVE  \/ misread' = misread /\ (misread = {} => proc' = proc)
                      \/ UNCHANGED vars
    OBVIOUS
  <2>1. proc \in {"playing", "threw", "faulted"}
    BY DEF Inv, CommandedInv
  <2>2. CASE ControlStep
    <3>1. proc = "playing" /\ ~InferThrows(ObservationLength)
      BY <2>2, StepKeepsCommand DEF Inv, CommandedInv
    <3>2. Reading(StepReads, "playing")
      BY <2>2, <3>1, StepKeepsCommand
    <3>3. Short(StepReads) \subseteq misread
      BY <3>1 DEF Inv, CommandedInv
    <3> QED
      BY <3>1, <3>2, <3>3 DEF Reading
  <2>3. ~Start /\ ~DryRun
    BY <2>1 DEF Start, DryRun
  <2> QED
    BY <2>2, <2>3 DEF Next
<1> QED
  BY <1>1, Invariance, TypeCorrect, PTL DEF Spec, MisfitsShowBeforeMotion

-------------------------------------------------------------------------------
(* Sources that agree.                                                     *)

(* The vectors the dry run reads when the model returns a reference.       *)
DryReads ==
  InferReads \cup ActionReads
  \cup (IF /\ Result.pos > 0 /\ Result.bodyPos > 0
           /\ sizes["bodies"] > 0
        THEN AnchorReads(Result) ELSE {})

(* Configured sizes, one by one.                                           *)
LEMMA ConfiguredSizes ==
  ASSUME TypeOK, Inv, proc \notin {"starting", "refused"}
  PROVE  /\ N = NumDof /\ N \in Nat
         /\ sizes["joints"] = N
         /\ sizes["bodies"] = Given("bodies") /\ sizes["bodies"] \in Nat
         /\ sizes["scales"] = Configured("scales") /\ sizes["scales"] \in Nat
         /\ sizes["defaults"] = Configured("defaults") /\ sizes["defaults"] \in Nat
<1>1. {"joints", "bodies", "scales", "defaults"} \subseteq Lists
  BY DEF Lists
<1>2. sizes = [l \in Lists |-> Configured(l)] /\ sizes \in [Lists -> Nat]
  BY DEF Inv, SizesInv, TypeOK
<1>3. \A l \in Lists : sizes[l] = Configured(l) /\ sizes[l] \in Nat
  BY <1>2
<1>4. N = Configured("joints") /\ N \in Nat
  BY <1>1, <1>3 DEF N
<1> QED
  BY <1>1, <1>3, <1>4, ConfiguredAsGiven DEF N

(* Of a model that fits, the anchor's pose is within the vectors.          *)
LEMMA AnchorFits ==
  ASSUME TypeOK, sizes["bodies"] \in Nat \ {0},
         NEW c \in CommandType,
         c.bodyPos >= 3 * sizes["bodies"], c.bodyQuat >= 4 * sizes["bodies"]
  PROVE  \A r \in AnchorReads(c) : ~(r.has < r.needs)
<1>1. AnchorIndex \in Nat /\ AnchorIndex < sizes["bodies"]
  BY DEF AnchorIndex, TypeOK, Source
<1>2. c.bodyPos \in Nat /\ c.bodyQuat \in Nat
  BY DEF CommandType
<1>3. ~(c.bodyPos < 3 * AnchorIndex + 3) /\ ~(c.bodyQuat < 4 * AnchorIndex + 4)
  BY <1>1, <1>2
<1> QED
  BY <1>3 DEF AnchorReads, Read

(* Of sources that fit, nothing is read past its end and nothing throws.   *)
LEMMA FittingReads ==
  ASSUME TypeOK, Inv, SourcesFit, proc \in {"configured", "playing"}
  PROVE  /\ Short(DryReads) = {}
         /\ ~InferThrows(src.obs) /\ ~InferThrows(ObservationLength)
         /\ proc = "playing" => Short(StepReads) = {}
<1>1. /\ N = NumDof /\ N \in Nat
      /\ sizes["joints"] = N
      /\ sizes["bodies"] = Given("bodies") /\ sizes["bodies"] \in Nat
      /\ sizes["scales"] = Configured("scales") /\ sizes["scales"] \in Nat
      /\ sizes["defaults"] = Configured("defaults") /\ sizes["defaults"] \in Nat
  BY ConfiguredSizes
<1>2. src \in Source
  BY DEF TypeOK
<1>3. \A i \in Nat : Output(i) \in Nat
  BY <1>2, OutputType
<1>4. sizes["scales"] >= N /\ sizes["defaults"] >= N
  BY <1>1, <1>2, ConfiguredFits DEF SourcesFit
<1>5. src.obs \in Int /\ src.inputs = 2 /\ src.obs \in 0 .. ObservationLength
  BY <1>2 DEF SourcesFit, Source
<1>6. ~InferThrows(src.obs) /\ ~InferThrows(ObservationLength)
  BY <1>5, LengthType DEF InferThrows, TypeOK
<1>7. \A r \in InferReads \cup ActionReads : ~(r.has < r.needs)
  <2>1. Output(1) >= N /\ Output(1) \in Nat
    BY <1>1, <1>3 DEF SourcesFit
  <2>2. ~(src.inputs < 2) /\ ~(Output(1) < N) /\ ~(sizes["scales"] < N)
    BY <1>1, <1>4, <1>5, <2>1
  <2> QED
    BY <2>2 DEF InferReads, ActionReads, Read
<1>8. ASSUME Result.pos > 0
      PROVE  /\ ~(Result.pos < N) /\ ~(Result.vel < N)
             /\ sizes["bodies"] > 0 =>
                  \A r \in AnchorReads(Result) : ~(r.has < r.needs)
  <2>1. /\ Result.pos = Output(2) /\ Result.vel = Output(3)
        /\ Result.bodyPos = Output(4) /\ Result.bodyQuat = Output(5)
        /\ Result \in CommandType
    BY <1>2, ResultType DEF Result
  <2>2. /\ Output(2) >= N /\ Output(3) >= N
        /\ Output(4) >= 3 * sizes["bodies"] /\ Output(5) >= 4 * sizes["bodies"]
    BY <1>1, <1>8, <2>1 DEF SourcesFit
  <2>3. ~(Result.pos < N) /\ ~(Result.vel < N)
    BY <1>1, <1>3, <2>1, <2>2
  <2>4. ASSUME sizes["bodies"] > 0
        PROVE  \A r \in AnchorReads(Result) : ~(r.has < r.needs)
    BY <1>1, <2>1, <2>2, <2>4, AnchorFits DEF TypeOK
  <2> QED
    BY <2>3, <2>4
<1>9. Short(DryReads) = {}
  <2>1. \A r \in DryReads : ~(r.has < r.needs)
    BY <1>7, <1>8 DEF DryReads
  <2> QED
    BY <2>1, ShortEmpty
<1>10. ASSUME proc = "playing" PROVE Short(StepReads) = {}
  <2>1. command = IF Result.pos = 0 THEN NoCommand ELSE Result
    BY <1>10 DEF Inv, CommandInv, Final
  <2>2. command.pos = 0 \/ (command = Result /\ Result.pos > 0)
    BY <1>2, <1>3, <2>1, ResultType DEF NoCommand
  <2>3. Measured = N
    BY <1>1 DEF Measured, SourcesFit
  <2>4. ~(N < N) /\ ~(sizes["defaults"] < N)
    BY <1>1, <1>4
  <2>5. \A r \in ObservationReads : ~(r.has < r.needs)
    <3>1. CASE command.pos = 0
      BY <2>3, <2>4, <3>1 DEF ObservationReads, Read
    <3>2. CASE command = Result /\ Result.pos > 0
      <4>1. /\ ~(command.pos < N) /\ ~(command.vel < N)
            /\ sizes["bodies"] > 0 =>
                 \A r \in AnchorReads(command) : ~(r.has < r.needs)
        BY <1>8, <3>2
      <4>2. ~(Measured < N) /\ ~(sizes["defaults"] < N)
        BY <2>3, <2>4
      <4> HIDE DEF Measured, N, AnchorReads
      <4> QED
        BY <4>1, <4>2 DEF ObservationReads, Read
    <3> QED
      BY <2>2, <3>1, <3>2
  <2>6. command.pos > 0 => ~(command.pos < N)
    BY <1>8, <2>2
  <2>7. \A r \in IF src.residual /\ command.pos > 0
                 THEN {Read("joint_pos", command.pos, N)}
                 ELSE {Read("default_dof_pos", sizes["defaults"], N)} :
          ~(r.has < r.needs)
    BY <2>4, <2>6 DEF Read
  <2>8. \A r \in StepReads : ~(r.has < r.needs)
    BY <1>7, <2>5, <2>7 DEF StepReads
  <2> QED
    BY <2>8, ShortEmpty
<1> QED
  BY <1>6, <1>9, <1>10

(* Sources that agree are safe: no vector is read past its end, and no     *)
(* exception leaves a callback.                                            *)
THEOREM FittingIsSafe == Spec => []FittingSourcesAreSafe
<1>1. TypeOK /\ Inv /\ FittingSourcesAreSafe /\ [Next]_vars => FittingSourcesAreSafe'
  <2> SUFFICES ASSUME TypeOK, Inv, FittingSourcesAreSafe, [Next]_vars,
                      proc' # "starting", SourcesFit'
               PROVE  misread' = {} /\ proc' \notin {"threw", "faulted"}
    BY DEF FittingSourcesAreSafe
  <2>1. CASE Start
    <3>1. misread' = misread /\ proc = "starting" /\ proc' \in {"configured", "refused"}
      BY <2>1 DEF Start
    <3> QED
      BY <3>1 DEF Inv, NothingYet
  <2>2. ASSUME src' = src, sizes' = sizes PROVE SourcesFit
    <3>1. \A l \in Lists : Given(l)' = Given(l)
      BY <2>2 DEF Given, FromModel
    <3>2. NumDof' = NumDof /\ \A i : Output(i)' = Output(i)
      BY <2>2 DEF NumDof, Output, Given, FromModel
    <3>3. ObservationLength' = ObservationLength
      BY <2>2, SameSizes
    <3>4. Given("bodies")' = Given("bodies")
      BY <2>2 DEF Given, FromModel
    <3> QED
      BY <2>2, <3>2, <3>3, <3>4 DEF SourcesFit
  <2>3. CASE DryRun
    <3>1. proc = "configured" /\ SourcesFit
      BY <2>2, <2>3 DEF DryRun
    <3>2. misread = {}
      BY <3>1 DEF FittingSourcesAreSafe
    <3>3. Reading(DryReads, "playing")
      BY <2>3, <3>1, FittingReads DEF DryRun, DryReads
    <3> QED
      BY <3>1, <3>2, <3>3, FittingReads DEF Reading
  <2>4. CASE ControlStep
    <3>1. proc = "playing" /\ SourcesFit
      BY <2>2, <2>4 DEF ControlStep
    <3>2. misread = {}
      BY <3>1 DEF FittingSourcesAreSafe
    <3>3. Reading(StepReads, "playing")
      BY <2>4, <3>1, FittingReads, StepKeepsCommand
    <3> QED
      BY <3>1, <3>2, <3>3, FittingReads DEF Reading
  <2>5. CASE UNCHANGED vars
    BY <2>2, <2>5 DEF vars, FittingSourcesAreSafe
  <2> QED
    BY <2>1, <2>3, <2>4, <2>5 DEF Next
<1>2. Init => FittingSourcesAreSafe
  BY DEF Init, FittingSourcesAreSafe
<1> QED
  BY <1>1, <1>2, Invariance, TypeCorrect, PTL DEF Spec

-------------------------------------------------------------------------------
(* The fallbacks.                                                          *)

(* A fallback has as many elements as there are joints.                    *)
LEMMA FallbackReads ==
  ASSUME TypeOK, Inv, proc \notin {"starting", "refused"}
  PROVE  /\ Given("defaults") = 0 =>
              "default_dof_pos" \notin Short(DryReads \cup StepReads)
         /\ Given("scales") = 0 =>
              "action_scales" \notin Short(DryReads \cup StepReads)
<1>1. /\ N = NumDof /\ N \in Nat
      /\ sizes["scales"] = Configured("scales")
      /\ sizes["defaults"] = Configured("defaults")
  BY ConfiguredSizes
<1>2. ~(N < N)
  BY <1>1
<1>3. \A c : \A r \in AnchorReads(c) : r.vector \notin {"default_dof_pos", "action_scales"}
  BY DEF AnchorReads, Read
<1>4. \A r \in DryReads \cup StepReads :
        /\ r.vector = "default_dof_pos" => r.has = sizes["defaults"] /\ r.needs = N
        /\ r.vector = "action_scales" => r.has = sizes["scales"] /\ r.needs = N
  <2>1. \A r \in InferReads \cup ActionReads :
          /\ r.vector # "default_dof_pos"
          /\ r.vector = "action_scales" => r.has = sizes["scales"] /\ r.needs = N
    BY DEF InferReads, ActionReads, Read
  <2>2. \A r \in ObservationReads :
          /\ r.vector # "action_scales"
          /\ r.vector = "default_dof_pos" => r.has = sizes["defaults"] /\ r.needs = N
    BY <1>3 DEF ObservationReads, Read
  <2>3. \A r \in DryReads :
          /\ r.vector # "default_dof_pos"
          /\ r.vector = "action_scales" => r.has = sizes["scales"] /\ r.needs = N
    BY <1>3, <2>1 DEF DryReads
  <2> QED
    BY <2>1, <2>2, <2>3 DEF StepReads, Read
<1>5. ASSUME Given("defaults") = 0 PROVE sizes["defaults"] = N
  BY <1>1, <1>5 DEF Configured
<1>6. ASSUME Given("scales") = 0 PROVE sizes["scales"] = N
  BY <1>1, <1>6 DEF Configured
<1> QED
  BY <1>2, <1>4, <1>5, <1>6 DEF Short

(* A list that no source gives, or gives empty, is never too short,        *)
(* whichever source gave the number of joints.                             *)
THEOREM FallbacksAlwaysFit == Spec => []FallbacksFit
<1>1. TypeOK /\ Inv /\ FallbacksFit /\ [Next]_vars => FallbacksFit'
  <2> SUFFICES ASSUME TypeOK, Inv, FallbacksFit, [Next]_vars PROVE FallbacksFit'
    OBVIOUS
  <2>1. CASE Start
    <3>1. misread' = {}
      BY <2>1 DEF Start, Inv, NothingYet
    <3> QED
      BY <3>1 DEF FallbacksFit
  <2>2. ASSUME src' = src
        PROVE  /\ Given("defaults")' = Given("defaults")
               /\ Given("scales")' = Given("scales")
    BY <2>2 DEF Given, FromModel
  <2>3. ASSUME src' = src, proc \notin {"starting", "refused"},
               misread' \subseteq misread \cup Short(DryReads \cup StepReads)
        PROVE  FallbacksFit'
    BY <2>2, <2>3, FallbackReads DEF FallbacksFit
  <2>4. CASE DryRun
    <3>1. src' = src /\ proc = "configured"
      BY <2>4 DEF DryRun
    <3>2. Reading(InferReads, "threw") \/ Reading(DryReads, "playing")
      BY <2>4 DEF DryRun, DryReads
    <3>3. /\ Short(InferReads) \subseteq Short(DryReads \cup StepReads)
          /\ Short(DryReads) \subseteq Short(DryReads \cup StepReads)
      BY DEF Short, DryReads
    <3> QED
      BY <2>3, <3>1, <3>2, <3>3 DEF Reading
  <2>5. CASE ControlStep
    <3>1. src' = src /\ proc = "playing"
      BY <2>5 DEF ControlStep
    <3>2. Reading(ObservationReads \cup InferReads, "threw") \/ Reading(StepReads, "playing")
      BY <2>5, StepKeepsCommand
    <3>3. /\ Short(ObservationReads \cup InferReads) \subseteq Short(DryReads \cup StepReads)
          /\ Short(StepReads) \subseteq Short(DryReads \cup StepReads)
      BY DEF Short, StepReads
    <3> QED
      BY <2>3, <3>1, <3>2, <3>3 DEF Reading
  <2>6. CASE UNCHANGED vars
    BY <2>2, <2>6 DEF vars, FallbacksFit
  <2> QED
    BY <2>1, <2>4, <2>5, <2>6 DEF Next
<1>2. Init => FallbacksFit
  BY DEF Init, FallbacksFit
<1> QED
  BY <1>1, <1>2, Invariance, TypeCorrect, PTL DEF Spec

===============================================================================
