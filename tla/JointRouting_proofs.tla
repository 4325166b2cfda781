-------------------------- MODULE JointRouting_proofs --------------------------
(***************************************************************************)
(* Theorems about DoFAdapter and JointRouting, for every set of            *)
(* configurations and of messages.                                         *)
(***************************************************************************)
EXTENDS JointRouting, SequenceTheorems, WellFoundedInduction, TLAPS

-------------------------------------------------------------------------------
(* Lemmas about the adapter.                                               *)

(* A bounded non-empty set of numbers has a greatest one.                  *)
LEMMA MaxOfBounded ==
  ASSUME NEW n \in Nat, NEW S, S \subseteq 0 .. n, S # {}
  PROVE  Max(S) \in S /\ \A i \in S : i <= Max(S)
<1> DEFINE T == {n - i : i \in S}
<1>1. T \subseteq Nat /\ T # {}
  <2>1. T \subseteq Nat
    OBVIOUS
  <2>2. PICK i \in S : TRUE
    OBVIOUS
  <2>3. n - i \in T
    BY <2>2
  <2> QED
    BY <2>1, <2>3
<1>2. PICK x \in T : \A y \in T : ~(<<y, x>> \in OpToRel(<, Nat))
  BY <1>1, WFMin, NatLessThanWellFounded
<1>3. \A y \in T : ~(y < x)
  BY <1>1, <1>2 DEF OpToRel
<1>4. PICK m \in S : x = n - m
  OBVIOUS
<1>5. \A i \in S : m >= i
  <2> SUFFICES ASSUME NEW i \in S PROVE m >= i
    OBVIOUS
  <2>1. ~(n - i < n - m)
    BY <1>3, <1>4
  <2> QED
    BY <2>1
<1>6. \E z \in S : \A i \in S : z >= i
  BY <1>5
<1>7. Max(S) \in S /\ \A i \in S : Max(S) >= i
  BY <1>6, Zenon DEF Max
<1> QED
  BY <1>7

(* In particular a non-empty set of indices has a last one.                *)
LEMMA MaxOfIndices ==
  ASSUME NEW n \in Nat, NEW S, S \subseteq 1 .. n, S # {}
  PROVE  Max(S) \in S /\ \A i \in S : i <= Max(S)
<1>1. S \subseteq 0 .. n
  OBVIOUS
<1> QED
  BY <1>1, MaxOfBounded

(* LookUp finds the last of the equal names, or 0.                         *)
LEMMA LookUpFindsLast ==
  ASSUME NEW names \in Seq(Name), NEW name
  PROVE  LET i == LookUp(names, name)
         IN  /\ i \in 0 .. Len(names)
             /\ i = 0 <=> \A j \in DOMAIN names : names[j] # name
             /\ i # 0 => /\ i \in DOMAIN names /\ names[i] = name
                         /\ \A j \in DOMAIN names : names[j] = name => j <= i
<1> DEFINE found == {j \in DOMAIN names : names[j] = name}
<1>1. Len(names) \in Nat /\ DOMAIN names = 1 .. Len(names)
  BY LenProperties
<1>2. CASE found = {}
  <2>1. LookUp(names, name) = 0
    BY <1>2 DEF LookUp
  <2> QED
    BY <1>1, <1>2, <2>1
<1>3. CASE found # {}
  <2>1. LookUp(names, name) = Max(found)
    BY <1>3 DEF LookUp
  <2>2. Max(found) \in found /\ \A j \in found : j <= Max(found)
    BY <1>1, <1>3, MaxOfIndices
  <2> QED
    BY <1>1, <1>3, <2>1, <2>2
<1> QED
  BY <1>2, <1>3

(* Without a name map an adapter sends a joint to the last equal name.     *)
LEMMA BuildByName ==
  ASSUME NEW src \in Seq(Name), NEW tar \in Seq(Name)
  PROVE  /\ Build(src, tar, NoMap).len = Len(tar)
         /\ DOMAIN Build(src, tar, NoMap).target = 1 .. Len(src)
         /\ \A i \in 1 .. Len(src) :
              Build(src, tar, NoMap).target[i] = LookUp(tar, src[i])
<1>1. DOMAIN src = 1 .. Len(src)
  BY LenProperties
<1>2. \A name : TargetIndex(name, tar, NoMap) = LookUp(tar, name)
  BY DEF TargetIndex, NoMap
<1> QED
  BY <1>1, <1>2 DEF Build

(* The joints of src whose name is, in tar, the name of slot j.            *)
Namesakes(src, tar, j) == {i \in 1 .. Len(src) : LookUp(tar, src[i]) = j}

(* A slot of the fitted vector is zero, or holds what its last writer      *)
(* wrote.                                                                  *)
LEMMA FitByName ==
  ASSUME NEW src \in Seq(Name), NEW tar \in Seq(Name), NEW data,
         Len(data) = Len(src), NEW j \in 1 .. Len(tar)
  PROVE  Fit(Build(src, tar, NoMap), data)[j] =
           IF Namesakes(src, tar, j) = {} THEN Zero
           ELSE data[Max(Namesakes(src, tar, j))]
<1> DEFINE a == Build(src, tar, NoMap)
<1>1. Len(src) \in Nat /\ Len(tar) \in Nat
  BY LenProperties
<1>2. Writers(a, data, j) = Namesakes(src, tar, j)
  BY <1>1, BuildByName DEF Writers, Namesakes
<1>3. j \in 1 .. a.len
  BY BuildByName
<1> QED
  BY <1>2, <1>3 DEF Fit

(* Two adapters built by name, one for each direction, invert one another: *)
(* a joint whose target slot i comes from k is observed in slot k from i.  *)
LEMMA AdaptersInvert ==
  ASSUME NEW model \in Seq(Name), NEW robot \in Seq(Name),
         NEW targets, Len(targets) = Len(model),
         \A k \in 1 .. Len(model) : targets[k] = k,
         NEW data, Len(data) = Len(robot),
         NEW i \in 1 .. Len(robot),
         Fit(Build(model, robot, NoMap), targets)[i] # 0
  PROVE  LET k == Fit(Build(model, robot, NoMap), targets)[i]
         IN  /\ k \in 1 .. Len(model)
             /\ Fit(Build(robot, model, NoMap), data)[k] = data[i]
<1> DEFINE k == Fit(Build(model, robot, NoMap), targets)[i]
           w == Namesakes(model, robot, i)
           v == Namesakes(robot, model, k)
<1>1. /\ Len(model) \in Nat /\ DOMAIN model = 1 .. Len(model)
      /\ Len(robot) \in Nat /\ DOMAIN robot = 1 .. Len(robot)
  BY LenProperties
<1>2. k = IF w = {} THEN Zero ELSE targets[Max(w)]
  BY FitByName
<1>3. w # {}
  BY <1>2 DEF Zero
<1>4. Max(w) \in w /\ \A m \in w : m <= Max(w)
  BY <1>1, <1>3, MaxOfIndices DEF Namesakes
<1>5. k = Max(w)
  BY <1>2, <1>3, <1>4 DEF Namesakes
<1>6. k \in 1 .. Len(model) /\ LookUp(robot, model[k]) = i
  BY <1>4, <1>5 DEF Namesakes
<1>7. robot[i] = model[k] /\ \A c \in DOMAIN robot : robot[c] = model[k] => c <= i
  BY <1>1, <1>6, LookUpFindsLast
<1>8. LookUp(model, model[k]) = k
  <2> DEFINE l == LookUp(model, model[k])
  <2>1. l # 0 /\ l \in DOMAIN model /\ model[l] = model[k] /\ k <= l
    BY <1>1, <1>6, LookUpFindsLast
  <2>2. l \in w
    BY <1>1, <1>6, <2>1 DEF Namesakes
  <2>3. l <= k
    BY <1>4, <1>5, <2>2
  <2> QED
    BY <1>1, <1>6, <2>1, <2>3
<1>9. i \in v
  BY <1>7, <1>8 DEF Namesakes
<1>10. \A c \in v : c <= i
  <2> SUFFICES ASSUME NEW c \in v PROVE c <= i
    OBVIOUS
  <2>1. c \in DOMAIN robot /\ robot[c] = model[k]
    BY <1>1, <1>6, LookUpFindsLast DEF Namesakes
  <2> QED
    BY <1>1, <1>7, <2>1
<1>11. Max(v) = i
  <2>1. Max(v) \in v /\ \A c \in v : c <= Max(v)
    BY <1>1, <1>9, MaxOfIndices DEF Namesakes
  <2> QED
    BY <1>1, <1>9, <1>10, <2>1 DEF Namesakes
<1>12. Fit(Build(robot, model, NoMap), data)[k] = data[i]
  <2>1. Fit(Build(robot, model, NoMap), data)[k] =
          IF v = {} THEN Zero ELSE data[Max(v)]
    <3> HIDE DEF k
    <3> QED
      BY <1>6, FitByName
  <2> QED
    BY <1>9, <1>11, <2>1
<1> QED
  BY <1>6, <1>12

(* A function on 1 .. n is a sequence of length n.                         *)
LEMMA LenOfFunction ==
  ASSUME NEW n \in Nat, NEW f, NEW S, f \in [1 .. n -> S]
  PROVE  Len(f) = n
<1>1. f \in Seq(S)
  BY SeqDef
<1>2. DOMAIN f = 1 .. n /\ DOMAIN f = 1 .. Len(f) /\ Len(f) \in Nat
  BY <1>1, LenProperties
<1> QED
  BY <1>2

-------------------------------------------------------------------------------
(***************************************************************************)
(* The routing invariant: once configured, the adapters are the two built  *)
(* by name, and what was observed and commanded last was computed from     *)
(* them and from the same message.                                         *)
(***************************************************************************)
Configured ==
  IF cfg.robot = <<>>
  THEN robot2model = Unbuilt /\ model2robot = Unbuilt /\ wireNames = NoMap
  ELSE /\ robot2model = Build(cfg.robot, cfg.model, NoMap)
       /\ model2robot = Build(cfg.model, cfg.robot, NoMap)
       /\ wireNames = ReverseMap(cfg.map)

Commanded ==
  /\ cfg.robot # <<>>
  /\ proc = "ready"
  /\ obs.pos = Fit(robot2model, Extract(msg, msg.positions))
  /\ obs.vel = Fit(robot2model, Extract(msg, msg.velocities))
  /\ cmd = JointCmd

RoutingInv ==
  /\ cfg \in Configs
  /\ proc = "constructing" =>
       robot2model = Unbuilt /\ model2robot = Unbuilt /\ wireNames = NoMap
  /\ proc = "ready" => Configured
  /\ DOMAIN cmd # {} => Configured /\ Commanded

(* The routing invariant holds in every reachable state.                   *)
THEOREM RoutingInvariant == Spec => []RoutingInv
<1>1. Init => RoutingInv
  BY EmptySeq DEF Init, RoutingInv
<1>2. RoutingInv /\ [Next]_vars => RoutingInv'
  <2> SUFFICES ASSUME RoutingInv, [Next]_vars
               PROVE  RoutingInv'
    OBVIOUS
  <2>1. CASE Configure
    <3>1. DOMAIN cmd = {}
      BY <2>1 DEF Configure, RoutingInv, Commanded
    <3>2. Configured'
      BY <2>1 DEF Configure, RoutingInv, Configured, ControlledNames, confVars
    <3> QED
      BY <2>1, <3>1, <3>2 DEF Configure, RoutingInv
  <2>2. ASSUME NEW m \in Messages, ControlStep(m)
        PROVE  RoutingInv'
    <3>1. Configured /\ Configured'
      BY <2>2 DEF ControlStep, RoutingInv, Configured, confVars
    <3>2. CASE cfg.robot = <<>>
      <4>1. Len(cfg.model) \in Nat /\ DOMAIN cfg.model = 1 .. Len(cfg.model)
        BY RoutingAssumption, LenProperties DEF RoutingInv, IsConfig
      <4>2. DOMAIN cfg.model = {}
        BY <2>2, <3>1, <3>2, <4>1 DEF ControlStep, ObservationFaults, Configured, Unbuilt
      <4>3. DOMAIN cmd' = {}
        BY <2>2, <3>2, <4>2 DEF ControlStep, JointCmd, PdTarget
      <4> QED
        BY <2>2, <3>1, <4>3 DEF ControlStep, RoutingInv
    <3>3. CASE cfg.robot # <<>>
      <4>1. Commanded'
        BY <2>2, <3>3 DEF ControlStep, Commanded, Extract, JointCmd, PdTarget,
                          ControlledNames, WireName, confVars
      <4> QED
        BY <2>2, <3>1, <4>1 DEF ControlStep, RoutingInv
    <3> QED
      BY <3>2, <3>3
  <2>3. CASE ControlFaults
    <3>1. DOMAIN cmd = {}
      <4> SUFFICES ASSUME DOMAIN cmd # {} PROVE FALSE
        OBVIOUS
      <4>1. /\ cfg.robot # <<>> /\ robot2model.len = Len(cfg.model)
            /\ Len(cfg.model) \in Nat
        BY RoutingAssumption, BuildByName, LenProperties
           DEF RoutingInv, IsConfig, Configured, Commanded
      <4> QED
        BY <2>3, <4>1 DEF ControlFaults, ObservationFaults
    <3> QED
      BY <2>3, <3>1 DEF ControlFaults, RoutingInv
  <2>4. CASE UNCHANGED vars
    BY <2>4 DEF vars, confVars, RoutingInv, Configured, Commanded, Extract,
                JointCmd, PdTarget, ControlledNames, WireName
  <2> QED
    BY <2>1, <2>2, <2>3, <2>4 DEF Next
<1> QED
  BY <1>1, <1>2, PTL DEF Spec

-------------------------------------------------------------------------------
(* The theorems.                                                           *)

(* The motor commanded for a joint is the motor it is observed on.         *)
THEOREM CommandsGoWhereObserved == Spec => []SameMotor
<1>1. RoutingInv => SameMotor
  <2> SUFFICES ASSUME RoutingInv, NEW i \in DOMAIN cmd, cmd[i].target # 0
               PROVE  /\ obs.pos[cmd[i].target] =
                           Reported(msg, msg.positions, cmd[i].name)
                      /\ obs.vel[cmd[i].target] =
                           Reported(msg, msg.velocities, cmd[i].name)
    BY Zenon DEF SameMotor
  <2> DEFINE model == cfg.model
             robot == cfg.robot
             targets == [k \in DOMAIN model |-> k]
  <2>1. /\ model \in Seq(Name) /\ robot \in Seq(Name)
        /\ Len(model) \in Nat /\ DOMAIN model = 1 .. Len(model)
        /\ Len(robot) \in Nat /\ DOMAIN robot = 1 .. Len(robot)
    BY RoutingAssumption, LenProperties DEF RoutingInv, IsConfig
  <2>2. Configured /\ Commanded
    BY DEF RoutingInv
  <2>3. ControlledNames = robot
    BY <2>2 DEF Commanded, ControlledNames
  <2>4. PdTarget = Fit(Build(model, robot, NoMap), targets)
    BY <2>2 DEF Commanded, Configured, PdTarget
  <2>5. DOMAIN PdTarget = 1 .. Len(robot)
    BY <2>1, <2>4, BuildByName DEF Fit
  <2>6. /\ i \in 1 .. Len(robot)
        /\ cmd[i].target = PdTarget[i]
        /\ cmd[i].name = WireName(robot[i])
    BY <2>2, <2>3, <2>5 DEF Commanded, JointCmd
  <2>7. Len(targets) = Len(model) /\ \A k \in 1 .. Len(model) : targets[k] = k
    <3>1. targets \in [1 .. Len(model) -> Nat]
      BY <2>1
    <3> QED
      BY <2>1, <3>1, LenOfFunction
  <2>8. ASSUME NEW count
        PROVE  Fit(robot2model, Extract(msg, count))[cmd[i].target] =
                 Reported(msg, count, cmd[i].name)
    <3> DEFINE data == Extract(msg, count)
    <3>1. data = [c \in 1 .. Len(robot) |-> Reported(msg, count, WireName(robot[c]))]
      BY <2>1, <2>3 DEF Extract
    <3>2. data \in [1 .. Len(robot) -> {data[c] : c \in 1 .. Len(robot)}]
      BY <3>1
    <3> HIDE DEF data
    <3>3. Len(data) = Len(robot)
      BY <2>1, <3>2, LenOfFunction
    <3> HIDE DEF targets, model, robot
    <3>4. Fit(Build(robot, model, NoMap), data)[cmd[i].target] = data[i]
      BY <2>1, <2>4, <2>6, <2>7, <3>3, AdaptersInvert
    <3>5. robot2model = Build(robot, model, NoMap)
      BY <2>2 DEF Commanded, Configured, robot, model
    <3>6. data[i] = Reported(msg, count, cmd[i].name)
      BY <2>6, <3>1
    <3> QED
      BY <3>4, <3>5, <3>6 DEF data
  <2> QED
    BY <2>2, <2>8 DEF Commanded
<1> QED
  BY <1>1, RoutingInvariant, PTL

(* No motor is named twice in a joint_cmd, when the configuration has no   *)
(* ambiguous names.                                                        *)
THEOREM NamesAreUnique == Spec => []MotorsNamedOnce
<1>1. RoutingInv => MotorsNamedOnce
  <2> SUFFICES ASSUME RoutingInv, IsInjective(cfg.robot),
                      Range(cfg.robot) \cap DOMAIN cfg.map = {},
                      NEW i \in DOMAIN cmd, NEW j \in DOMAIN cmd,
                      cmd[i].name = cmd[j].name
               PROVE  i = j
    BY Zenon DEF MotorsNamedOnce
  <2> DEFINE robot == cfg.robot
             map == cfg.map
  <2>1. /\ cfg.model \in Seq(Name) /\ robot \in Seq(Name)
        /\ Len(robot) \in Nat /\ DOMAIN robot = 1 .. Len(robot)
        /\ DOMAIN map \subseteq Nat
        /\ DOMAIN map # {} => \E last \in DOMAIN map : \A u \in DOMAIN map : u <= last
    BY RoutingAssumption, LenProperties DEF RoutingInv, IsConfig, Name
  <2>2. /\ Configured /\ Commanded
        /\ ControlledNames = robot /\ wireNames = ReverseMap(map)
    BY DEF RoutingInv, Configured, Commanded, ControlledNames
  <2>3. DOMAIN cmd = 1 .. Len(robot)
    BY <2>1, <2>2, BuildByName DEF Commanded, Configured, JointCmd, PdTarget, Fit
  <2>4. \A k \in DOMAIN cmd : cmd[k].name = WireName(robot[k])
    BY <2>2 DEF Commanded, JointCmd
  <2>5. \A name \in Range(map) : /\ ReverseMap(map)[name] \in DOMAIN map
                                 /\ map[ReverseMap(map)[name]] = name
    <3> SUFFICES ASSUME NEW name \in Range(map)
                 PROVE  /\ ReverseMap(map)[name] \in DOMAIN map
                        /\ map[ReverseMap(map)[name]] = name
      OBVIOUS
    <3> DEFINE w == {u \in DOMAIN map : map[u] = name}
    <3>1. PICK n \in Nat : \A u \in DOMAIN map : u <= n
      BY <2>1 DEF Range
    <3>2. w \subseteq 0 .. n /\ w # {}
      BY <2>1, <3>1 DEF Range
    <3>3. Max(w) \in w
      BY <3>2, MaxOfBounded
    <3>4. ReverseMap(map)[name] = Max(w)
      BY DEF ReverseMap
    <3> QED
      BY <3>3, <3>4
  <2>6. robot[i] \in Range(robot) /\ robot[j] \in Range(robot)
    BY <2>1, <2>3 DEF Range
  <2>7. DOMAIN wireNames = Range(map)
    BY <2>2 DEF ReverseMap
  <2>8. robot[i] = robot[j]
    BY <2>2, <2>4, <2>5, <2>6, <2>7 DEF WireName
  <2> QED
    BY <2>1, <2>3, <2>8 DEF IsInjective
<1> QED
  BY <1>1, RoutingInvariant, PTL

-------------------------------------------------------------------------------
(* Types.                                                                  *)

(* A function on 1 .. n is a sequence.                                     *)
LEMMA FunctionIsSeq ==
  ASSUME NEW n \in Nat, NEW S, NEW f, f \in [1 .. n -> S]
  PROVE  f \in Seq(S)
  BY SeqDef

(* Adapters have their type.                                               *)
LEMMA AdaptersTyped ==
  /\ Unbuilt \in AdapterType
  /\ \A src, tar \in Seq(Name) : Build(src, tar, NoMap) \in AdapterType
<1>1. Unbuilt \in AdapterType
  BY EmptySeq DEF Unbuilt, AdapterType
<1>2. ASSUME NEW src \in Seq(Name), NEW tar \in Seq(Name)
      PROVE  Build(src, tar, NoMap) \in AdapterType
  <2> DEFINE b == Build(src, tar, NoMap)
  <2>1. Len(src) \in Nat /\ Len(tar) \in Nat /\ DOMAIN src = 1 .. Len(src)
    BY LenProperties
  <2>2. \A i \in 1 .. Len(src) : src[i] \in Name
    BY ElementOfSeq
  <2>3. \A i \in 1 .. Len(src) : LookUp(tar, src[i]) \in Nat
    BY <2>1, <2>2, LookUpFindsLast
  <2>4. b.target = [i \in 1 .. Len(src) |-> TargetIndex(src[i], tar, NoMap)]
    BY <2>1 DEF Build
  <2>5. \A i \in 1 .. Len(src) : TargetIndex(src[i], tar, NoMap) \in Nat
    BY <2>3 DEF TargetIndex, NoMap
  <2>6. b.target \in [1 .. Len(src) -> Nat]
    BY <2>4, <2>5
  <2>7. b.target \in Seq(Nat)
    BY <2>1, <2>6, FunctionIsSeq
  <2> QED
    BY <2>1, <2>7 DEF Build, AdapterType
<1> QED
  BY <1>1, <1>2

(* What an adapter makes of numbers is numbers.                            *)
LEMMA FitTyped ==
  ASSUME NEW a \in AdapterType, NEW data \in Seq(Nat)
  PROVE  Fit(a, data) \in [1 .. a.len -> Nat] /\ Fit(a, data) \in Seq(Nat)
<1>1. /\ a.len \in Nat /\ a.target \in Seq(Nat)
      /\ Len(a.target) \in Nat /\ DOMAIN a.target = 1 .. Len(a.target)
      /\ Len(data) \in Nat
  BY LenProperties DEF AdapterType
<1>2. ASSUME NEW j \in 1 .. a.len
      PROVE  (IF Writers(a, data, j) = {} THEN Zero ELSE data[Max(Writers(a, data, j))]) \in Nat
  <2> DEFINE w == Writers(a, data, j)
  <2>1. CASE w = {}
    BY <2>1 DEF Zero
  <2>2. CASE w # {}
    <3>1. w \subseteq 1 .. Len(a.target) /\ \A i \in w : i <= Len(data)
      BY <1>1 DEF Writers
    <3>2. Max(w) \in w
      BY <1>1, <2>2, <3>1, MaxOfIndices
    <3>3. Max(w) \in 1 .. Len(data)
      BY <1>1, <3>1, <3>2
    <3>4. data[Max(w)] \in Nat
      BY <3>3, ElementOfSeq
    <3> QED
      BY <2>2, <3>4
  <2> QED
    BY <2>1, <2>2
<1>3. Fit(a, data) \in [1 .. a.len -> Nat]
  BY <1>2 DEF Fit
<1> QED
  BY <1>1, <1>3, FunctionIsSeq

(* The reverse of a name map gives names that are in the map.              *)
LEMMA ReverseMapTyped ==
  ASSUME NEW c, IsConfig(c)
  PROVE  \A name \in Range(c.map) : ReverseMap(c.map)[name] \in DOMAIN c.map
<1> SUFFICES ASSUME NEW name \in Range(c.map)
             PROVE  ReverseMap(c.map)[name] \in DOMAIN c.map
  OBVIOUS
<1> DEFINE w == {u \in DOMAIN c.map : c.map[u] = name}
<1>1. w # {} /\ DOMAIN c.map \subseteq Nat
  BY DEF Range, IsConfig, Name
<1>2. PICK n \in Nat : \A u \in DOMAIN c.map : u <= n
  BY <1>1 DEF IsConfig
<1>3. w \subseteq 0 .. n
  BY <1>1, <1>2
<1>4. Max(w) \in w
  BY <1>1, <1>3, MaxOfBounded
<1>5. ReverseMap(c.map)[name] = Max(w)
  BY DEF ReverseMap
<1> QED
  BY <1>4, <1>5

(* What a message reports is a number.                                     *)
LEMMA ExtractTyped ==
  ASSUME NEW m, IsMessage(m), NEW count, IsConfig(cfg), ControlledNames \in Seq(Name),
         \A name \in Name : WireName(name) \in Name
  PROVE  Extract(m, count) \in Seq(Nat)
<1>1. /\ Len(ControlledNames) \in Nat
      /\ DOMAIN ControlledNames = 1 .. Len(ControlledNames)
  BY LenProperties
<1>2. ASSUME NEW i \in 1 .. Len(ControlledNames)
      PROVE  Reported(m, count, WireName(ControlledNames[i])) \in Nat
  <2>1. WireName(ControlledNames[i]) \in Name
    BY ElementOfSeq
  <2>2. m.names \in Seq(Name)
    BY DEF IsMessage
  <2>3. LookUp(m.names, WireName(ControlledNames[i])) \in Nat
    BY <2>1, <2>2, LookUpFindsLast, LenProperties
  <2> QED
    BY <2>3 DEF Reported, Zero
<1>3. Extract(m, count) \in [1 .. Len(ControlledNames) -> Nat]
  BY <1>1, <1>2 DEF Extract
<1> QED
  BY <1>1, <1>3, FunctionIsSeq

(* Every variable has its type.                                            *)
THEOREM TypeCorrect == Spec => []TypeOK
<1>1. Init => TypeOK
  <2> SUFFICES ASSUME Init PROVE TypeOK
    OBVIOUS
  <2>1. IsConfig(cfg)
    BY RoutingAssumption DEF Init
  <2>2. <<>> \in Seq(Nat) /\ <<>> \in Seq([name: Name, target: Nat])
    BY EmptySeq
  <2>3. wireNames \in [DOMAIN wireNames -> Name]
    BY DEF Init, NoMap
  <2> QED
    BY <2>1, <2>2, <2>3, AdaptersTyped DEF Init, TypeOK
<1>2. RoutingInv /\ TypeOK /\ [Next]_vars => TypeOK'
  <2> SUFFICES ASSUME RoutingInv, TypeOK, [Next]_vars PROVE TypeOK'
    OBVIOUS
  <2>1. IsConfig(cfg) /\ cfg.model \in Seq(Name) /\ cfg.robot \in Seq(Name)
    BY DEF TypeOK, IsConfig
  <2>2. ControlledNames \in Seq(Name)
    BY <2>1 DEF ControlledNames
  <2>3. \A name \in Name : WireName(name) \in Name
    BY DEF TypeOK, WireName
  <2>4. CASE Configure
    <3>1. CASE cfg.robot = <<>>
      BY <2>4, <3>1 DEF Configure, confVars, TypeOK
    <3>2. CASE cfg.robot # <<>>
      <4>1. /\ robot2model' = Build(ControlledNames, cfg.model, NoMap)
            /\ model2robot' = Build(cfg.model, ControlledNames, NoMap)
            /\ wireNames' = ReverseMap(cfg.map)
        BY <2>4, <3>2 DEF Configure
      <4>2. robot2model' \in AdapterType /\ model2robot' \in AdapterType
        BY <2>1, <2>2, <4>1, AdaptersTyped
      <4>3. wireNames' = [n \in Range(cfg.map) |-> ReverseMap(cfg.map)[n]]
        BY <4>1 DEF ReverseMap
      <4>4. \A n \in Range(cfg.map) : ReverseMap(cfg.map)[n] \in Name
        BY <2>1, ReverseMapTyped DEF IsConfig
      <4>5. wireNames' \in [Range(cfg.map) -> Name] /\ DOMAIN wireNames' = Range(cfg.map)
        BY <4>3, <4>4
      <4> QED
        BY <2>4, <4>2, <4>5 DEF Configure, TypeOK
    <3> QED
      BY <3>1, <3>2
  <2>5. ASSUME NEW m \in Messages, ControlStep(m)
        PROVE  TypeOK'
    <3>1. IsMessage(m)
      BY RoutingAssumption
    <3>2. Extract(m, m.positions) \in Seq(Nat) /\ Extract(m, m.velocities) \in Seq(Nat)
      BY <2>1, <2>2, <2>3, <3>1, ExtractTyped
    <3>3. obs' \in [pos: Seq(Nat), vel: Seq(Nat)]
      BY <2>5, <3>2, FitTyped DEF ControlStep, TypeOK
    <3> DEFINE targets == [k \in DOMAIN cfg.model |-> k]
    <3>4. Len(cfg.model) \in Nat /\ DOMAIN cfg.model = 1 .. Len(cfg.model)
      BY <2>1, LenProperties
    <3>5. targets \in [1 .. Len(cfg.model) -> Nat] /\ targets \in Seq(Nat)
      BY <3>4, FunctionIsSeq
    <3>6. PICK n \in Nat : /\ PdTarget \in [1 .. n -> Nat]
                           /\ n = Len(ControlledNames)
      <4>1. CASE cfg.robot = <<>>
        BY <3>4, <3>5, <4>1 DEF PdTarget, ControlledNames
      <4>2. CASE cfg.robot # <<>>
        <5>1. model2robot = Build(cfg.model, cfg.robot, NoMap)
          BY <2>5, <4>2 DEF ControlStep, RoutingInv, Configured
        <5>2. model2robot.len = Len(cfg.robot) /\ Len(cfg.robot) \in Nat
          BY <2>1, <5>1, BuildByName, LenProperties
        <5>3. Fit(model2robot, targets) \in [1 .. Len(cfg.robot) -> Nat]
          BY <3>5, <5>2, FitTyped DEF TypeOK
        <5> QED
          BY <4>2, <5>2, <5>3 DEF PdTarget, ControlledNames
      <4> QED
        BY <4>1, <4>2
    <3>7. ASSUME NEW i \in 1 .. n
          PROVE  [name |-> WireName(ControlledNames[i]), target |-> PdTarget[i]]
                   \in [name: Name, target: Nat]
      <4>1. ControlledNames[i] \in Name
        BY <2>2, <3>6, <3>7, ElementOfSeq
      <4>2. PdTarget[i] \in Nat
        BY <3>6, <3>7
      <4> QED
        BY <2>3, <4>1, <4>2
    <3>8. JointCmd \in [1 .. n -> [name: Name, target: Nat]]
      BY <3>6, <3>7 DEF JointCmd
    <3>9. cmd' \in Seq([name: Name, target: Nat])
      BY <2>5, <3>8, FunctionIsSeq DEF ControlStep
    <3> QED
      BY <2>5, <3>1, <3>3, <3>9 DEF ControlStep, TypeOK, confVars
  <2>6. CASE ControlFaults
    BY <2>6 DEF ControlFaults, TypeOK, confVars
  <2>7. CASE UNCHANGED vars
    BY <2>7 DEF vars, TypeOK, confVars
  <2> QED
    BY <2>4, <2>5, <2>6, <2>7 DEF Next
<1> QED
  BY <1>1, <1>2, RoutingInvariant, PTL DEF Spec

-------------------------------------------------------------------------------
(* Completeness.                                                           *)

(* A slot of the robot is commanded for a joint of the model exactly if    *)
(* the joint is in the model's list and the slot is the last of its name.  *)
LEMMA NamesakesOfSlot ==
  ASSUME NEW model \in Seq(Name), NEW robot \in Seq(Name), NEW i \in 1 .. Len(robot),
         NEW k \in 1 .. Len(model)
  PROVE  k \in Namesakes(model, robot, i) <=>
           /\ model[k] = robot[i]
           /\ \A j \in 1 .. Len(robot) : robot[j] = robot[i] => j <= i
<1>1. /\ Len(robot) \in Nat /\ DOMAIN robot = 1 .. Len(robot)
  BY LenProperties
<1> DEFINE l == LookUp(robot, model[k])
<1>2. /\ l \in 0 .. Len(robot)
      /\ l = 0 <=> \A j \in 1 .. Len(robot) : robot[j] # model[k]
      /\ l # 0 => /\ l \in 1 .. Len(robot) /\ robot[l] = model[k]
                  /\ \A j \in 1 .. Len(robot) : robot[j] = model[k] => j <= l
  BY <1>1, LookUpFindsLast
<1>3. k \in Namesakes(model, robot, i) <=> l = i
  BY DEF Namesakes
<1> HIDE DEF l
<1>4. ASSUME l = i
      PROVE  model[k] = robot[i] /\ \A j \in 1 .. Len(robot) : robot[j] = robot[i] => j <= i
  BY <1>1, <1>2, <1>4
<1>5. ASSUME model[k] = robot[i], \A j \in 1 .. Len(robot) : robot[j] = robot[i] => j <= i
      PROVE  l = i
  BY <1>1, <1>2, <1>5
<1> QED
  BY <1>3, <1>4, <1>5

(* When the robot lists every joint of the model, every action reaches a   *)
(* motor; only unknown joints and the earlier of equal names get zero.     *)
THEOREM ActionsArrive == Spec => []ActionsReachMotors
<1>1. RoutingInv /\ TypeOK => ActionsReachMotors
  <2> SUFFICES ASSUME RoutingInv, TypeOK, cmd # <<>>
               PROVE  /\ IsInjective(cfg.model) /\ Range(cfg.model) \subseteq Range(cfg.robot)
                           => \A k \in DOMAIN cfg.model : \E i \in DOMAIN cmd : cmd[i].target = k
                      /\ \A i \in DOMAIN cmd :
                           cmd[i].target = 0 <=>
                             \/ cfg.robot[i] \notin Range(cfg.model)
                             \/ \E j \in DOMAIN cmd : j > i /\ cfg.robot[j] = cfg.robot[i]
    BY Zenon DEF ActionsReachMotors
  <2> DEFINE model == cfg.model
             robot == cfg.robot
             targets == [k \in DOMAIN model |-> k]
  <2>1. /\ model \in Seq(Name) /\ robot \in Seq(Name)
        /\ Len(model) \in Nat /\ DOMAIN model = 1 .. Len(model)
        /\ Len(robot) \in Nat /\ DOMAIN robot = 1 .. Len(robot)
    BY LenProperties DEF TypeOK, IsConfig
  <2>2. Configured /\ Commanded
    <3>1. DOMAIN cmd # {}
      <4>1. cmd \in Seq([name: Name, target: Nat])
        BY DEF TypeOK
      <4>2. Len(cmd) \in Nat /\ DOMAIN cmd = 1 .. Len(cmd) /\ Len(cmd) # 0
        BY <4>1, LenProperties, EmptySeq
      <4> QED
        BY <4>2
    <3> QED
      BY <3>1 DEF RoutingInv
  <2>3. PdTarget = Fit(Build(model, robot, NoMap), targets) /\ ControlledNames = robot
    BY <2>2 DEF Commanded, Configured, PdTarget, ControlledNames
  <2>4. DOMAIN cmd = 1 .. Len(robot) /\ \A i \in DOMAIN cmd : cmd[i].target = PdTarget[i]
    BY <2>1, <2>2, <2>3, BuildByName DEF Commanded, JointCmd, Fit
  <2>5. Len(targets) = Len(model) /\ \A k \in 1 .. Len(model) : targets[k] = k
    <3>1. targets \in [1 .. Len(model) -> Nat]
      BY <2>1
    <3> QED
      BY <2>1, <3>1, LenOfFunction
  <2> HIDE DEF targets, model, robot
  <2>6. ASSUME NEW i \in 1 .. Len(robot)
        PROVE  LET w == Namesakes(model, robot, i)
               IN  /\ w = {} => cmd[i].target = 0
                   /\ w # {} => cmd[i].target \in w
    <3> DEFINE w == Namesakes(model, robot, i)
    <3>1. cmd[i].target = IF w = {} THEN Zero ELSE targets[Max(w)]
      BY <2>1, <2>3, <2>4, <2>5, FitByName
    <3>2. w \subseteq 1 .. Len(model)
      BY DEF Namesakes
    <3>3. w # {} => Max(w) \in w
      BY <2>1, <3>2, MaxOfIndices
    <3> QED
      BY <2>5, <3>1, <3>2, <3>3 DEF Zero
  <2>7. ASSUME NEW i \in 1 .. Len(robot)
        PROVE  cmd[i].target = 0 <=> Namesakes(model, robot, i) = {}
    BY <2>6 DEF Namesakes
  <2>8. ASSUME IsInjective(model), Range(model) \subseteq Range(robot),
               NEW k \in 1 .. Len(model)
        PROVE  \E i \in 1 .. Len(robot) : cmd[i].target = k
    <3> DEFINE i == LookUp(robot, model[k])
    <3>1. \E c \in 1 .. Len(robot) : robot[c] = model[k]
      BY <2>1, <2>8 DEF Range
    <3>2. i \in 1 .. Len(robot)
      BY <2>1, <3>1, LookUpFindsLast
    <3>3. k \in Namesakes(model, robot, i)
      BY DEF Namesakes
    <3>4. cmd[i].target \in Namesakes(model, robot, i)
      BY <2>6, <3>2, <3>3
    <3>5. \A c \in Namesakes(model, robot, i) : c \in 1 .. Len(model) /\ model[c] = robot[i]
      BY <2>1, <3>2, NamesakesOfSlot DEF Namesakes
    <3>6. model[cmd[i].target] = model[k] /\ cmd[i].target \in 1 .. Len(model)
      BY <3>3, <3>4, <3>5
    <3>7. cmd[i].target = k
      BY <2>1, <2>8, <3>6 DEF IsInjective
    <3> QED
      BY <3>2, <3>7
  <2>9. ASSUME NEW i \in 1 .. Len(robot)
        PROVE  Namesakes(model, robot, i) = {} <=>
                 \/ robot[i] \notin Range(model)
                 \/ \E j \in 1 .. Len(robot) : j > i /\ robot[j] = robot[i]
    <3>1. Namesakes(model, robot, i) = {} <=>
            \A k \in 1 .. Len(model) :
              ~(/\ model[k] = robot[i]
                /\ \A j \in 1 .. Len(robot) : robot[j] = robot[i] => j <= i)
      <4>1. Namesakes(model, robot, i) \subseteq 1 .. Len(model)
        BY DEF Namesakes
      <4> QED
        BY <2>1, <4>1, NamesakesOfSlot
    <3>2. robot[i] \in Range(model) <=> \E k \in 1 .. Len(model) : model[k] = robot[i]
      BY <2>1 DEF Range
    <3>3. (\A j \in 1 .. Len(robot) : robot[j] = robot[i] => j <= i) <=>
            ~(\E j \in 1 .. Len(robot) : j > i /\ robot[j] = robot[i])
      BY <2>1
    <3> QED
      BY <3>1, <3>2, <3>3
  <2> QED
    BY <2>1, <2>4, <2>7, <2>8, <2>9 DEF model, robot
<1> QED
  BY <1>1, RoutingInvariant, TypeCorrect, PTL

===============================================================================
