----------------------- MODULE JointCmdPublisher_proofs -----------------------
(***************************************************************************)
(* Theorems about JointCmdPublisher, for all joints, options, messages and *)
(* durations, and for any number of times the clock is set.                *)
(***************************************************************************)
EXTENDS JointCmdPublisher, SequenceTheorems, WellFoundedInduction, TLAPS

-------------------------------------------------------------------------------
(* The smoothstep.                                                         *)

(* Between 0 and the duration it rises from 0 to the scale.                *)
LEMMA SmoothstepRises ==
  ASSUME NEW d \in Nat, NEW e \in Nat, NEW f \in Nat, e <= f, f <= d
  PROVE  /\ Smoothstep(e, d) \in Int /\ Smoothstep(f, d) \in Int
         /\ 0 <= Smoothstep(e, d)
         /\ Smoothstep(e, d) <= Smoothstep(f, d)
         /\ Smoothstep(f, d) <= d * d * d
<1>1. ASSUME NEW a \in Nat, NEW b \in Nat, a <= b, b <= d
      PROVE  a * a * (3 * d - 2 * a) <= b * b * (3 * d - 2 * b)
  <2> DEFINE u == d - b
             v == d - a
             w == b - a
             r == 2 * (b * u) + 2 * (a * v) + a * u + b * v
  <2>1. u \in Nat /\ v \in Nat /\ w \in Nat
    BY <1>1
  <2>2. \A i, j \in Nat : i * j \in Nat
    OBVIOUS
  <2>3. b * u \in Nat /\ a * v \in Nat /\ a * u \in Nat /\ b * v \in Nat
    BY <2>1, <2>2
  <2>4. r \in Nat
    BY <2>3
  <2>5. w * r \in Nat
    BY <2>1, <2>2, <2>4
  <2>6. b * b * (3 * d - 2 * b) - a * a * (3 * d - 2 * a) = w * r
    OBVIOUS
  <2>7. b * b * (3 * d - 2 * b) \in Int /\ a * a * (3 * d - 2 * a) \in Int
    OBVIOUS
  <2> HIDE DEF w, r
  <2> QED
    BY <2>5, <2>6, <2>7
<1>2. 0 * 0 * (3 * d - 2 * 0) = 0 /\ d * d * (3 * d - 2 * d) = d * d * d
  OBVIOUS
<1>3. /\ 0 * 0 * (3 * d - 2 * 0) <= e * e * (3 * d - 2 * e)
      /\ e * e * (3 * d - 2 * e) <= f * f * (3 * d - 2 * f)
      /\ f * f * (3 * d - 2 * f) <= d * d * (3 * d - 2 * d)
  BY <1>1
<1>4. e * e * (3 * d - 2 * e) \in Int /\ f * f * (3 * d - 2 * f) \in Int
  OBVIOUS
<1> QED
  BY <1>2, <1>3, <1>4 DEF Smoothstep

(* Where a move is at a time, in the units of what is published.           *)
At(s, t, e, d) == Scale(d) * s + (t - s) * Smoothstep(e, d)

(* At any time between 0 and the duration a move is between its ends, and  *)
(* later no further from its target than earlier.                          *)
LEMMA MoveIsMonotone ==
  ASSUME NEW d \in Nat \ {0}, NEW e \in Nat, NEW f \in Nat, e <= f, f <= d,
         NEW s \in Int, NEW t \in Int
  PROVE  LET D == Scale(d)
         IN  /\ D \in Nat /\ At(s, t, e, d) \in Int /\ At(s, t, f, d) \in Int
             /\ \/ D * s <= At(s, t, e, d) /\ At(s, t, e, d) <= D * t
                \/ D * t <= At(s, t, e, d) /\ At(s, t, e, d) <= D * s
             /\ Abs(D * t - At(s, t, f, d)) <= Abs(D * t - At(s, t, e, d))
<1>1. PICK D \in Int, x \in Int, y \in Int :
        /\ D = Scale(d) /\ x = Smoothstep(e, d) /\ y = Smoothstep(f, d)
        /\ 0 <= x /\ x <= y /\ y <= D
  <2>1. Scale(d) = d * d * d /\ d * d * d \in Int
    BY DEF Scale
  <2> QED
    BY <2>1, SmoothstepRises
<1>2. At(s, t, e, d) = D * s + (t - s) * x /\ At(s, t, f, d) = D * s + (t - s) * y
  BY <1>1 DEF At
<1>3. D * s + (t - s) * x \in Int /\ D * s + (t - s) * y \in Int /\ D * t \in Int
      /\ D * s \in Int
  OBVIOUS
<1>4. /\ D * t - (D * s + (t - s) * x) = (D - x) * (t - s)
      /\ D * t - (D * s + (t - s) * y) = (D - y) * (t - s)
      /\ (D * s + (t - s) * x) - D * s = x * (t - s)
  OBVIOUS
<1>5. \A i \in Nat, j \in Int : j >= 0 => i * j >= 0
  OBVIOUS
<1>6. \A i \in Nat, j \in Int : j <= 0 => i * j <= 0
  OBVIOUS
<1>7. x \in Nat /\ D - x \in Nat /\ D - y \in Nat /\ y - x \in Nat /\ t - s \in Int
  BY <1>1
<1>8. (D - x) * (t - s) = (D - y) * (t - s) + (y - x) * (t - s)
  OBVIOUS
<1>9. /\ (D - x) * (t - s) \in Int /\ (D - y) * (t - s) \in Int
      /\ (y - x) * (t - s) \in Int /\ x * (t - s) \in Int
  OBVIOUS
<1>10. CASE t - s >= 0
  <2>1. /\ x * (t - s) >= 0 /\ (D - x) * (t - s) >= 0
        /\ (D - y) * (t - s) >= 0 /\ (y - x) * (t - s) >= 0
    BY <1>5, <1>7, <1>10
  <2>2. D * s <= D * s + (t - s) * x /\ D * s + (t - s) * x <= D * t
    BY <1>3, <1>4, <1>9, <2>1
  <2>3. Abs((D - y) * (t - s)) <= Abs((D - x) * (t - s))
    BY <1>8, <1>9, <2>1 DEF Abs
  <2> QED
    BY <1>1, <1>2, <1>3, <1>4, <2>2, <2>3
<1>11. CASE t - s <= 0
  <2>1. /\ x * (t - s) <= 0 /\ (D - x) * (t - s) <= 0
        /\ (D - y) * (t - s) <= 0 /\ (y - x) * (t - s) <= 0
    BY <1>6, <1>7, <1>11
  <2>2. D * t <= D * s + (t - s) * x /\ D * s + (t - s) * x <= D * s
    BY <1>3, <1>4, <1>9, <2>1
  <2>3. Abs((D - y) * (t - s)) <= Abs((D - x) * (t - s))
    BY <1>8, <1>9, <2>1 DEF Abs
  <2> QED
    BY <1>1, <1>2, <1>3, <1>4, <2>2, <2>3
<1> QED
  BY <1>7, <1>10, <1>11

-------------------------------------------------------------------------------
(* Types.                                                                  *)

(* The last of the indices of a name.                                      *)
LEMMA LastIndex ==
  ASSUME NEW names \in Seq(Names), NEW n \in InSeq(names)
  PROVE  \E i \in DOMAIN names :
           names[i] = n /\ \A j \in DOMAIN names : names[j] = n => j <= i
<1> DEFINE len == Len(names)
           found == {i \in DOMAIN names : names[i] = n}
           T == {len - i : i \in found}
<1>1. len \in Nat /\ DOMAIN names = 1 .. len
  BY LenProperties
<1>2. T \subseteq Nat /\ T # {}
  <2>1. PICK i \in DOMAIN names : names[i] = n
    BY DEF InSeq
  <2>2. len - i \in T
    BY <2>1
  <2>3. \A k \in found : len - k \in Nat
    BY <1>1
  <2> QED
    BY <2>2, <2>3
<1>3. PICK x \in T : \A y \in T : ~(<<y, x>> \in OpToRel(<, Nat))
  BY <1>2, WFMin, NatLessThanWellFounded
<1>4. PICK i \in found : x = len - i
  OBVIOUS
<1>5. ASSUME NEW j \in found PROVE j <= i
  <2>1. len - j \in T
    OBVIOUS
  <2>2. ~(len - j < len - i)
    BY <1>2, <1>3, <1>4, <2>1 DEF OpToRel
  <2> QED
    BY <1>1, <2>2
<1> QED
  BY <1>4, <1>5

(* The targets are partial functions.                                      *)
LEMMA TargetMapType ==
  ASSUME IsArgs(args), ~Refused
  PROVE  IsPartial(TargetMap, Names)
<1>1. CASE args.preset # None
  BY <1>1 DEF IsArgs, TargetMap, IsPartial, Names
<1>2. CASE args.preset = None /\ args.joints # None
  <2> DEFINE names == args.joints
             targets == args.targets
             Last(n, i) == names[i] = n /\ \A j \in DOMAIN names : names[j] = n => j <= i
  <2>1. names \in Seq(Names) /\ targets \in Seq(Int) /\ Len(names) = Len(targets)
    BY <1>2 DEF IsArgs, Refused
  <2>2. /\ Len(names) \in Nat /\ DOMAIN names = 1 .. Len(names)
        /\ DOMAIN targets = 1 .. Len(targets)
    BY <2>1, LenProperties
  <2>3. ASSUME NEW n \in InSeq(names)
        PROVE  targets[CHOOSE i \in DOMAIN names : Last(n, i)] \in Int
    <3>1. \E i \in DOMAIN names : Last(n, i)
      BY <2>1, LastIndex
    <3>2. (CHOOSE i \in DOMAIN names : Last(n, i)) \in DOMAIN names
      BY <3>1
    <3> QED
      BY <2>1, <2>2, <3>2, ElementOfSeq
  <2>4. InSeq(names) \subseteq Names
    BY <2>1, <2>2, ElementOfSeq DEF InSeq
  <2>5. TargetMap = [n \in InSeq(names) |-> targets[CHOOSE i \in DOMAIN names : Last(n, i)]]
    BY <1>2 DEF TargetMap, Zip
  <2> HIDE DEF Last, names, targets
  <2>6. TargetMap \in [InSeq(names) -> Int]
    BY <2>3, <2>5
  <2> QED
    BY <2>4, <2>6 DEF IsPartial
<1>3. CASE args.preset = None /\ args.joints = None
  BY <1>3 DEF TargetMap, Empty, IsPartial
<1> QED
  BY <1>1, <1>2, <1>3

(* Values of a partial function are numbers.                               *)
LEMMA ValueType ==
  ASSUME NEW f, IsPartial(f, Names), NEW n
  PROVE  Value(f, n) \in Int
  BY DEF IsPartial, Value

(* What is published is a position for every joint.                        *)
LEMMA PublishedType ==
  ASSUME TypeOK, clock' \in Int,
         IsPartial(start', Names), DOMAIN target \subseteq DOMAIN start'
  PROVE  /\ Hold \in [Joints -> Int] /\ AtTarget \in [Joints -> Int]
         /\ args.duration # 0 => Between \in [Joints -> Int]
         /\ [n \in Joints |-> 0] \in [Joints -> Int]
<1>1. args.duration \in Int /\ clock' \in Int
  BY DEF TypeOK, IsArgs
<1>2. PICK D \in Int : D = Scale(args.duration)
  <2>1. args.duration * args.duration * args.duration \in Int
    BY <1>1
  <2> QED
    BY <2>1 DEF Scale
<1>3. PICK x \in Int : x = Smoothstep(clock', args.duration)
  <2>1. clock' * clock' * (3 * args.duration - 2 * clock') \in Int
    BY <1>1
  <2> QED
    BY <2>1 DEF Smoothstep
<1>4. \A n : Stay(n) \in Int
  <2>1. \A n : Value(current, n) \in Int
    BY ValueType DEF TypeOK
  <2> QED
    BY <1>2, <2>1 DEF Stay
<1>5. \A n \in DOMAIN target : target[n] \in Int /\ start'[n] \in Int
  BY DEF TypeOK, IsPartial
<1>6. ASSUME NEW n \in DOMAIN target
      PROVE  /\ Scale(args.duration) * target[n] \in Int
             /\ Scale(args.duration) * start'[n]
                + (target[n] - start'[n]) * Smoothstep(clock', args.duration) \in Int
  <2>1. PICK t \in Int, s \in Int : t = target[n] /\ s = start'[n]
    BY <1>5, <1>6
  <2>2. D * t \in Int /\ D * s + (t - s) * x \in Int
    OBVIOUS
  <2> QED
    BY <1>2, <1>3, <2>1, <2>2
<1>7. Hold \in [Joints -> Int]
  BY <1>4 DEF Hold
<1>8. AtTarget \in [Joints -> Int]
  BY <1>4, <1>6 DEF AtTarget
<1>9. Between \in [Joints -> Int]
  BY <1>4, <1>6 DEF Between
<1> QED
  BY <1>7, <1>8, <1>9

(* The snapshot covers the targets from the first tick on.                 *)
SnapshotTaken == started => DOMAIN start = DOMAIN target

(* So the snapshot of a tick does.                                         *)
LEMMA SnapshotType ==
  ASSUME TypeOK, SnapshotTaken, Snapshot
  PROVE  IsPartial(start', Names) /\ DOMAIN start' = DOMAIN target
<1>1. CASE started
  BY <1>1 DEF Snapshot, SnapshotTaken, TypeOK
<1>2. CASE ~started
  <2>1. start' = [n \in DOMAIN target |-> Value(current, n)]
    BY <1>2 DEF Snapshot
  <2>2. \A n : Value(current, n) \in Int
    BY ValueType DEF TypeOK
  <2> QED
    BY <2>1, <2>2 DEF IsPartial, TypeOK
<1> QED
  BY <1>1, <1>2

(* The clock and the timer have their types after a tick.                  *)
LEMMA TickTimes ==
  ASSUME TypeOK, Tick
  PROVE  /\ clock' \in Int /\ next' \in Int
         /\ sets' \in 0 .. MaxSets /\ raced' \in BOOLEAN
<1>1. clock \in Int /\ next \in Int /\ sets \in 0 .. MaxSets /\ raced \in BOOLEAN
  BY DEF TypeOK
<1>2. \A t \in Times : t \in Int
  BY DEF Times, TypeOK, IsArgs
<1>3. NextCall \in Int
  BY <1>1 DEF NextCall
<1>4. CASE TickWaiting
  <2>1. clock' = clock /\ next' = next /\ sets' = sets /\ raced' = raced
    BY <1>4, Zenon DEF TickWaiting
  <2> QED
    BY <1>1, <2>1
<1>5. CASE ReadClock
  <2>1. CASE UNCHANGED <<sets, raced>>
    <3>1. clock' \in {clock, clock + 1}
      BY <1>5, <1>1, <1>2, <2>1 DEF ReadClock
    <3>2. next' = NextCall
      BY <1>5, <1>1, <2>1 DEF ReadClock
    <3> QED
      BY <1>1, <1>3, <2>1, <3>1, <3>2
  <2>2. CASE ~UNCHANGED <<sets, raced>>
    <3>1. /\ sets < MaxSets /\ sets' = sets + 1 /\ clock' \in Times
          /\ next' \in Times \cup {NextCall}
          /\ raced' = (raced \/ clock' < clock)
      BY <1>5, <2>2, Zenon DEF ReadClock
    <3>2. sets' \in 0 .. MaxSets
      BY <1>1, <3>1, ToolAssumption
    <3>3. raced' \in BOOLEAN
      BY <3>1
    <3> QED
      BY <1>2, <1>3, <3>1, <3>2, <3>3
  <2> QED
    BY <2>1, <2>2
<1> QED
  BY <1>4, <1>5, Zenon DEF Tick, TickFixed, TickReached, TickMoving

(* A tick leaves the types and the snapshot as they are.                   *)
LEMMA TickTypes ==
  ASSUME TypeOK, SnapshotTaken, Tick
  PROVE  TypeOK' /\ SnapshotTaken'
<1> USE DEF nodeVars, timeVars, moveVars
<1>1. /\ expired' = FALSE
      /\ args' = args /\ target' = target
      /\ current' = current /\ received' = received
  BY DEF Tick, TickWaiting, TickFixed, TickReached, TickMoving, CallTimer
<1>2. /\ clock' \in Int /\ next' \in Int
      /\ sets' \in 0 .. MaxSets /\ raced' \in BOOLEAN
  BY TickTimes
<1>3. /\ proc' \in {"parsing", "spinning", "exited", "threw"}
      /\ done' \in BOOLEAN
  BY DEF Tick, TickWaiting, TickFixed, TickReached, TickMoving, TypeOK
<1>4. CASE TickWaiting
  <2>1. started' = started /\ start' = start /\ sent' = sent
    BY <1>4 DEF TickWaiting
  <2> QED
    BY <1>1, <1>2, <1>3, <2>1 DEF TypeOK, SnapshotTaken
<1>5. CASE Snapshot
  <2>1. IsPartial(start', Names) /\ DOMAIN start' = DOMAIN target /\ started' = TRUE
    BY <1>5, SnapshotType DEF Snapshot
  <2>2. sent' \in [Joints -> Int] \cup {None}
    <3>1. CASE TickWaiting
      BY <3>1 DEF TickWaiting, TypeOK
    <3>2. CASE TickFixed
      BY <1>2, <2>1, <3>2, PublishedType DEF TickFixed, Publish
    <3>3. CASE TickReached
      BY <1>2, <2>1, <3>3, PublishedType DEF TickReached, Publish
    <3>4. CASE TickMoving
      <4>1. sent' = sent \/ (args.duration # 0 /\ sent' = Between)
        BY <3>4 DEF TickMoving, Publish
      <4> QED
        BY <1>2, <2>1, <4>1, PublishedType DEF TypeOK
    <3> QED
      BY <3>1, <3>2, <3>3, <3>4 DEF Tick
  <2> QED
    BY <1>1, <1>2, <1>3, <2>1, <2>2 DEF TypeOK, SnapshotTaken
<1> QED
  BY <1>4, <1>5 DEF Tick, TickFixed, TickReached, TickMoving

(* Every step does.                                                        *)
LEMMA TypeStep ==
  TypeOK /\ SnapshotTaken /\ (proc = "parsing" => ~started) /\ [Next]_vars
    => TypeOK' /\ SnapshotTaken' /\ (proc = "parsing" => ~started)'
<1> SUFFICES ASSUME TypeOK, SnapshotTaken, proc = "parsing" => ~started, [Next]_vars
             PROVE  TypeOK' /\ SnapshotTaken' /\ (proc' = "parsing" => ~started')
  OBVIOUS
<1> USE DEF nodeVars, timeVars, moveVars
<1>1. CASE Main
  <2>1. proc = "parsing" /\ ~started
    BY <1>1 DEF Main
  <2>2. target' = target \/ (target' = TargetMap /\ ~Refused)
    BY <1>1 DEF Main
  <2>3. IsPartial(target', Names)
    BY <2>2, TargetMapType DEF TypeOK
  <2> QED
    BY <1>1, <2>1, <2>3 DEF Main, TypeOK, SnapshotTaken
<1>2. CASE Interrupt
  BY <1>2 DEF Interrupt, TypeOK, SnapshotTaken
<1>3. CASE ClockRuns
  BY <1>3 DEF ClockRuns, TypeOK, SnapshotTaken
<1>4. ASSUME NEW t \in Times, ClockIsSet(t)
      PROVE  TypeOK' /\ SnapshotTaken' /\ (proc' = "parsing" => ~started')
  <2>1. t \in Int
    BY DEF Times, TypeOK, IsArgs
  <2>2. sets' \in 0 .. MaxSets
    BY <1>4, ToolAssumption DEF ClockIsSet, TypeOK
  <2>3. raced' \in BOOLEAN
    BY <1>4 DEF ClockIsSet
  <2> QED
    BY <1>4, <2>1, <2>2, <2>3 DEF ClockIsSet, TypeOK, SnapshotTaken
<1>5. CASE TimerExpires
  BY <1>5 DEF TimerExpires, TypeOK, SnapshotTaken
<1>6. ASSUME NEW m \in States, JointState(m)
      PROVE  TypeOK' /\ SnapshotTaken' /\ (proc' = "parsing" => ~started')
  <2>1. IsPartial(m, Names) /\ IsPartial(current, Names)
    BY ToolAssumption DEF TypeOK
  <2>2. IsPartial(current', Names)
    BY <1>6, <2>1 DEF JointState, IsPartial
  <2> QED
    BY <1>6, <2>2 DEF JointState, TypeOK, SnapshotTaken
<1>7. CASE Tick
  <2>1. proc' # "parsing"
    BY <1>7 DEF Tick, TickWaiting, TickFixed, TickReached, TickMoving, CallTimer
  <2> QED
    BY <1>7, <2>1, TickTypes
<1>8. CASE UNCHANGED vars
  BY <1>8 DEF vars, TypeOK, SnapshotTaken
<1> QED
  BY <1>1, <1>2, <1>3, <1>4, <1>5, <1>6, <1>7, <1>8 DEF Next

(* Every variable has its type, and the snapshot covers the targets.       *)
LEMMA TypesHold == Spec => [](TypeOK /\ SnapshotTaken)
<1>1. Init => TypeOK /\ SnapshotTaken /\ (proc = "parsing" => ~started)
  <2> SUFFICES ASSUME Init PROVE TypeOK /\ SnapshotTaken /\ ~started
    OBVIOUS
  <2>1. IsArgs(args)
    BY ToolAssumption DEF Init
  <2>2. IsPartial(Empty, Names)
    BY DEF Empty, IsPartial
  <2>3. /\ received \in BOOLEAN /\ started \in BOOLEAN /\ done \in BOOLEAN
        /\ expired \in BOOLEAN /\ raced \in BOOLEAN
    BY DEF Init
  <2>4. sets \in 0 .. MaxSets
    BY ToolAssumption DEF Init
  <2> QED
    BY <2>1, <2>2, <2>3, <2>4 DEF Init, TypeOK, SnapshotTaken
<1> QED
  BY <1>1, TypeStep, PTL DEF Spec

(* Every variable has its type.                                            *)
THEOREM TypeCorrect == Spec => []TypeOK
  BY TypesHold, PTL

-------------------------------------------------------------------------------
(* The inductive invariant.                                                *)

(* Before the first tick that finds a joint_state nothing has happened.    *)
NotStarted ==
  /\ proc = "parsing" => ~started
  /\ ~started => clock = 0 /\ next = 0 /\ ~done /\ sent = None
  /\ started /\ proc = "spinning" => sent # None

(* When the timer is due next, time e will have passed: it is not before   *)
(* the next call, or the clock shows it already.                           *)
Passed(e) == e <= next \/ e <= clock

(* The timer is not called before it is due, nor before the start, unless  *)
(* the clock is set back while a tick is overdue.                          *)
DueInv ==
  ~raced => Passed(0) /\ (expired => clock >= next)

(* What was sent last is where the move is at some time that will have     *)
(* passed at the next call, or the target, and then the end will have.     *)
OnTheWay ==
  \E e \in Nat :
    /\ Passed(e) /\ e < args.duration
    /\ \A n \in Commanded : sent[n] = At(start[n], target[n], e, args.duration)

AtTheEnd == Arrived /\ Passed(args.duration)

MoveInv ==
  Moving /\ ~raced =>
    /\ proc # "threw"
    /\ sent # None => OnTheWay \/ AtTheEnd
    /\ done => AtTheEnd

DoneInv == done => ~args.zero /\ ~args.hold

Inv == TypeOK /\ SnapshotTaken /\ NotStarted /\ DueInv /\ MoveInv /\ DoneInv

(* What has passed stays so, whatever the clock does between two ticks,    *)
(* the race aside; and so the timer is due in time.                        *)
LEMMA TimeBetweenTicks ==
  ASSUME Inv, Main \/ Interrupt \/ ClockRuns \/ (\E t \in Times : ClockIsSet(t))
              \/ TimerExpires \/ (\E m \in States : JointState(m)) \/ UNCHANGED vars,
         ~raced'
  PROVE  /\ ~raced
         /\ \A e \in Int : Passed(e) => Passed(e)'
         /\ expired' => clock' >= next'
<1> USE DEF nodeVars, timeVars, moveVars
<1>1. clock \in Int /\ next \in Int
  BY DEF Inv, TypeOK
<1>2. next' = next
  BY DEF Main, Interrupt, ClockRuns, ClockIsSet, TimerExpires, JointState, vars
<1>3. ASSUME NEW t \in Times, ClockIsSet(t)
      PROVE  /\ ~raced /\ expired' = expired /\ clock' = t /\ t \in Int
             /\ ~(t < clock /\ (expired \/ clock > next))
  <2>1. t \in Int
    BY DEF Times, Inv, TypeOK, IsArgs
  <2>2. /\ raced' = (raced \/ (t < clock /\ (expired \/ clock > next)))
        /\ expired' = expired /\ clock' = t
    BY <1>3, Zenon DEF ClockIsSet
  <2> QED
    BY <2>1, <2>2, Zenon
<1>4. ASSUME ~(\E t \in Times : ClockIsSet(t))
      PROVE  /\ raced' = raced
             /\ clock' = clock \/ clock' = clock + 1
             /\ expired' = expired \/ TimerExpires
  BY <1>4, Zenon DEF Main, Interrupt, ClockRuns, TimerExpires, JointState, vars
<1>5. ~raced
  BY <1>3, <1>4, Zenon
<1>6. expired => clock >= next
  BY <1>5 DEF Inv, DueInv
<1>7. \/ clock' \in Int /\ clock' >= clock
      \/ clock' \in Int /\ clock <= next /\ ~expired /\ expired' = expired
  BY <1>1, <1>3, <1>4
<1>8. \A e \in Int : Passed(e) => Passed(e)'
  BY <1>1, <1>2, <1>7 DEF Passed
<1>9. expired' => clock' >= next'
  <2>1. CASE TimerExpires
    <3>1. ~started => clock = 0 /\ next = 0
      BY DEF Inv, NotStarted
    <3> QED
      BY <1>1, <1>2, <2>1, <3>1 DEF TimerExpires, TimerIsDue
  <2>2. CASE ~TimerExpires
    <3>1. expired' = expired
      BY <1>3, <1>4, <2>2, Zenon
    <3> QED
      BY <1>1, <1>2, <1>6, <1>7, <3>1
  <2> QED
    BY <2>1, <2>2
<1> QED
  BY <1>5, <1>8, <1>9

(* The steps before the first tick and after the last, of the clock, of    *)
(* the timer and of joint_state leave the move alone.                      *)
LEMMA QuietSteps ==
  ASSUME Inv, Main \/ Interrupt \/ ClockRuns \/ (\E t \in Times : ClockIsSet(t))
              \/ TimerExpires \/ (\E m \in States : JointState(m)) \/ UNCHANGED vars
  PROVE  NotStarted' /\ DueInv' /\ MoveInv' /\ DoneInv'
<1> USE DEF nodeVars, timeVars, moveVars
<1>1. /\ args' = args /\ start' = start /\ started' = started
      /\ done' = done /\ sent' = sent /\ next' = next
  BY DEF Main, Interrupt, ClockRuns, ClockIsSet, TimerExpires, JointState, vars
<1>2. DoneInv'
  BY <1>1 DEF Inv, DoneInv
<1>3. NotStarted'
  <2>1. CASE Main
    BY <1>1, <2>1 DEF Main, Inv, NotStarted
  <2>2. CASE ~Main
    <3>1. proc' = proc \/ (proc = "spinning" /\ proc' = "exited")
      BY <2>2 DEF Interrupt, ClockRuns, ClockIsSet, TimerExpires, JointState, vars
    <3>2. ~started => clock' = clock
      BY <2>2 DEF Interrupt, ClockRuns, ClockIsSet, TimerExpires, JointState, vars
    <3> QED
      BY <1>1, <3>1, <3>2 DEF Inv, NotStarted
  <2> QED
    BY <2>1, <2>2
<1>4. DueInv'
  <2>1. ASSUME ~raced' PROVE Passed(0)' /\ (expired' => clock' >= next')
    BY <2>1, TimeBetweenTicks DEF Inv, DueInv
  <2> QED
    BY <2>1 DEF DueInv
<1>5. MoveInv'
  <2> SUFFICES ASSUME Moving', ~raced'
               PROVE  /\ proc' # "threw"
                      /\ sent' # None => OnTheWay' \/ AtTheEnd'
                      /\ done' => AtTheEnd'
    BY DEF MoveInv
  <2>1. CASE Main
    <3>1. ~done /\ sent = None
      BY <2>1 DEF Main, Inv, NotStarted
    <3> QED
      BY <1>1, <2>1, <3>1 DEF Main
  <2>2. CASE ~Main
    <3>1. target' = target
      BY <2>2 DEF Interrupt, ClockRuns, ClockIsSet, TimerExpires, JointState, vars
    <3>2. proc' = proc \/ (proc = "spinning" /\ proc' = "exited")
      BY <2>2 DEF Interrupt, ClockRuns, ClockIsSet, TimerExpires, JointState, vars
    <3>3. ~raced /\ \A e \in Int : Passed(e) => Passed(e)'
      BY TimeBetweenTicks
    <3>4. Moving
      BY <1>1, <3>2 DEF Moving
    <3>5. args.duration \in Int
      BY DEF Inv, TypeOK, IsArgs
    <3>6. AtTheEnd => AtTheEnd'
      BY <1>1, <3>1, <3>3, <3>5 DEF AtTheEnd, Arrived, Goal, Commanded
    <3>7. OnTheWay => OnTheWay'
      BY <1>1, <3>1, <3>3 DEF OnTheWay, Commanded, At, Scale, Smoothstep
    <3> QED
      BY <1>1, <3>2, <3>3, <3>4, <3>6, <3>7 DEF Inv, MoveInv
  <2> QED
    BY <2>1, <2>2
<1> QED
  BY <1>2, <1>3, <1>4, <1>5

(* A tick finds a clock that shows all that has passed, and reads it no    *)
(* earlier, the race aside.                                                *)
LEMMA TimeOfTick ==
  ASSUME Inv, CallTimer, ReadClock, ~raced'
  PROVE  /\ ~raced /\ clock' \in Nat
         /\ \A e \in Int : Passed(e) => e <= clock'
<1>1. clock \in Int /\ next \in Int
  BY DEF Inv, TypeOK
<1>2. \A t \in Times : t \in Int
  BY DEF Times, Inv, TypeOK, IsArgs
<1>3. ~raced /\ clock' \in Int /\ clock' >= clock
  <2>1. CASE UNCHANGED <<sets, raced>>
    <3>1. sets \in Int
      BY DEF Inv, TypeOK
    <3> QED
      BY <1>1, <2>1, <3>1 DEF ReadClock
  <2>2. CASE ~UNCHANGED <<sets, raced>>
    <3>1. clock' \in Times /\ raced' = (raced \/ clock' < clock)
      BY <2>2, Zenon DEF ReadClock
    <3>2. ~raced /\ ~(clock' < clock)
      BY <3>1, Zenon
    <3> QED
      BY <1>1, <1>2, <3>1, <3>2
  <2> QED
    BY <2>1, <2>2
<1>4. Passed(0) /\ clock >= next
  BY <1>3 DEF CallTimer, Inv, DueInv
<1> QED
  BY <1>1, <1>3, <1>4 DEF Passed

(* A tick of a move: without the race it ends at the target, or on the way *)
(* there, at the time it reads.                                            *)
LEMMA MovingTick ==
  ASSUME Inv, Tick, received, ~args.zero, ~args.hold, ~raced'
  PROVE  /\ proc' = "spinning" /\ clock' \in Nat /\ ~raced
         /\ \A e \in Int : Passed(e) => e <= clock'
         /\ sent' \in [Joints -> Int]
         /\ \/ /\ Reached
               /\ \A n \in Commanded : sent'[n] = Goal(n)
            \/ /\ ~Reached /\ done' = done
               /\ \A n \in Commanded :
                    sent'[n] = At(start'[n], target[n], clock', args.duration)
<1> USE DEF nodeVars, moveVars
<1>1. args.duration \in Int
  BY DEF Inv, TypeOK, IsArgs
<1>2. /\ CallTimer /\ ReadClock /\ proc = "spinning" /\ Snapshot
      /\ TickReached \/ TickMoving
  BY DEF Tick, TickWaiting, TickFixed, TickReached, TickMoving, CallTimer
<1>3. ~raced /\ clock' \in Nat /\ \A e \in Int : Passed(e) => e <= clock'
  BY <1>2, TimeOfTick
<1>4. IsPartial(start', Names) /\ DOMAIN start' = DOMAIN target
  BY <1>2, SnapshotType DEF Inv
<1>5. CASE TickReached
  <2>1. Reached /\ sent' = AtTarget /\ proc' = proc
    BY <1>5 DEF TickReached, Publish
  <2>2. \A n \in Commanded : sent'[n] = Goal(n)
    BY <2>1 DEF AtTarget, Commanded, Goal
  <2>3. sent' \in [Joints -> Int]
    BY <1>3, <1>4, <2>1, PublishedType DEF Inv
  <2> QED
    BY <1>2, <1>3, <2>1, <2>2, <2>3
<1>6. CASE TickMoving
  <2>1. ~Reached
    BY <1>6 DEF TickMoving
  <2>2. args.duration # 0
    BY <1>1, <1>3, <2>1 DEF Reached
  <2>3. sent' = Between /\ proc' = proc /\ done' = done
    BY <1>6, <2>2 DEF TickMoving, Publish
  <2>4. \A n \in Commanded : sent'[n] = At(start'[n], target[n], clock', args.duration)
    BY <2>3 DEF Between, Commanded, At
  <2>5. sent' \in [Joints -> Int]
    BY <1>3, <1>4, <2>2, <2>3, PublishedType DEF Inv
  <2> QED
    BY <1>2, <1>3, <2>1, <2>3, <2>4, <2>5
<1> QED
  BY <1>2, <1>5, <1>6

(* Ticks keep the invariant.                                               *)
LEMMA TickStep ==
  ASSUME Inv, Tick
  PROVE  NotStarted' /\ DueInv' /\ MoveInv' /\ DoneInv'
<1> USE DEF nodeVars, moveVars
<1>1. /\ args' = args /\ target' = target
      /\ expired' = FALSE /\ proc = "spinning"
  BY DEF Tick, TickWaiting, TickFixed, TickReached, TickMoving, CallTimer
<1>2. clock' \in Int /\ next' \in Int /\ args.duration \in Int
  BY TickTimes DEF Inv, TypeOK, IsArgs
<1>3. CASE TickWaiting
  <2>1. /\ start' = start /\ started' = started /\ done' = done /\ sent' = sent
        /\ next' = next /\ clock' = clock /\ proc' = proc
    BY <1>1, <1>3 DEF TickWaiting
  <2>2. raced' = raced
    BY <1>3, Zenon DEF TickWaiting
  <2>3. Passed(0)' = Passed(0) /\ Passed(args.duration)' = Passed(args.duration)
    BY <1>1, <2>1 DEF Passed
  <2>4. (OnTheWay => OnTheWay') /\ (AtTheEnd => AtTheEnd') /\ (Moving' <=> Moving)
    BY <1>1, <2>1 DEF OnTheWay, AtTheEnd, Arrived, Goal, Commanded, Moving, Passed,
                      At, Scale, Smoothstep
  <2>5. DueInv'
    BY <1>1, <2>2, <2>3 DEF Inv, DueInv
  <2>6. MoveInv'
    BY <2>1, <2>2, <2>4 DEF Inv, MoveInv
  <2> QED
    BY <1>1, <2>1, <2>5, <2>6 DEF Inv, NotStarted, DoneInv
<1>4. ASSUME ReadClock, CallTimer PROVE DueInv'
  <2>1. ASSUME ~raced' PROVE Passed(0)'
    BY <1>2, <1>4, <2>1, TimeOfTick DEF Passed
  <2> QED
    BY <1>1, <2>1 DEF DueInv
<1>5. CASE TickFixed
  <2>1. args.zero \/ args.hold
    BY <1>5 DEF TickFixed
  <2>2. done' = done /\ started' = TRUE /\ proc' = proc
    BY <1>5 DEF TickFixed, Snapshot
  <2>3. IsPartial(start', Names) /\ DOMAIN start' = DOMAIN target
    BY <1>5, SnapshotType DEF Inv, TickFixed
  <2>4. sent' \in [Joints -> Int]
    BY <1>2, <1>5, <2>3, PublishedType DEF Inv, TickFixed, Publish
  <2>5. sent' # None
    BY <2>4, ToolAssumption
  <2>6. ~Moving'
    BY <1>1, <2>1 DEF Moving
  <2>7. DueInv'
    BY <1>4, <1>5 DEF TickFixed
  <2> QED
    BY <1>1, <2>2, <2>5, <2>6, <2>7 DEF Inv, NotStarted, MoveInv, DoneInv
<1>6. CASE TickReached \/ TickMoving
  <2>1. received /\ ~args.zero /\ ~args.hold /\ started' = TRUE
    BY <1>6 DEF TickReached, TickMoving, Snapshot
  <2>2. DoneInv'
    BY <1>1, <2>1 DEF DoneInv
  <2>3. NotStarted'
    <3>1. proc' = "spinning" => sent' # None
      <4>1. IsPartial(start', Names) /\ DOMAIN start' = DOMAIN target
        BY <1>6, SnapshotType DEF Inv, TickReached, TickMoving
      <4>2. proc' = "spinning" => sent' \in [Joints -> Int]
        BY <1>1, <1>2, <1>6, <4>1, PublishedType
           DEF Inv, TickReached, TickMoving, Publish
      <4> QED
        BY <4>2, ToolAssumption
    <3>2. proc' \in {"spinning", "threw"}
      BY <1>1, <1>6 DEF TickReached, TickMoving
    <3> QED
      BY <2>1, <3>1, <3>2 DEF NotStarted
  <2>4. ASSUME ~raced' PROVE MoveInv'
    <3>1. /\ proc' = "spinning" /\ clock' \in Nat /\ ~raced
          /\ \A e \in Int : Passed(e) => e <= clock'
          /\ sent' \in [Joints -> Int]
          /\ \/ /\ Reached
                /\ \A n \in Commanded : sent'[n] = Goal(n)
             \/ /\ ~Reached /\ done' = done
                /\ \A n \in Commanded :
                     sent'[n] = At(start'[n], target[n], clock', args.duration)
      BY <2>1, <2>4, MovingTick
    <3>2. sent' # None
      BY <3>1, ToolAssumption
    <3>3. CASE Reached
      <4>1. \A n \in Commanded : sent'[n] = Goal(n)
        BY <3>1, <3>3
      <4>2. Passed(args.duration)'
        BY <1>1, <1>2, <3>3 DEF Passed, Reached
      <4>3. AtTheEnd'
        BY <1>1, <3>2, <4>1, <4>2 DEF AtTheEnd, Arrived, Commanded, Goal
      <4> QED
        BY <3>1, <4>3 DEF MoveInv
    <3>4. CASE ~Reached
      <4>1. \A n \in Commanded :
              sent'[n] = At(start'[n], target[n], clock', args.duration)
        BY <3>1, <3>4
      <4>2. PICK e \in Nat : e = clock'
        BY <3>1
      <4>3. e <= clock' /\ e < args.duration
        BY <1>2, <3>4, <4>2 DEF Reached
      <4>4. Passed(e)'
        BY <4>3 DEF Passed
      <4>5. OnTheWay'
        BY <1>1, <4>1, <4>2, <4>3, <4>4
           DEF OnTheWay, Commanded, At, Scale, Smoothstep
      <4>6. ~done'
        <5>1. done' = done
          BY <3>1, <3>4
        <5>2. Moving
          BY <1>1, <2>1 DEF Moving
        <5>3. done => Passed(args.duration)
          BY <3>1, <5>2 DEF Inv, MoveInv, AtTheEnd
        <5>4. ~Passed(args.duration)
          BY <1>2, <3>1, <3>4 DEF Reached
        <5> QED
          BY <5>1, <5>3, <5>4
      <4> QED
        BY <3>1, <4>5, <4>6 DEF MoveInv
    <3> QED
      BY <3>3, <3>4
  <2>5. ASSUME raced' PROVE MoveInv'
    BY <2>5 DEF MoveInv
  <2>6. DueInv'
    BY <1>4, <1>6 DEF TickReached, TickMoving
  <2> QED
    BY <2>2, <2>3, <2>4, <2>5, <2>6
<1> QED
  BY <1>3, <1>5, <1>6 DEF Tick

(* The invariant holds in every reachable state.                           *)
LEMMA Invariance == Spec => []Inv
<1>1. Init => NotStarted /\ DueInv /\ MoveInv /\ DoneInv
  BY DEF Init, NotStarted, DueInv, Passed, MoveInv, DoneInv, Moving
<1>2. Inv /\ [Next]_vars => NotStarted' /\ DueInv' /\ MoveInv' /\ DoneInv'
  BY QuietSteps, TickStep DEF Next
<1> QED
  BY <1>1, <1>2, TypesHold, PTL DEF Spec, Inv

-------------------------------------------------------------------------------
(* The theorems.                                                           *)

(* However the clock is set, no joint is sent anywhere but between its     *)
(* start and its target, unless it is set back while a tick is overdue, or *)
(* in its callback before it is read.                                      *)
THEOREM AlwaysBetween == Spec => []StaysBetween
<1>1. Inv => StaysBetween
  <2> SUFFICES ASSUME Inv, Moving, ~raced, sent # None, NEW n \in Commanded
               PROVE  LET s == Scale(args.duration) * start[n]
                      IN  \/ s <= sent[n] /\ sent[n] <= Goal(n)
                          \/ Goal(n) <= sent[n] /\ sent[n] <= s
    BY DEF StaysBetween, Inv, MoveInv
  <2>1. started
    BY DEF Inv, NotStarted
  <2>2. PICK s \in Int, t \in Int, d \in Int :
          s = start[n] /\ t = target[n] /\ d = args.duration
    BY <2>1 DEF Inv, SnapshotTaken, TypeOK, IsPartial, IsArgs, Commanded
  <2>3. CASE OnTheWay
    <3>1. PICK e \in Nat : /\ e < args.duration
                           /\ sent[n] = At(start[n], target[n], e, args.duration)
      BY <2>3 DEF OnTheWay
    <3>2. d \in Nat \ {0} /\ e <= d
      BY <2>2, <3>1
    <3>3. \/ Scale(d) * s <= At(s, t, e, d) /\ At(s, t, e, d) <= Scale(d) * t
          \/ Scale(d) * t <= At(s, t, e, d) /\ At(s, t, e, d) <= Scale(d) * s
      BY <3>2, MoveIsMonotone
    <3> QED
      BY <2>2, <3>1, <3>3 DEF Goal
  <2>4. CASE Arrived
    <3>1. PICK k \in Int : k = Scale(args.duration)
      <4>1. d * d * d \in Int
        OBVIOUS
      <4> QED
        BY <2>2, <4>1 DEF Scale
    <3>2. k * s <= k * t \/ k * t <= k * s
      OBVIOUS
    <3>3. sent[n] = Goal(n)
      BY <2>4 DEF Arrived
    <3>4. k * t \in Int /\ k * t <= k * t
      OBVIOUS
    <3> QED
      BY <2>2, <3>1, <3>2, <3>3, <3>4 DEF Goal
  <2> QED
    BY <2>3, <2>4 DEF Inv, MoveInv, AtTheEnd
<1> QED
  BY <1>1, Invariance, PTL

(* A target that was reached is kept, the race aside.                      *)
THEOREM TargetKept == Spec => []TargetIsKept
<1>1. Inv => TargetIsKept
  BY DEF Inv, MoveInv, DoneInv, NotStarted, Moving, AtTheEnd, TargetIsKept
<1> QED
  BY <1>1, Invariance, PTL

(* No tick sends a joint further from its target than the one before.      *)
THEOREM MoveNeverBacksOff == Spec => NeverBacksOff
<1>1. ASSUME Inv, Next, Moving, ~raced', sent # None, NEW n \in Commanded
      PROVE  Abs(Goal(n) - sent'[n]) <= Abs(Goal(n) - sent[n])
  <2> USE DEF nodeVars, timeVars, moveVars
  <2>1. /\ args.duration \in Int /\ target[n] \in Int /\ n \in Joints
    BY <1>1 DEF Inv, TypeOK, IsArgs, IsPartial, Commanded
  <2>2. started /\ start[n] \in Int
    <3>1. started
      BY <1>1 DEF Inv, NotStarted
    <3>2. n \in DOMAIN start
      BY <1>1, <3>1 DEF Inv, SnapshotTaken, Commanded
    <3>3. start \in [DOMAIN start -> Int]
      BY <1>1 DEF Inv, TypeOK, IsPartial
    <3> QED
      BY <3>1, <3>2, <3>3
  <2>3. sent[n] \in Int /\ Goal(n) \in Int
    <3>1. args.duration * args.duration * args.duration \in Int
      BY <2>1
    <3>2. Scale(args.duration) \in Int
      BY <3>1 DEF Scale
    <3> QED
      BY <1>1, <2>1, <3>2 DEF Inv, TypeOK, Goal
  <2>4. CASE sent' = sent
    BY <2>3, <2>4 DEF Abs
  <2>5. CASE sent' # sent
    <3>1. Tick /\ received
      BY <1>1, <2>5 DEF Next, Main, Interrupt, ClockRuns, ClockIsSet, TimerExpires,
                  JointState, Tick, TickWaiting, TickFixed, TickReached, TickMoving
    <3>2. ~args.zero /\ ~args.hold
      BY <1>1 DEF Moving
    <3>3. start' = start
      BY <2>2, <3>1, <3>2 DEF Tick, TickWaiting, TickFixed, TickReached,
                              TickMoving, Snapshot
    <3>4. /\ clock' \in Nat /\ ~raced /\ \A e \in Int : Passed(e) => e <= clock'
          /\ \/ Reached /\ sent'[n] = Goal(n)
             \/ ~Reached /\ sent'[n] = At(start[n], target[n], clock', args.duration)
      BY <1>1, <3>1, <3>2, <3>3, MovingTick
    <3>5. CASE Reached
      BY <2>3, <3>4, <3>5 DEF Abs
    <3>6. CASE ~Reached
      <4>1. PICK e \in Nat :
              Passed(e) /\ e < args.duration
              /\ sent[n] = At(start[n], target[n], e, args.duration)
        <5>1. ~AtTheEnd
          BY <2>1, <3>4, <3>6 DEF AtTheEnd, Reached
        <5>2. OnTheWay
          BY <1>1, <3>4, <5>1 DEF Inv, MoveInv
        <5> QED
          BY <1>1, <5>2 DEF OnTheWay
      <4>2. /\ clock' \in Nat /\ e <= clock' /\ clock' <= args.duration
            /\ args.duration \in Nat \ {0}
        BY <2>1, <3>4, <3>6, <4>1 DEF Reached
      <4>3. Abs(Scale(args.duration) * target[n]
                - At(start[n], target[n], clock', args.duration))
            <= Abs(Scale(args.duration) * target[n]
                   - At(start[n], target[n], e, args.duration))
        BY <2>1, <2>2, <4>2, MoveIsMonotone
      <4> QED
        BY <3>4, <3>6, <4>1, <4>3 DEF Goal
    <3> QED
      BY <3>5, <3>6
  <2> QED
    BY <2>4, <2>5
<1>2. Inv /\ [Next]_vars =>
        [Moving /\ ~raced' /\ sent # None =>
           \A n \in Commanded :
             Abs(Goal(n) - sent'[n]) <= Abs(Goal(n) - sent[n])]_vars
  BY <1>1
<1> QED
  BY <1>2, Invariance, PTL DEF Spec, NeverBacksOff

(* The first command leaves every joint that was measured where it is, if  *)
(* no time passes within the first callback.                               *)
THEOREM StartsWithoutJump == Spec => NoJumpAtStart
<1>1. ASSUME Inv, Next, Moving, sent = None, sent' # None, args.duration > 0, clock' = 0,
             NEW n \in Joints \cap DOMAIN current
      PROVE  sent'[n] = Scale(args.duration) * current[n]
  <2> USE DEF nodeVars, timeVars, moveVars
  <2>1. Tick /\ received /\ proc = "spinning"
    BY <1>1 DEF Next, Main, Interrupt, ClockRuns, ClockIsSet, TimerExpires,
                JointState, Tick, TickWaiting, TickFixed, TickReached,
                TickMoving, CallTimer
  <2>2. ~started
    BY <1>1, <2>1 DEF Inv, NotStarted
  <2>3. ~args.zero /\ ~args.hold /\ args.duration \in Int
    BY <1>1 DEF Moving, Inv, TypeOK, IsArgs
  <2>4. TickMoving /\ args.duration # 0
    <3>1. args.duration # 0 /\ ~Reached
      BY <1>1, <2>3 DEF Reached
    <3> QED
      BY <2>1, <2>3, <3>1 DEF Tick, TickWaiting, TickFixed, TickReached
  <2>5. /\ sent' = Between
        /\ start' = [i \in DOMAIN target |-> Value(current, i)]
    BY <2>2, <2>4 DEF TickMoving, Publish, Snapshot
  <2>6. Value(current, n) = current[n] /\ current[n] \in Int
    BY <1>1 DEF Value, Inv, TypeOK, IsPartial
  <2>7. CASE n \in DOMAIN target
    <3>1. sent'[n] = Scale(args.duration) * current[n]
                     + (target[n] - current[n]) * Smoothstep(0, args.duration)
      BY <1>1, <2>2, <2>5, <2>6, <2>7 DEF Between
    <3>2. Smoothstep(0, args.duration) = 0
      BY <2>3 DEF Smoothstep
    <3>3. target[n] - current[n] \in Int
      BY <1>1, <2>6, <2>7 DEF Inv, TypeOK, IsPartial
    <3>4. (target[n] - current[n]) * 0 = 0
      BY <3>3
    <3>5. Scale(args.duration) * current[n] \in Int
      <4>1. args.duration * args.duration * args.duration \in Int
        BY <2>3
      <4> QED
        BY <2>6, <4>1 DEF Scale
    <3> QED
      BY <3>1, <3>2, <3>4, <3>5
  <2>8. CASE n \notin DOMAIN target
    BY <1>1, <2>5, <2>6, <2>8 DEF Between, Stay
  <2> QED
    BY <2>7, <2>8
<1>2. Inv /\ [Next]_vars =>
        [Moving /\ sent = None /\ sent' # None /\ args.duration > 0 /\ clock' = 0 =>
           \A n \in Joints \cap DOMAIN current :
             sent'[n] = Scale(args.duration) * current[n]]_vars
  BY <1>1
<1> QED
  BY <1>2, Invariance, PTL DEF Spec, NoJumpAtStart

===============================================================================
