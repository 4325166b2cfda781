-------------------------- MODULE ActionFilter_proofs --------------------------
(***************************************************************************)
(* Theorems about ActionFilter, for every configuration and every sequence *)
(* of raw actions and references.                                          *)
(***************************************************************************)
EXTENDS ActionFilter, TLAPS

-------------------------------------------------------------------------------
(* Lemmas about numbers.                                                   *)

(* A number is finite, or one of three.                                    *)
LEMMA NumberKinds ==
  /\ \A n \in Int : Fin(n) \in Number /\ IsFinite(Fin(n)) /\ Fin(n).v = n
  /\ \A a \in Number : IsFinite(a) => a.v \in Int /\ a = Fin(a.v)
  /\ \A a \in Number : ~IsFinite(a) => a \in {Inf(1), Inf(-1), NaN}
  /\ NaN \in Number /\ Inf(1) \in Number /\ Inf(-1) \in Number
  /\ ~IsFinite(NaN) /\ ~IsFinite(Inf(1)) /\ ~IsFinite(Inf(-1))
  /\ Inf(1) # Inf(-1) /\ NaN # Inf(1) /\ NaN # Inf(-1)
  /\ Inf(1).v = 1 /\ Inf(-1).v = -1
  BY DEF Number, Fin, Inf, NaN, IsFinite

(* Products of finite factors are finite, and only those.                  *)
LEMMA TimesKinds ==
  ASSUME NEW k \in Int, NEW a \in Number
  PROVE  /\ Times(k, a) \in Number
         /\ IsFinite(Times(k, a)) <=> IsFinite(a)
         /\ IsFinite(a) => Times(k, a) = Fin(k * a.v)
<1>1. CASE IsFinite(a)
  <2>1. k * a.v \in Int
    BY <1>1, NumberKinds
  <2> QED
    BY <1>1, <2>1, NumberKinds DEF Times
<1>2. CASE ~IsFinite(a) /\ (a = NaN \/ k = 0)
  BY <1>2, NumberKinds DEF Times
<1>3. CASE ~IsFinite(a) /\ a # NaN /\ k # 0
  <2>1. Sign(k) * a.v \in {1, -1}
    BY <1>3, NumberKinds DEF Sign
  <2> QED
    BY <1>3, <2>1, NumberKinds DEF Times
<1> QED
  BY <1>1, <1>2, <1>3

(* Sums of finite terms are finite, and only those.                        *)
LEMMA PlusKinds ==
  ASSUME NEW a \in Number, NEW b \in Number
  PROVE  /\ Plus(a, b) \in Number
         /\ IsFinite(Plus(a, b)) <=> IsFinite(a) /\ IsFinite(b)
         /\ IsFinite(a) /\ IsFinite(b) => Plus(a, b) = Fin(a.v + b.v)
<1>1. CASE IsFinite(a) /\ IsFinite(b)
  <2>1. a.v + b.v \in Int
    BY <1>1, NumberKinds
  <2> QED
    BY <1>1, <2>1, NumberKinds DEF Plus
<1>2. CASE ~(IsFinite(a) /\ IsFinite(b))
  BY <1>2, NumberKinds DEF Plus
<1> QED
  BY <1>1, <1>2

(* Quotients likewise.                                                     *)
LEMMA OverKinds ==
  ASSUME NEW a \in Number, NEW d \in Nat \ {0}
  PROVE  /\ Over(a, d) \in Number
         /\ IsFinite(Over(a, d)) <=> IsFinite(a)
         /\ IsFinite(a) => Over(a, d) = Fin(a.v \div d)
<1>1. CASE IsFinite(a)
  <2>1. a.v \div d \in Int
    BY <1>1, NumberKinds
  <2> QED
    BY <1>1, <2>1, NumberKinds DEF Over
<1>2. CASE ~IsFinite(a)
  BY <1>2 DEF Over
<1> QED
  BY <1>1, <1>2

(* Whatever the sign of the bound, what is clamped between its two signs   *)
(* is no larger than it; only what is not a number stays what it is.       *)
LEMMA ClampKinds ==
  ASSUME NEW a \in Number, NEW c \in Int
  PROVE  /\ Clamp(a, -c, c) \in Number
         /\ a = NaN => Clamp(a, -c, c) = NaN
         /\ a # NaN => /\ IsFinite(Clamp(a, -c, c))
                       /\ Abs(Clamp(a, -c, c).v) <= Abs(c)
<1>1. CASE IsFinite(a)
  BY <1>1, NumberKinds DEF Clamp, Below, Above, Abs
<1>2. CASE ~IsFinite(a)
  BY <1>2, NumberKinds DEF Clamp, Below, Above, Abs
<1> QED
  BY <1>1, <1>2

(* A factor bounds the product.                                            *)
LEMMA AbsTimes ==
  ASSUME NEW a \in Int, NEW b \in Int, NEW k \in Int, Abs(a) <= Abs(b)
  PROVE  Abs(k * a) <= Abs(b) * Abs(k)
<1>1. \A x \in Int, y \in Int, z \in Nat : x <= y => z * x <= z * y
  OBVIOUS
<1>2. CASE k >= 0
  <2>1. a <= Abs(b) /\ -a <= Abs(b) /\ Abs(b) \in Int /\ -a \in Int
    BY DEF Abs
  <2>2. k * a <= k * Abs(b) /\ k * (-a) <= k * Abs(b)
    BY <1>1, <1>2, <2>1
  <2> QED
    BY <1>2, <2>1, <2>2 DEF Abs
<1>3. CASE k < 0
  <2>1. a <= Abs(b) /\ -a <= Abs(b) /\ Abs(b) \in Int /\ -a \in Int /\ -k \in Nat
    BY <1>3 DEF Abs
  <2>2. (-k) * a <= (-k) * Abs(b) /\ (-k) * (-a) <= (-k) * Abs(b)
    BY <1>1, <2>1
  <2> QED
    BY <1>3, <2>1, <2>2 DEF Abs
<1> QED
  BY <1>2, <1>3

(* A weighted mean, rounded down, lies between bounds of its two terms.    *)
LEMMA MeanStaysInRange ==
  ASSUME NEW w \in Nat, NEW d \in Nat \ {0}, w <= d,
         NEW a \in Int, NEW b \in Int, NEW lo \in Int, NEW hi \in Int,
         lo <= a, a <= hi, lo <= b, b <= hi
  PROVE  LET q == ((d - w) * a + w * b) \div d IN lo <= q /\ q <= hi
<1> DEFINE s == (d - w) * a + w * b
           q == s \div d
<1>1. \A x \in Int, y \in Int, z \in Nat : x <= y => z * x <= z * y
  OBVIOUS
<1>2. d - w \in Nat /\ s \in Int
  OBVIOUS
<1>3. d * lo <= s /\ s <= d * hi
  <2>1. (d - w) * lo <= (d - w) * a /\ w * lo <= w * b
    BY <1>1, <1>2
  <2>2. (d - w) * a <= (d - w) * hi /\ w * b <= w * hi
    BY <1>1, <1>2
  <2>3. (d - w) * lo + w * lo = d * lo /\ (d - w) * hi + w * hi = d * hi
    OBVIOUS
  <2> QED
    BY <2>1, <2>2, <2>3
<1>4. q \in Int /\ d * q <= s /\ s < d * (q + 1)
  BY <1>2
<1>5. lo <= q
  <2> SUFFICES ASSUME q + 1 <= lo PROVE FALSE
    BY <1>4
  <2>1. d * (q + 1) <= d * lo
    BY <1>1, <1>4
  <2> QED
    BY <1>2, <1>3, <1>4, <2>1
<1>6. q <= hi
  <2> SUFFICES ASSUME hi + 1 <= q PROVE FALSE
    BY <1>4
  <2>1. d * (hi + 1) <= d * q
    BY <1>1, <1>4
  <2>2. d * (hi + 1) = d * hi + d
    OBVIOUS
  <2> QED
    BY <1>2, <1>3, <1>4, <2>1, <2>2
<1> QED
  BY <1>5, <1>6

-------------------------------------------------------------------------------
(* The step of the filter.                                                 *)

(* The smoothed action is a number; it is finite exactly if both of its    *)
(* terms are.                                                              *)
LEMMA SmoothedKinds ==
  ASSUME TypeOK, NEW raw \in Number
  PROVE  /\ Smoothed(raw) \in Number
         /\ IsFinite(Smoothed(raw)) <=> IsFinite(last) /\ IsFinite(raw)
         /\ IsFinite(last) /\ IsFinite(raw) =>
              Smoothed(raw) = Fin(((cfg.whole - cfg.weight) * last.v + cfg.weight * raw.v)
                                  \div cfg.whole)
<1>1. /\ cfg.weight \in Int /\ cfg.whole \in Nat \ {0} /\ cfg.whole - cfg.weight \in Int
      /\ last \in Number
  BY DEF TypeOK, Config
<1> DEFINE a == Times(cfg.whole - cfg.weight, last)
           b == Times(cfg.weight, raw)
<1>2. /\ a \in Number /\ b \in Number
      /\ IsFinite(a) <=> IsFinite(last)
      /\ IsFinite(b) <=> IsFinite(raw)
      /\ IsFinite(last) => a = Fin((cfg.whole - cfg.weight) * last.v)
      /\ IsFinite(raw) => b = Fin(cfg.weight * raw.v)
  BY <1>1, TimesKinds
<1>3. /\ Plus(a, b) \in Number
      /\ IsFinite(Plus(a, b)) <=> IsFinite(a) /\ IsFinite(b)
      /\ IsFinite(a) /\ IsFinite(b) => Plus(a, b) = Fin(a.v + b.v)
  BY <1>2, PlusKinds
<1>4. /\ Over(Plus(a, b), cfg.whole) \in Number
      /\ IsFinite(Over(Plus(a, b), cfg.whole)) <=> IsFinite(Plus(a, b))
      /\ IsFinite(Plus(a, b)) =>
           Over(Plus(a, b), cfg.whole) = Fin(Plus(a, b).v \div cfg.whole)
  BY <1>1, <1>3, OverKinds
<1>5. Smoothed(raw) = Over(Plus(a, b), cfg.whole)
  BY DEF Smoothed
<1>6. ASSUME IsFinite(last), IsFinite(raw)
      PROVE  Smoothed(raw) = Fin(((cfg.whole - cfg.weight) * last.v + cfg.weight * raw.v)
                                 \div cfg.whole)
  <2>1. last.v \in Int /\ raw.v \in Int
    BY <1>1, <1>6, NumberKinds
  <2>2. /\ a.v = (cfg.whole - cfg.weight) * last.v /\ b.v = cfg.weight * raw.v
        /\ a.v + b.v \in Int
    BY <1>1, <1>2, <1>6, <2>1, NumberKinds
  <2>3. Plus(a, b).v = (cfg.whole - cfg.weight) * last.v + cfg.weight * raw.v
    BY <1>2, <1>3, <1>6, <2>2, NumberKinds
  <2> QED
    BY <1>2, <1>3, <1>4, <1>5, <1>6, <2>3
<1> QED
  BY <1>2, <1>3, <1>4, <1>5, <1>6

(* The action of a smoothed action is a number.                            *)
LEMMA ScaledIsNumber ==
  ASSUME TypeOK, NEW a \in Number
  PROVE  Scaled(a) \in Number
<1>1. cfg.clip \in Int /\ cfg.scale \in Int
  BY DEF TypeOK, Config
<1>2. Clamp(a, -cfg.clip, cfg.clip) \in Number
  BY <1>1, ClampKinds
<1> QED
  BY <1>1, <1>2, TimesKinds DEF Scaled

(* Types are kept.                                                         *)
LEMMA TypeStep == TypeOK /\ [Next]_vars => TypeOK'
<1> SUFFICES ASSUME TypeOK, [Next]_vars PROVE TypeOK'
  OBVIOUS
<1>1. CASE UNCHANGED vars
  BY <1>1 DEF vars, TypeOK
<1>2. CASE Next
  <2>1. PICK raw \in Raws, reference \in References :
          DryRun(raw, reference) \/ ControlStep(raw, reference)
    BY <1>2 DEF Next
  <2>2. raw \in Number /\ reference \in Number \cup {None}
    BY FilterAssumption
  <2>3. last' \in Number /\ low' \in Int /\ high' \in Int /\ tainted' \in BOOLEAN
    <3>1. Remember(raw)
      BY <2>1 DEF DryRun, ControlStep
    <3>2. Smoothed(raw) \in Number
      BY <2>2, SmoothedKinds
    <3>3. low' \in Int /\ high' \in Int /\ tainted' \in BOOLEAN
      BY <2>2, <3>1, NumberKinds DEF TypeOK, Remember
    <3> QED
      BY <3>1, <3>2, <3>3 DEF Remember
  <2>4. command' \in Number \cup {None} /\ cfg' = cfg
    BY <2>1, <2>2 DEF DryRun, ControlStep, SetMotionCommand, TypeOK
  <2>5. steps' \in -1 .. MaxSteps
    BY <2>1, FilterAssumption DEF DryRun, ControlStep
  <2>6. base' \in Number
    <3>1. Fin(cfg.default) \in Number
      BY NumberKinds DEF TypeOK, Config
    <3> QED
      BY <2>1, <2>4, <3>1 DEF DryRun, ControlStep, Base, TypeOK
  <2>7. target' \in Number \cup {None}
    <3>1. CASE DryRun(raw, reference)
      BY <3>1 DEF DryRun, TypeOK
    <3>2. CASE ControlStep(raw, reference)
      <4>1. Scaled(last') \in Number /\ base' \in Number
        BY <2>3, <2>6, ScaledIsNumber
      <4>2. target' = Plus(Scaled(last'), base')
        BY <3>2 DEF ControlStep
      <4> QED
        BY <4>1, <4>2, PlusKinds
    <3> QED
      BY <2>1, <3>1, <3>2
  <2> QED
    BY <2>3, <2>4, <2>5, <2>6, <2>7 DEF TypeOK
<1> QED
  BY <1>1, <1>2

(* Initially.                                                              *)
LEMMA InitType == Init => TypeOK
<1> SUFFICES ASSUME Init PROVE TypeOK
  OBVIOUS
<1>1. cfg \in Config
  BY FilterAssumption DEF Init
<1>2. Fin(0) \in Number
  BY NumberKinds
<1>3. -1 \in -1 .. MaxSteps
  BY FilterAssumption
<1>4. /\ last \in Number /\ steps \in -1 .. MaxSteps
      /\ command \in Number \cup {None} /\ target \in Number \cup {None}
  BY <1>2, <1>3 DEF Init
<1>5. base \in Number /\ low \in Int /\ high \in Int
  BY <1>2 DEF Init
<1>6. tainted \in BOOLEAN
  BY DEF Init
<1> QED
  BY <1>1, <1>4, <1>5, <1>6 DEF TypeOK

(* Every variable has its type, for every configuration and every raw      *)
(* action, finite or not.                                                  *)
THEOREM TypeCorrect == Spec => []TypeOK
  BY InitType, TypeStep, PTL DEF Spec

-------------------------------------------------------------------------------
(* Safety.                                                                 *)

(* The range of the raw actions so far holds zero and the smoothed action. *)
RangeInv ==
  /\ low <= 0 /\ 0 <= high
  /\ SmoothingStaysInRange

(* It is inductive.                                                        *)
LEMMA RangeStep == TypeOK /\ RangeInv /\ [Next]_vars => RangeInv'
<1> SUFFICES ASSUME TypeOK, RangeInv, [Next]_vars PROVE RangeInv'
  OBVIOUS
<1>1. CASE UNCHANGED vars
  BY <1>1 DEF vars, RangeInv, SmoothingStaysInRange
<1>2. CASE Next
  <2>1. PICK raw \in Raws : Remember(raw) /\ cfg' = cfg
    BY <1>2 DEF Next, DryRun, ControlStep
  <2>2. raw \in Number
    BY FilterAssumption
  <2>3. CASE ~IsFinite(raw)
    BY <2>1, <2>3 DEF Remember, RangeInv, SmoothingStaysInRange
  <2>4. CASE IsFinite(raw)
    <3>1. raw.v \in Int /\ low \in Int /\ high \in Int
      BY <2>2, <2>4, NumberKinds DEF TypeOK
    <3>2. /\ low' = IF raw.v < low THEN raw.v ELSE low
          /\ high' = IF raw.v > high THEN raw.v ELSE high
          /\ tainted' = tainted
          /\ last' = Smoothed(raw)
      BY <2>1, <2>4 DEF Remember
    <3>3. /\ low' \in Int /\ high' \in Int /\ low' <= low /\ high <= high'
          /\ low' <= raw.v /\ raw.v <= high' /\ low' <= 0 /\ 0 <= high'
      BY <3>1, <3>2 DEF RangeInv
    <3>4. ASSUME cfg.weight \in 0 .. cfg.whole, ~tainted
          PROVE  IsFinite(last') /\ low' <= last'.v /\ last'.v <= high'
      <4>1. IsFinite(last) /\ low <= last.v /\ last.v <= high /\ last.v \in Int
        BY <3>4, NumberKinds DEF RangeInv, SmoothingStaysInRange, TypeOK
      <4>2. cfg.weight \in Nat /\ cfg.whole \in Nat \ {0} /\ cfg.weight <= cfg.whole
        BY <3>4 DEF TypeOK, Config
      <4> DEFINE q == ((cfg.whole - cfg.weight) * last.v + cfg.weight * raw.v)
                      \div cfg.whole
      <4>3. last' = Fin(q)
        BY <2>2, <2>4, <3>2, <4>1, SmoothedKinds
      <4>4. q \in Int
        BY <3>1, <4>1, <4>2
      <4>5. low' <= last.v /\ last.v <= high'
        BY <3>1, <3>3, <4>1
      <4>6. low' <= q /\ q <= high'
        BY <3>1, <3>3, <4>1, <4>2, <4>5, MeanStaysInRange
      <4> QED
        BY <4>3, <4>4, <4>6, NumberKinds
    <3> QED
      BY <2>1, <3>2, <3>3, <3>4 DEF RangeInv, SmoothingStaysInRange
  <2> QED
    BY <2>3, <2>4
<1> QED
  BY <1>1, <1>2

(* With action_beta between 0 and 1 smoothing never leaves the range of    *)
(* the raw actions, over any number of steps.                              *)
THEOREM SmoothingInRange == Spec => []SmoothingStaysInRange
<1>1. Init => RangeInv
  BY NumberKinds DEF Init, RangeInv, SmoothingStaysInRange
<1>2. RangeInv => SmoothingStaysInRange
  BY DEF RangeInv
<1> QED
  BY <1>1, <1>2, RangeStep, TypeCorrect, PTL DEF Spec

(* The smoothed action is finite as long as the raw ones are, only a       *)
(* residual action has a base that is not, and a target is always the one  *)
(* of the smoothed action that is remembered: both are written by the same *)
(* control step.                                                           *)
TargetInv ==
  /\ ~tainted => IsFinite(last)
  /\ ~cfg.residual => IsFinite(base)
  /\ steps = -1 => target = None
  /\ target # None => target = Plus(Scaled(last), base)

(* It is inductive.                                                        *)
LEMMA TargetStep == TypeOK /\ TargetInv /\ [Next]_vars => TargetInv'
<1> SUFFICES ASSUME TypeOK, TargetInv, [Next]_vars PROVE TargetInv'
  OBVIOUS
<1>1. CASE UNCHANGED vars
  BY <1>1 DEF vars, TargetInv, Scaled
<1>2. CASE Next
  <2>1. PICK raw \in Raws, reference \in References :
          DryRun(raw, reference) \/ ControlStep(raw, reference)
    BY <1>2 DEF Next
  <2>2. raw \in Number
    BY FilterAssumption
  <2>3. ~tainted' => IsFinite(last')
    <3>1. Remember(raw)
      BY <2>1 DEF DryRun, ControlStep
    <3> QED
      BY <2>2, <3>1, SmoothedKinds DEF Remember, TargetInv
  <2>4. steps' # -1
    BY <2>1 DEF DryRun, ControlStep
  <2>5. target' # None => target' = Plus(Scaled(last), base)'
    <3>1. CASE DryRun(raw, reference)
      BY <3>1 DEF DryRun, TargetInv
    <3>2. CASE ControlStep(raw, reference)
      BY <3>2 DEF ControlStep, Scaled
    <3> QED
      BY <2>1, <3>1, <3>2
  <2>6. ~cfg'.residual => IsFinite(base')
    BY <2>1, NumberKinds DEF DryRun, ControlStep, Base, TargetInv, TypeOK, Config
  <2> QED
    BY <2>3, <2>4, <2>5, <2>6 DEF TargetInv
<1> QED
  BY <1>1, <1>2

(* Initially.                                                              *)
LEMMA InitTarget == Init => TargetInv
  BY NumberKinds DEF Init, TargetInv

(* What a target is made of, given what is remembered.                     *)
LEMMA TargetParts ==
  ASSUME TypeOK, TargetInv, target # None
  PROVE  /\ last = NaN => target = NaN
         /\ last # NaN =>
              LET c == Clamp(last, -cfg.clip, cfg.clip)
              IN  /\ IsFinite(c) /\ c.v \in Int /\ Abs(c.v) <= Abs(cfg.clip)
                  /\ IsFinite(base) => target = Fin(cfg.scale * c.v + base.v)
                  /\ ~IsFinite(base) => target = base
<1> DEFINE c == Clamp(last, -cfg.clip, cfg.clip)
<1>1. /\ cfg.clip \in Int /\ cfg.scale \in Int /\ last \in Number /\ base \in Number
      /\ target = Plus(Scaled(last), base) /\ Scaled(last) = Times(cfg.scale, c)
  BY DEF TypeOK, Config, TargetInv, Scaled
<1>2. /\ c \in Number
      /\ last = NaN => c = NaN
      /\ last # NaN => IsFinite(c) /\ Abs(c.v) <= Abs(cfg.clip)
  BY <1>1, ClampKinds
<1>3. CASE last = NaN
  <2>1. Times(cfg.scale, c) = NaN
    BY <1>2, <1>3, NumberKinds DEF Times
  <2> QED
    BY <1>1, <1>3, <2>1, NumberKinds DEF Plus
<1>4. CASE last # NaN
  <2>1. c.v \in Int /\ cfg.scale * c.v \in Int
    BY <1>1, <1>2, <1>4, NumberKinds
  <2>2. Scaled(last) = Fin(cfg.scale * c.v)
    BY <1>1, <1>2, <1>4, TimesKinds
  <2>3. IsFinite(base) => target = Fin(cfg.scale * c.v + base.v)
    <3>1. \A m \in Int, b \in Number :
            IsFinite(b) => Plus(Fin(m), b) = Fin(m + b.v)
      BY DEF Plus, Fin, IsFinite
    <3> QED
      BY <1>1, <2>1, <2>2, <3>1
  <2>4. ~IsFinite(base) => target = base
    BY <1>1, <2>1, <2>2, NumberKinds DEF Plus
  <2> QED
    BY <1>2, <1>4, <2>1, <2>3, <2>4
<1> QED
  BY <1>3, <1>4

(* A target stays within clip_actions times the joint's scale of its base, *)
(* for every raw action and every reference; it is not a number only if a  *)
(* raw action was not finite, and it is the base itself only if that is a  *)
(* reference that is not finite.                                           *)
THEOREM TargetsWithinReach == Spec => []TargetWithinReach
<1>1. TypeOK /\ TargetInv => TargetWithinReach
  <2> SUFFICES ASSUME TypeOK, TargetInv, target # None
               PROVE  \/ target = NaN /\ tainted
                      \/ cfg.residual /\ ~IsFinite(base) /\ target = base
                      \/ /\ IsFinite(base) /\ IsFinite(target)
                         /\ Abs(target.v - base.v) <= Abs(cfg.clip) * Abs(cfg.scale)
    BY DEF TargetWithinReach
  <2>1. CASE last = NaN
    BY <2>1, TargetParts, NumberKinds DEF TargetInv, TypeOK
  <2>2. CASE last # NaN /\ ~IsFinite(base)
    BY <2>2, TargetParts DEF TargetInv
  <2>3. CASE last # NaN /\ IsFinite(base)
    <3> DEFINE c == Clamp(last, -cfg.clip, cfg.clip)
    <3>1. /\ c.v \in Int /\ Abs(c.v) <= Abs(cfg.clip)
          /\ target = Fin(cfg.scale * c.v + base.v)
      BY <2>3, TargetParts
    <3>2. cfg.clip \in Int /\ cfg.scale \in Int /\ base.v \in Int
      BY <2>3, NumberKinds DEF TypeOK, Config
    <3>3. Abs(cfg.scale * c.v) <= Abs(cfg.clip) * Abs(cfg.scale)
      BY <3>1, <3>2, AbsTimes
    <3>4. cfg.scale * c.v \in Int /\ cfg.scale * c.v + base.v \in Int
      BY <3>1, <3>2
    <3>5. IsFinite(target) /\ target.v = cfg.scale * c.v + base.v
      BY <3>1, <3>4, NumberKinds
    <3>6. target.v - base.v = cfg.scale * c.v
      BY <3>2, <3>4, <3>5
    <3> QED
      BY <2>3, <3>3, <3>5, <3>6
  <2> QED
    BY <2>1, <2>2, <2>3
<1> QED
  BY <1>1, InitTarget, TargetStep, TypeCorrect, PTL DEF Spec

(* The robot is sent the nearest action the clip allows to the one that is *)
(* fed back to the policy.                                                 *)
THEOREM CommandIsNearest == Spec => []CommandIsNearestToMemory
<1>1. TypeOK /\ TargetInv => CommandIsNearestToMemory
  <2> SUFFICES ASSUME TypeOK, TargetInv, target # None, IsFinite(last),
                      IsFinite(base), cfg.clip >= 0
               PROVE  \E a \in -cfg.clip .. cfg.clip :
                        /\ target = Fin(base.v + cfg.scale * a)
                        /\ \A b \in -cfg.clip .. cfg.clip :
                             Abs(last.v - a) <= Abs(last.v - b)
    BY DEF CommandIsNearestToMemory
  <2> DEFINE a == Clamp(last, -cfg.clip, cfg.clip).v
  <2>1. /\ cfg.clip \in Nat /\ cfg.scale \in Int /\ base.v \in Int /\ last \in Number
        /\ last.v \in Int /\ last # NaN
    BY NumberKinds DEF TypeOK, Config
  <2>2. a \in Int /\ target = Fin(cfg.scale * a + base.v)
    BY <2>1, TargetParts
  <2>3. a = IF last.v < -cfg.clip THEN -cfg.clip
            ELSE IF last.v > cfg.clip THEN cfg.clip ELSE last.v
    BY <2>1, NumberKinds DEF Clamp, Below, Above
  <2>4. a \in -cfg.clip .. cfg.clip
    BY <2>1, <2>3
  <2>5. ASSUME NEW b \in -cfg.clip .. cfg.clip
        PROVE  Abs(last.v - a) <= Abs(last.v - b)
    BY <2>1, <2>3 DEF Abs
  <2>6. cfg.scale * a \in Int
    BY <2>1, <2>2
  <2>7. target = Fin(base.v + cfg.scale * a)
    BY <2>1, <2>2, <2>6
  <2> QED
    BY <2>4, <2>5, <2>7
<1> QED
  BY <1>1, InitTarget, TargetStep, TypeCorrect, PTL DEF Spec

(* Once the smoothed action is not finite, no later inference mends it.    *)
THEOREM LostIsLost == Spec => LostForGood
<1>1. TypeOK /\ [Next]_vars => [~IsFinite(last) => ~IsFinite(last')]_vars
  <2> SUFFICES ASSUME TypeOK, [Next]_vars, ~IsFinite(last)
               PROVE  ~IsFinite(last') \/ UNCHANGED vars
    OBVIOUS
  <2>1. CASE UNCHANGED vars
    BY <2>1
  <2>2. CASE Next
    <3>1. PICK raw \in Raws : last' = Smoothed(raw)
      BY <2>2 DEF Next, DryRun, ControlStep, Remember
    <3>2. raw \in Number
      BY FilterAssumption
    <3> QED
      BY <3>1, <3>2, SmoothedKinds
  <2> QED
    BY <2>1, <2>2
<1> QED
  BY <1>1, TypeCorrect, PTL DEF Spec, LostForGood

===============================================================================
