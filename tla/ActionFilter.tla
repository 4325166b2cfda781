----------------------------- MODULE ActionFilter -----------------------------
(***************************************************************************)
(* What DataConverter does to the numbers of an action: processAction      *)
(* blends the raw action into the last one, clips and scales it, and       *)
(* computePdTarget adds the result to a base.  All joints are treated      *)
(* alike and apart from each other; the module follows one of them.        *)
(*                                                                         *)
(* A number is a whole number of some unit, infinite, or not a number, and *)
(* arithmetic on the latter two is IEEE's.  action_beta is weight / whole. *)
(* Quotients round down, where floats round to nearest; the instances      *)
(* choose their units such that every quotient is exact.                   *)
(***************************************************************************)
EXTENDS Integers

CONSTANTS
  Configs,     \* action_beta, clip_actions, action_scales[i], default_dof_pos[i]
  Raws,        \* what the network may return as an action
  References,  \* ... as the joint's reference position; None: no reference
  None,        \* no reference, no target
  MaxSteps     \* bound: control steps

Config == [weight: Int, whole: Nat \ {0}, clip: Int, scale: Int,
           residual: BOOLEAN, default: Int]

Fin(n) == [kind |-> "finite", v |-> n]
Inf(sign) == [kind |-> "inf", v |-> sign]
NaN == [kind |-> "nan", v |-> 0]

Number == [kind: {"finite"}, v: Int] \cup {Inf(1), Inf(-1), NaN}

IsFinite(a) == a.kind = "finite"

ASSUME FilterAssumption ==
  /\ Configs \subseteq Config
  /\ Raws \subseteq Number
  /\ References \subseteq Number \cup {None}
  /\ MaxSteps \in Nat
  /\ None \notin Number

-------------------------------------------------------------------------------
(* IEEE arithmetic, as far as it is used.                                  *)

Sign(n) == IF n > 0 THEN 1 ELSE -1

(* A finite factor times a number; zero times infinity is not a number.    *)
Times(k, a) ==
  IF IsFinite(a) THEN Fin(k * a.v)
  ELSE IF a = NaN \/ k = 0 THEN NaN
  ELSE Inf(Sign(k) * a.v)

Plus(a, b) ==
  IF IsFinite(a) /\ IsFinite(b) THEN Fin(a.v + b.v)
  ELSE IF IsFinite(a) THEN b
  ELSE IF IsFinite(b) \/ a = b THEN a
  ELSE NaN

(* A number over a positive finite one.                                    *)
Over(a, d) == IF IsFinite(a) THEN Fin(a.v \div d) ELSE a

(* Comparisons with NaN are false.                                         *)
Below(a, n) == IF IsFinite(a) THEN a.v < n ELSE a = Inf(-1)
Above(a, n) == IF IsFinite(a) THEN a.v > n ELSE a = Inf(1)

BugNoClip(a, lo, hi) == a

(* std::clamp of the release build, which does not ask for lo <= hi.       *)
Clamp(a, lo, hi) ==
  IF Below(a, lo) THEN Fin(lo) ELSE IF Above(a, hi) THEN Fin(hi) ELSE a

-------------------------------------------------------------------------------
VARIABLES
  cfg,       \* _cfg
  last,      \* _last_action
  command,   \* _command.joint_pos, or None
  target,    \* the last PD target, or None
  base,      \* what it was added to
  steps,     \* control steps taken; -1 before the dry run
  low, high, \* history: the range of zero and all finite raw actions
  tainted    \* history: a raw action was not finite

vars == <<cfg, last, command, target, base, steps, low, high, tainted>>

BugInit ==
  /\ cfg \in Configs
  /\ last = None
  /\ command = None /\ target = None
  /\ base = Fin(0) /\ steps = -1
  /\ low = 0 /\ high = 0 /\ tainted = FALSE

Init ==
  /\ cfg \in Configs
  /\ last = Fin(0)
  /\ command = None
  /\ target = None
  /\ base = Fin(0)
  /\ steps = -1
  /\ low = 0 /\ high = 0
  /\ tainted = FALSE

BugAddUnweighted(raw) ==
  Over(Plus(Times(cfg.whole, last), Times(cfg.weight, raw)), cfg.whole)

BugSkipMemory(raw) ==
  IF cfg.weight = cfg.whole THEN raw
  ELSE Over(Plus(Times(cfg.whole - cfg.weight, last), Times(cfg.weight, raw)),
            cfg.whole)

(* The raw action blended into the last smoothed one.                      *)
Smoothed(raw) ==
  Over(Plus(Times(cfg.whole - cfg.weight, last), Times(cfg.weight, raw)),
       cfg.whole)

BugScaleFirst(smoothed) ==
  Clamp(Times(cfg.scale, smoothed), -cfg.clip, cfg.clip)

(* processAction returns this; it is not what it remembers.                *)
Scaled(smoothed) ==
  Times(cfg.scale, Clamp(smoothed, -cfg.clip, cfg.clip))

Remember(raw) ==
  /\ last' = Smoothed(raw)
  /\ IF IsFinite(raw)
     THEN /\ low' = IF raw.v < low THEN raw.v ELSE low
          /\ high' = IF raw.v > high THEN raw.v ELSE high
          /\ UNCHANGED tainted
     ELSE tainted' = TRUE /\ UNCHANGED <<low, high>>

SetMotionCommand(reference) ==
  command' = IF reference = None THEN command ELSE reference

(* initializeMotion.                                                       *)
DryRun(raw, reference) ==
  /\ steps = -1
  /\ steps' = 0
  /\ SetMotionCommand(reference)
  /\ Remember(raw)
  /\ UNCHANGED <<cfg, target, base>>

(* computePdTarget adds to the reference of this step or to the default;   *)
(* the reference is what the network returned, unclipped.                  *)
Base ==
  IF cfg.residual /\ command' # None THEN command' ELSE Fin(cfg.default)

(* A control step, from inference to the target.                           *)
ControlStep(raw, reference) ==
  /\ steps \in 0 .. MaxSteps - 1
  /\ steps' = steps + 1
  /\ SetMotionCommand(reference)
  /\ Remember(raw)
  /\ base' = Base
  /\ target' = Plus(Scaled(last'), base')
  /\ UNCHANGED cfg

Next ==
  \E raw \in Raws, reference \in References :
    DryRun(raw, reference) \/ ControlStep(raw, reference)

Spec == Init /\ [][Next]_vars

-------------------------------------------------------------------------------
(* Types.                                                                  *)

(* Every variable has its type.                                            *)
TypeOK ==
  /\ cfg \in Config
  /\ last \in Number
  /\ command \in Number \cup {None}
  /\ target \in Number \cup {None}
  /\ base \in Number
  /\ steps \in -1 .. MaxSteps
  /\ low \in Int /\ high \in Int
  /\ tainted \in BOOLEAN

-------------------------------------------------------------------------------
(* Properties.                                                             *)

Abs(n) == IF n < 0 THEN -n ELSE n

(* With action_beta between 0 and 1 the smoothed action never leaves the   *)
(* range of the raw actions so far: the blend cannot overshoot or drift    *)
(* over any number of steps (processAction).                               *)
SmoothingStaysInRange ==
  cfg.weight \in 0 .. cfg.whole /\ ~tainted =>
    IsFinite(last) /\ low <= last.v /\ last.v <= high

(* No target is further from its base than clip_actions times the joint's  *)
(* scale, whatever the network returned and however clip_actions is        *)
(* configured (processAction, computePdTarget).  There are two exceptions. *)
(* A target that is not a number takes a raw action that was not finite,   *)
(* now or at any earlier step.  And a residual action is added to what the *)
(* network returned as reference: if that is not finite, it goes to the    *)
(* joint as it is, and no clip stops it.                                   *)
TargetWithinReach ==
  target # None =>
    \/ target = NaN /\ tainted
    \/ cfg.residual /\ ~IsFinite(base) /\ target = base
    \/ /\ IsFinite(base) /\ IsFinite(target)
       /\ Abs(target.v - base.v) <= Abs(cfg.clip) * Abs(cfg.scale)

(* Memory and command agree up to the clip: what is fed back to the policy *)
(* is the unclipped action, and the robot was sent the nearest action the  *)
(* clip allows, so a step that returns into the clip returns at once.      *)
(* (A base that is not finite drowns every action.)                        *)
CommandIsNearestToMemory ==
  target # None /\ IsFinite(last) /\ IsFinite(base) /\ cfg.clip >= 0 =>
    \E a \in -cfg.clip .. cfg.clip :
      /\ target = Fin(base.v + cfg.scale * a)
      /\ \A b \in -cfg.clip .. cfg.clip : Abs(last.v - a) <= Abs(last.v - b)

(* A number lost is lost for good: once the smoothed action is infinite or *)
(* not a number no later inference mends it, not even with action_beta 1,  *)
(* where it should not count any more, for 0 * inf is not a number.        *)
LostForGood == [][~IsFinite(last) => ~IsFinite(last')]_vars

===============================================================================
