--------------------------- MODULE JointCmdPublisher ---------------------------
(***************************************************************************)
(* The test tool scripts/test_joint_cmd.py: it waits for a joint_state,    *)
(* remembers where the joints are, moves those it has targets for there    *)
(* along a smoothstep, and then holds.                                     *)
(*                                                                         *)
(* Time is counted in periods of the timer from the first tick that finds  *)
(* a joint_state.  Node and timer read the same clock, the system's, which *)
(* may be set.  A position that is published during a motion of duration d *)
(* is in units of 1 / Scale(d), which makes the smoothstep exact.          *)
(***************************************************************************)
EXTENDS Integers, Sequences

CONSTANTS
  Joints,      \* ALL_JOINTS
  OtherNames,  \* names that are not among them
  ArgLists,    \* what the tool may be called with
  States,      \* the joint_state messages hl_motion may publish
  None,        \* an option that is not given; nothing published
  MaxSets      \* bound: how often the clock is set

Names == Joints \cup OtherNames

(* zip(msg.name, msg.position): the names that have a position.            *)
IsPartial(f, S) == DOMAIN f \subseteq S /\ f \in [DOMAIN f -> Int]

(* "preset" is a dictionary, "joints" and "targets" the split lists.       *)
IsArgs(a) ==
  /\ a.preset = None \/ IsPartial(a.preset, Joints)
  /\ a.joints = None \/ a.joints \in Seq(Names)
  /\ a.targets = None \/ a.targets \in Seq(Int)
  /\ a.hold \in BOOLEAN /\ a.zero \in BOOLEAN /\ a.duration \in Int

ASSUME ToolAssumption ==
  /\ \A a \in ArgLists : IsArgs(a)
  /\ \A m \in States : IsPartial(m, Names)
  /\ Joints \cap OtherNames = {}
  /\ MaxSets \in Nat
  /\ None \notin [Joints -> Int]

VARIABLES
  args,      \* the options
  proc,      \* "parsing", "spinning", "exited" or "threw"
  target,    \* _target_map
  current,   \* _current_pos
  received,  \* _current_received
  start,     \* _start_pos
  started,   \* _start_time is set
  done,      \* _done
  sent,      \* the last joint_cmd
  clock,     \* the system's clock, since _start_time
  next,      \* when the timer is due
  expired,   \* the timer was found to be due and is to be called
  sets,      \* how often the clock was set
  raced      \* history: it was set back while a tick was overdue, or in it

nodeVars == <<args, target>>
moveVars == <<current, received, start, started, done, sent>>
timeVars == <<clock, next, expired, sets, raced>>
vars == <<proc, nodeVars, moveVars, timeVars>>

Empty == [n \in {} |-> 0]

Init ==
  /\ args \in ArgLists
  /\ proc = "parsing"
  /\ target = Empty
  /\ current = Empty /\ received = FALSE
  /\ start = Empty /\ started = FALSE
  /\ done = FALSE
  /\ sent = None
  /\ clock = 0 /\ next = 0 /\ expired = FALSE
  /\ sets = 0 /\ raced = FALSE

-------------------------------------------------------------------------------
(* main.                                                                   *)

InSeq(s) == {s[i] : i \in DOMAIN s}

(* dict(zip(names, targets)): the last of equal names counts.              *)
Zip(names, targets) ==
  [n \in InSeq(names) |->
     targets[CHOOSE i \in DOMAIN names :
               names[i] = n /\ \A j \in DOMAIN names : names[j] = n => j <= i]]

TargetMap ==
  IF args.preset # None THEN args.preset
  ELSE IF args.joints # None THEN Zip(args.joints, args.targets)
  ELSE Empty

(* Usage errors, and nothing to do.                                        *)
Refused ==
  /\ args.preset = None
  /\ IF args.joints = None THEN ~args.hold /\ ~args.zero
     ELSE args.targets = None \/ Len(args.joints) # Len(args.targets)

Main ==
  /\ proc = "parsing"
  /\ IF Refused
     THEN proc' = "exited" /\ UNCHANGED target
     ELSE /\ proc' = "spinning"
          /\ target' = TargetMap
  /\ UNCHANGED <<args, moveVars, timeVars>>

(* Ctrl-C.                                                                 *)
Interrupt ==
  /\ proc = "spinning"
  /\ proc' = "exited"
  /\ UNCHANGED <<nodeVars, moveVars, timeVars>>

-------------------------------------------------------------------------------
(* The clock and the timer, which is not due again before the clock has    *)
(* come past the time of the last call.                                    *)

(* Bound: time is of no interest before the start, nor long after the end; *)
(* whenever the clock is set it gets two more periods, for the timer to be *)
(* due once more.                                                          *)
LastTime == args.duration + 3 + 2 * sets

ClockRuns ==
  /\ proc = "spinning" /\ started
  /\ clock < LastTime
  /\ clock' = clock + 1
  /\ UNCHANGED <<proc, nodeVars, moveVars, next, expired, sets, raced>>

(* Values the clock may be set to; farther away is no different.           *)
Times == -args.duration - 1 .. args.duration + 1

ClockIsSet(t) ==
  /\ proc = "spinning" /\ started
  /\ sets < MaxSets
  /\ sets' = sets + 1
  /\ clock' = t
  /\ raced' = (raced \/ (t < clock /\ (expired \/ clock > next)))
  /\ UNCHANGED <<proc, nodeVars, moveVars, next, expired>>

BugSteadyTimer == TRUE

TimerIsDue == started => clock >= next

TimerExpires ==
  /\ proc = "spinning"
  /\ ~expired
  /\ TimerIsDue
  /\ expired' = TRUE
  /\ UNCHANGED <<proc, nodeVars, moveVars, clock, next, sets, raced>>

CallTimer ==
  /\ proc = "spinning"
  /\ expired
  /\ expired' = FALSE
  /\ UNCHANGED nodeVars

(* The timer is due again a period later, or now if that has passed.       *)
NextCall == IF next + 1 < clock THEN clock ELSE next + 1

(* _tick reads the clock after the timer was called: no period passes in   *)
(* between, or one does, or the clock is set (as it is to a callback that  *)
(* takes still longer).  The first tick reads it twice; set before the     *)
(* first reading, from which time is counted, the timer is due elsewhere.  *)
ReadClock ==
  \/ /\ clock' \in IF clock < LastTime THEN {clock, clock + 1} ELSE {clock}
     /\ next' = NextCall
     /\ UNCHANGED <<sets, raced>>
  \/ /\ sets < MaxSets
     /\ sets' = sets + 1
     /\ clock' \in Times
     /\ next' \in IF started THEN {NextCall} ELSE Times
     /\ raced' = (raced \/ clock' < clock)

-------------------------------------------------------------------------------
(* _js_cb.                                                                 *)
JointState(m) ==
  /\ proc = "spinning"
  /\ current' = [n \in DOMAIN current \cup DOMAIN m |->
                   IF n \in DOMAIN m THEN m[n] ELSE current[n]]
  /\ received' = TRUE
  /\ UNCHANGED <<proc, nodeVars, start, started, done, sent, timeVars>>

Value(map, name) == IF name \in DOMAIN map THEN map[name] ELSE 0

-------------------------------------------------------------------------------
(* _tick.                                                                  *)

TickWaiting ==
  /\ CallTimer
  /\ ~received
  /\ UNCHANGED <<proc, moveVars, clock, next, sets, raced>>

BugStartFromZero == started' = TRUE /\ start' = [n \in DOMAIN target |-> 0]

BugRestart ==
  started' = TRUE /\ start' = [n \in DOMAIN target |-> Value(current, n)]

(* The first tick takes a snapshot of where the joints are.                *)
Snapshot ==
  /\ started' = TRUE
  /\ start' = IF started THEN start
              ELSE [n \in DOMAIN target |-> Value(current, n)]

(* Published positions are in units of 1 / Scale(d).                       *)
Scale(d) == IF d = 0 THEN 1 ELSE d * d * d

BugCubic(e, d) == e * e * (3 * d + 2 * e)

(* t * t * (3 - 2 * t) with t = e / d.                                     *)
Smoothstep(e, d) == e * e * (3 * d - 2 * e)

(* What a joint without a target is sent: where it is, or zero.            *)
Stay(n) == Scale(args.duration) * Value(current, n)

Hold == [n \in Joints |-> Stay(n)]

AtTarget ==
  [n \in Joints |-> IF n \in DOMAIN target
                    THEN Scale(args.duration) * target[n] ELSE Stay(n)]

Between ==
  [n \in Joints |->
     IF n \in DOMAIN target
     THEN Scale(args.duration) * start'[n]
          + (target[n] - start'[n]) * Smoothstep(clock', args.duration)
     ELSE Stay(n)]

BugReachedByEquality == clock' = args.duration

Reached == clock' >= args.duration

BugPublishMeasured(positions) ==
  sent' = [n \in Joints \cap DOMAIN current |-> positions[n]]

Publish(positions) == sent' = positions

TickFixed ==
  /\ CallTimer
  /\ received
  /\ args.zero \/ args.hold
  /\ ReadClock
  /\ Snapshot
  /\ Publish(IF args.zero THEN [n \in Joints |-> 0] ELSE Hold)
  /\ UNCHANGED <<proc, current, received, done>>

TickReached ==
  /\ CallTimer
  /\ received
  /\ ~args.zero /\ ~args.hold
  /\ ReadClock
  /\ Reached
  /\ Snapshot
  /\ Publish(AtTarget)
  /\ done' = TRUE
  /\ UNCHANGED <<proc, current, received>>

TickMoving ==
  /\ CallTimer
  /\ received
  /\ ~args.zero /\ ~args.hold
  /\ ReadClock
  /\ ~Reached
  /\ Snapshot
  /\ IF args.duration = 0   \* an exception: division by zero
     THEN proc' = "threw" /\ UNCHANGED sent
     ELSE Publish(Between) /\ UNCHANGED proc
  /\ UNCHANGED <<current, received, done>>

Tick == TickWaiting \/ TickFixed \/ TickReached \/ TickMoving

Next ==
  \/ Main
  \/ Interrupt
  \/ ClockRuns
  \/ \E t \in Times : ClockIsSet(t)
  \/ TimerExpires
  \/ \E m \in States : JointState(m)
  \/ Tick

Spec == Init /\ [][Next]_vars

(* Time goes on, spin keeps dispatching, and hl_motion keeps publishing.   *)
Fairness ==
  /\ WF_vars(Main)
  /\ WF_vars(ClockRuns)
  /\ WF_vars(TimerExpires)
  /\ WF_vars(Tick)
  /\ WF_vars(\E m \in States : JointState(m))

FairSpec == Spec /\ Fairness

-------------------------------------------------------------------------------
(* Types.                                                                  *)

(* Every variable has its type.                                            *)
TypeOK ==
  /\ IsArgs(args)
  /\ proc \in {"parsing", "spinning", "exited", "threw"}
  /\ IsPartial(target, Names)
  /\ IsPartial(current, Names) /\ received \in BOOLEAN
  /\ IsPartial(start, Names) /\ started \in BOOLEAN /\ done \in BOOLEAN
  /\ sent \in [Joints -> Int] \cup {None}
  /\ clock \in Int /\ next \in Int /\ expired \in BOOLEAN
  /\ sets \in 0 .. MaxSets /\ raced \in BOOLEAN

-------------------------------------------------------------------------------
(* Properties.                                                             *)

Moving == proc # "parsing" /\ ~args.zero /\ ~args.hold

Commanded == DOMAIN target \cap Joints

Goal(n) == Scale(args.duration) * target[n]

Arrived == sent # None /\ \A n \in Commanded : sent[n] = Goal(n)

Abs(k) == IF k < 0 THEN -k ELSE k

(* A joint is never sent anywhere but between its start and its target,    *)
(* and never past it, however the clock is set, for the timer waits on the *)
(* same clock.  What can make the elapsed time negative, which then        *)
(* extrapolates the smoothstep or divides by zero, is a clock set back     *)
(* while a tick is overdue, or within the callback before it is read: that *)
(* is the race kept in "raced" (_tick).                                    *)
StaysBetween ==
  Moving /\ ~raced =>
    /\ proc # "threw"
    /\ sent # None =>
         \A n \in Commanded :
           LET s == Scale(args.duration) * start[n]
           IN  \/ s <= sent[n] /\ sent[n] <= Goal(n)
               \/ Goal(n) <= sent[n] /\ sent[n] <= s

(* The move is monotone: no tick sends a joint further from its target     *)
(* than the tick before, whatever is measured on the way (_tick).          *)
NeverBacksOff ==
  [][Moving /\ ~raced' /\ sent # None =>
       \A n \in Commanded : Abs(Goal(n) - sent'[n]) <= Abs(Goal(n) - sent[n])]_vars

(* The first command of a move leaves every joint that was measured where  *)
(* it is, unless time passes within the first callback, between the two    *)
(* readings of the clock: there is no jump to begin with (the snapshot in  *)
(* _tick).                                                                 *)
NoJumpAtStart ==
  [][Moving /\ sent = None /\ sent' # None /\ args.duration > 0 /\ clock' = 0 =>
       \A n \in Joints \cap DOMAIN current :
         sent'[n] = Scale(args.duration) * current[n]]_vars

(* A target reached is kept: after "Target reached" the clock may be set   *)
(* back and no command leaves the target again, the race of StaysBetween   *)
(* aside (_tick).                                                          *)
TargetIsKept ==
  done /\ ~raced => Arrived

(* Every move comes to its end, unless the tool ends first: whatever the   *)
(* clock is set to, and also after the race (_tick).                       *)
ReachesTarget ==
  Moving ~> proc # "spinning" \/ Arrived

===============================================================================
