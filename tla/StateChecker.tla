------------------------------ MODULE StateChecker ------------------------------
(***************************************************************************)
(* The diagnostic tool scripts/check_state.py: it counts the messages on   *)
(* /motion/joint_state and /motion/imu and prints their mean rates.        *)
(*                                                                         *)
(* Time is counted from the start of the tool, in fractions of a second.   *)
(* time.time() and the timer read the same clock, which may be set.        *)
(***************************************************************************)
EXTENDS Integers

CONSTANTS
  Rates,     \* --rate: fractions [num, den]
  Second,    \* units of time in a second
  NoLine,    \* nothing printed
  MaxTime,   \* bound: time on the clock
  MaxCount   \* bound: messages of a topic

ASSUME CheckerAssumption ==
  /\ Rates \subseteq [num: Int, den: Nat \ {0}]
  /\ \A r \in Rates : r.num > 0 => (Second * r.den) % r.num = 0
  /\ Second \in Nat \ {0} /\ MaxTime \in Nat /\ MaxCount \in Nat

Topics == {"joint_state", "imu"}

VARIABLES
  rate,     \* --rate
  proc,     \* "starting", "spinning", "exited" or "threw"
  count,    \* _js_count and _imu_count
  clock,    \* time since _start_time
  next,     \* when the timer is due
  expired,  \* it was found to be due, and _print_stats is to be called
  printed,  \* the last line printed: uptime, and per topic messages and rate
  wasSet    \* the clock was set

checkerVars == <<rate, proc, count, clock, next, expired, printed, wasSet>>

CheckerInit ==
  /\ rate \in Rates
  /\ proc = "starting"
  /\ count = [t \in Topics |-> 0]
  /\ clock = 0 /\ next = 0 /\ expired = FALSE
  /\ printed = NoLine
  /\ wasSet = FALSE

-------------------------------------------------------------------------------
(* The clock: bounded by MaxTime, and set once, back or forth.             *)
ClockRuns ==
  /\ proc = "spinning" /\ clock < MaxTime
  /\ clock' = clock + 1
  /\ UNCHANGED <<rate, proc, count, next, expired, printed, wasSet>>

ClockIsSet ==
  /\ proc = "spinning" /\ ~wasSet
  /\ clock' \in -1 .. MaxTime
  /\ wasSet' = TRUE
  /\ UNCHANGED <<rate, proc, count, next, expired, printed>>

-------------------------------------------------------------------------------
(* 1.0 / print_rate.                                                       *)
Period == (Second * rate.den) \div rate.num

(* __init__: a rate of zero is a division by zero, and for a negative      *)
(* period there is no timer; both throw before spin.                       *)
Start ==
  /\ proc = "starting"
  /\ IF rate.num <= 0
     THEN proc' = "threw" /\ UNCHANGED next
     ELSE proc' = "spinning" /\ next' = Period
  /\ UNCHANGED <<rate, count, clock, expired, printed, wasSet>>

(* _js_cb and _imu_cb.                                                     *)
Message(t) ==
  /\ proc = "spinning" /\ count[t] < MaxCount
  /\ count' = [count EXCEPT ![t] = @ + 1]
  /\ UNCHANGED <<rate, proc, clock, next, expired, printed, wasSet>>

BugAnyTime == TRUE

Measurable == clock > 0

BugSinceLast(t) == [n |-> count[t], of |-> Period]

(* Messages per unit of time, as a fraction.                               *)
Hz(t) == IF Measurable THEN [n |-> count[t], of |-> clock] ELSE [n |-> 0, of |-> 1]

TimerExpires ==
  /\ proc = "spinning" /\ ~expired /\ clock >= next
  /\ expired' = TRUE
  /\ UNCHANGED <<rate, proc, count, clock, next, printed, wasSet>>

(* The timer skips the times that have passed.                             *)
Skipped == IF clock <= next + Period THEN 1 ELSE 1 + (clock - next - 1) \div Period

(* _print_stats.                                                           *)
PrintStats ==
  /\ proc = "spinning" /\ expired
  /\ expired' = FALSE
  /\ next' = next + Skipped * Period
  /\ IF Measurable /\ clock = 0   \* an exception: division by zero
     THEN proc' = "threw" /\ UNCHANGED printed
     ELSE /\ printed' = [at |-> clock, hz |-> [t \in Topics |-> Hz(t)]]
          /\ UNCHANGED proc
  /\ UNCHANGED <<rate, count, clock, wasSet>>

(* Ctrl-C.                                                                 *)
Interrupt ==
  /\ proc = "spinning"
  /\ proc' = "exited"
  /\ UNCHANGED <<rate, count, clock, next, expired, printed, wasSet>>

CheckerNext ==
  \/ Start \/ Interrupt
  \/ ClockRuns \/ ClockIsSet \/ TimerExpires \/ PrintStats
  \/ \E t \in Topics : Message(t)

CheckerSpec == CheckerInit /\ [][CheckerNext]_checkerVars

-------------------------------------------------------------------------------
(* Properties.                                                             *)

(* Whatever the clock is set to, also between the timer's waking up and    *)
(* its callback, the tool survives and prints no negative rate; only a     *)
(* --rate that is not positive makes it throw (the test of elapsed).       *)
StatsSurviveTheClock ==
  /\ proc = "threw" => rate.num <= 0
  /\ printed # NoLine => \A t \in Topics : printed.hz[t].n >= 0 /\ printed.hz[t].of > 0

(* A topic that falls silent shows: its rate is lower on every later line. *)
SilenceShows ==
  [][\A t \in Topics :
       LET old == printed.hz[t]
           new == printed'.hz[t]
       IN  /\ printed # NoLine /\ printed' # printed
           /\ old.n > 0 /\ new.n = old.n /\ printed'.at > printed.at
           => new.n * old.of < old.n * new.of]_checkerVars

===============================================================================
