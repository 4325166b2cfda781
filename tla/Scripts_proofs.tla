----------------------------- MODULE Scripts_proofs -----------------------------
(***************************************************************************)
(* Theorems about the two scripts around the node: Launch, for every set   *)
(* of directories, and StateChecker, for every rate and every clock.       *)
(***************************************************************************)
EXTENDS Launch, StateChecker, TLAPS

-------------------------------------------------------------------------------
(* The launch script.                                                      *)

(* Types are kept.                                                         *)
LEMMA TypeStep == TypeOK /\ [Next]_vars => TypeOK'
<1> SUFFICES ASSUME TypeOK, [Next]_vars PROVE TypeOK'
  OBVIOUS
<1> USE DirsAssumption DEF TypeOK, ArgValues, callVars, buildVars
<1>1. ASSUME NEW d \in Dirs, NEW a \in ArgValues, Call(d, a) PROVE TypeOK'
  BY <1>1 DEF Call
<1>2. CASE RemoveBinary \/ RemoveBuild
  BY <1>2 DEF RemoveBinary, RemoveBuild
<1>3. CASE Fail \/ PowerFails
  BY <1>3 DEF Fail, PowerFails
<1>4. CASE SourceSetup
  BY <1>4 DEF SourceSetup
<1>5. CASE RunCMake
  BY <1>5 DEF RunCMake
<1>6. CASE RunMake
  BY <1>6 DEF RunMake
<1>7. CASE StartNode
  <2>1. cwd' = Project
    BY <1>7 DEF StartNode, ChangeDir
  <2>2. opened' \in Dirs
    BY <1>7, <2>1 DEF StartNode, Resolve
  <2> QED
    BY <1>7, <2>1, <2>2 DEF StartNode
<1>8. CASE NodeEnds
  BY <1>8 DEF NodeEnds
<1>9. CASE UNCHANGED vars
  BY <1>9 DEF vars
<1> QED
  BY <1>1, <1>2, <1>3, <1>4, <1>5, <1>6, <1>7, <1>8, <1>9 DEF Next, Steps

(* Every variable has its type.                                            *)
THEOREM TypeCorrect == Spec => []TypeOK
<1>1. Init => TypeOK
  BY DirsAssumption DEF Init, TypeOK
<1> QED
  BY <1>1, TypeStep, PTL DEF Spec

(* Wherever it was called and whatever was interrupted before, the node    *)
(* runs in the project's directory, with the file that was named, if that  *)
(* was absolutely or from the project's directory, or with the default.    *)
THEOREM NodeRunsAtHome == Spec => []RunsAtHome
<1>1. Init => RunsAtHome
  BY DEF Init, RunsAtHome
<1>2. TypeOK /\ RunsAtHome /\ [Next]_vars => RunsAtHome'
  <2> SUFFICES ASSUME TypeOK, RunsAtHome, [Next]_vars, step' = "running"
               PROVE  /\ cwd' = Project
                      /\ arg' = NoArg => opened' = Project
                      /\ arg' = Relative /\ caller' = Project => opened' = caller'
                      /\ arg' \in Dirs => opened' = arg'
    BY DEF RunsAtHome
  <2>1. CASE StartNode
    <3>1. cwd' = Project /\ arg' = arg /\ caller' = caller /\ opened' = Resolve(Project)
      BY <2>1 DEF StartNode, ChangeDir, callVars
    <3> QED
      BY <3>1, DirsAssumption DEF Resolve
  <2>2. CASE UNCHANGED vars
    BY <2>2 DEF vars, callVars, RunsAtHome
  <2>3. CASE RemoveBinary \/ RemoveBuild
    BY <2>3 DEF RemoveBinary, RemoveBuild
  <2>4. \A d \in Dirs, a \in ArgValues : ~Call(d, a)
    BY DEF Call
  <2>5. ~Fail /\ ~PowerFails /\ ~SourceSetup /\ ~RunCMake /\ ~RunMake /\ ~NodeEnds
    BY DEF Fail, PowerFails, SourceSetup, RunCMake, RunMake, NodeEnds
  <2> QED
    BY <2>1, <2>2, <2>3, <2>4, <2>5 DEF Next, Steps
<1> QED
  BY <1>1, <1>2, TypeCorrect, PTL DEF Spec

-------------------------------------------------------------------------------
(* The state checker.                                                      *)

(* A line that was printed: a rate that is not zero is the number of       *)
(* messages over the uptime of that line.                                  *)
Line == [at: Int, hz: [Topics -> [n: Nat, of: Nat \ {0}]]]

StatsInv ==
  /\ count \in [Topics -> Nat] /\ clock \in Int
  /\ proc = "threw" => rate.num <= 0
  /\ printed # NoLine =>
       /\ printed \in Line
       /\ \A t \in Topics : printed.hz[t].n > 0 => printed.hz[t].of = printed.at

(* What _print_stats prints, whatever the clock shows.                     *)
LEMMA PrintedLine ==
  ASSUME StatsInv, PrintStats
  PROVE  /\ proc' = proc /\ UNCHANGED <<rate, count, clock>>
         /\ printed' = [at |-> clock, hz |-> [t \in Topics |-> Hz(t)]]
         /\ printed' \in Line
         /\ \A t \in Topics :
              printed'.hz[t].n > 0 => printed'.hz[t].of = clock /\ printed'.hz[t].n = count[t]
<1>1. ~(Measurable /\ clock = 0)
  BY DEF Measurable
<1>2. /\ printed' = [at |-> clock, hz |-> [t \in Topics |-> Hz(t)]]
      /\ proc' = proc /\ UNCHANGED <<rate, count, clock>>
  BY <1>1 DEF PrintStats
<1>3. ASSUME NEW t \in Topics
      PROVE  /\ Hz(t) \in [n: Nat, of: Nat \ {0}]
             /\ Hz(t).n > 0 => Hz(t).of = clock /\ Hz(t).n = count[t]
  <2>1. count[t] \in Nat /\ clock \in Int
    BY DEF StatsInv
  <2>2. CASE clock > 0
    BY <2>1, <2>2 DEF Hz, Measurable
  <2>3. CASE ~(clock > 0)
    BY <2>1, <2>3 DEF Hz, Measurable
  <2> QED
    BY <2>2, <2>3
<1>4. clock \in Int
  BY DEF StatsInv
<1> QED
  BY <1>2, <1>3, <1>4 DEF Line

(* The invariant, in every behaviour.                                      *)
LEMMA StatsInvariance == CheckerSpec => []StatsInv
<1>1. CheckerInit => StatsInv
  BY DEF CheckerInit, StatsInv
<1>2. StatsInv /\ [CheckerNext]_checkerVars => StatsInv'
  <2> SUFFICES ASSUME StatsInv, [CheckerNext]_checkerVars PROVE StatsInv'
    OBVIOUS
  <2>1. CASE PrintStats
    BY <2>1, PrintedLine DEF StatsInv
  <2>2. CASE Start
    BY <2>2 DEF Start, StatsInv
  <2>3. CASE ClockRuns \/ TimerExpires \/ Interrupt
    BY <2>3 DEF ClockRuns, TimerExpires, Interrupt, StatsInv
  <2>4. CASE ClockIsSet
    <3>1. clock' \in Int
      BY <2>4, CheckerAssumption DEF ClockIsSet
    <3> QED
      BY <2>4, <3>1 DEF ClockIsSet, StatsInv
  <2>5. ASSUME NEW t \in Topics, Message(t) PROVE StatsInv'
    BY <2>5 DEF Message, StatsInv
  <2>6. CASE UNCHANGED checkerVars
    BY <2>6 DEF checkerVars, StatsInv
  <2> QED
    BY <2>1, <2>2, <2>3, <2>4, <2>5, <2>6 DEF CheckerNext
<1> QED
  BY <1>1, <1>2, PTL DEF CheckerSpec

(* Whatever the clock is set to, and whenever, only a --rate that is not   *)
(* positive makes the tool throw, and every rate it prints is a fraction   *)
(* of numbers that are not negative (the test of elapsed in _print_stats). *)
THEOREM StatsSurvive == CheckerSpec => []StatsSurviveTheClock
<1>1. StatsInv => StatsSurviveTheClock
  BY DEF StatsInv, Line, StatsSurviveTheClock
<1> QED
  BY <1>1, StatsInvariance, PTL

(* A topic that falls silent has a lower rate on every later line.         *)
THEOREM SilenceIsShown == CheckerSpec => SilenceShows
<1> DEFINE Falls(t) ==
             LET old == printed.hz[t]
                 new == printed'.hz[t]
             IN  /\ printed # NoLine /\ printed' # printed
                 /\ old.n > 0 /\ new.n = old.n /\ printed'.at > printed.at
                 => new.n * old.of < old.n * new.of
<1>1. StatsInv /\ [CheckerNext]_checkerVars =>
        [\A t \in Topics : Falls(t)]_checkerVars
  <2> SUFFICES ASSUME StatsInv, CheckerNext, NEW t \in Topics,
                      printed # NoLine, printed' # printed, printed.hz[t].n > 0,
                      printed'.hz[t].n = printed.hz[t].n, printed'.at > printed.at
               PROVE  printed'.hz[t].n * printed.hz[t].of < printed.hz[t].n * printed'.hz[t].of
    OBVIOUS
  <2>1. PrintStats
    BY DEF CheckerNext, Start, Interrupt, ClockRuns,
           ClockIsSet, TimerExpires, Message
  <2>2. printed'.at = clock /\ printed'.hz[t].of = clock
    BY <2>1, PrintedLine
  <2>3. PICK a \in Int, n \in Nat, c \in Int :
          /\ a = printed.at /\ n = printed.hz[t].n /\ c = clock /\ printed.hz[t].of = a
    BY DEF StatsInv, Line
  <2>4. n > 0 /\ a < c => n * a < n * c
    OBVIOUS
  <2> QED
    BY <2>2, <2>3, <2>4
<1> QED
  BY <1>1, StatsInvariance, PTL DEF CheckerSpec, SilenceShows

===============================================================================
