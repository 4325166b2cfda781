-------------------------------- MODULE Launch --------------------------------
(***************************************************************************)
(* The script launch/run.sh, run again and again on one working copy: it   *)
(* builds the node if there is no binary, changes to the project's         *)
(* directory and starts the node with a configuration file.                *)
(*                                                                         *)
(* A configuration file is the directory it lies in.  "set -e" ends the    *)
(* script at the first command that fails, with all that was done so far.  *)
(***************************************************************************)
EXTENDS Naturals

CONSTANTS
  Dirs,      \* directories; one is the project's, one its build directory
  Project, Build,
  Relative,  \* an argument relative to the working directory
  NoArg,     \* no argument
  None       \* no configuration file opened

ASSUME DirsAssumption ==
  /\ {Project, Build} \subseteq Dirs
  /\ Relative \notin Dirs /\ NoArg \notin Dirs /\ None \notin Dirs

(* An absolute argument is the directory it names.                         *)
ArgValues == Dirs \cup {Relative, NoArg}

VARIABLES
  step,    \* where the script is; "idle" if it does not run
  caller,  \* the directory it was called from
  arg,     \* its argument
  cwd,     \* its working directory
  binary,  \* build/rl_deploy_node: "none", "whole" or "broken"
  cache,   \* build/CMakeCache.txt: "none", "here", or for a copy "elsewhere"
  opened   \* the configuration file the node was given

callVars == <<caller, arg>>
buildVars == <<binary, cache>>
vars == <<step, callVars, cwd, buildVars, opened>>

(* The committed build tree has a binary, and the cache of another place.  *)
Init ==
  /\ step = "idle"
  /\ caller \in Dirs /\ arg \in ArgValues
  /\ cwd = caller
  /\ binary \in {"none", "whole"}
  /\ cache \in {"none", "elsewhere"}
  /\ opened = None

-------------------------------------------------------------------------------
(* Someone runs the script, or cleans up.                                  *)

Call(d, a) ==
  /\ step = "idle"
  /\ step' = "setup"
  /\ caller' = d /\ arg' = a
  /\ cwd' = d
  /\ opened' = None
  /\ UNCHANGED buildVars

RemoveBinary ==
  /\ step = "idle" /\ binary # "none"
  /\ binary' = "none"
  /\ UNCHANGED <<step, callVars, cwd, cache, opened>>

RemoveBuild ==
  /\ step = "idle"
  /\ binary' = "none" /\ cache' = "none"
  /\ UNCHANGED <<step, callVars, cwd, opened>>

-------------------------------------------------------------------------------
(* The script.                                                             *)

(* A command fails, or the script is interrupted.                          *)
Fail ==
  /\ step \notin {"idle", "running"}
  /\ step' = "idle"
  /\ UNCHANGED <<callVars, cwd, buildVars, opened>>

(* The power fails while the linker writes.                                *)
PowerFails ==
  /\ step = "make"
  /\ step' = "idle"
  /\ binary' = "broken"
  /\ UNCHANGED <<callVars, cwd, cache, opened>>

BugTestCache == cache = "none"

NeedsBuild == binary = "none"

SourceSetup ==
  /\ step = "setup"
  /\ step' = IF NeedsBuild THEN "configure" ELSE "launch"
  /\ UNCHANGED <<callVars, cwd, buildVars, opened>>

(* cd, and cmake, which refuses the cache of another source directory.     *)
RunCMake ==
  /\ step = "configure"
  /\ cwd' = Build
  /\ IF cache = "elsewhere"
     THEN step' = "idle" /\ UNCHANGED cache
     ELSE step' = "make" /\ cache' = "here"
  /\ UNCHANGED <<callVars, binary, opened>>

(* make, which leaves no binary behind when it fails or is interrupted     *)
(* (.DELETE_ON_ERROR); then cd.                                            *)
RunMake ==
  /\ step = "make"
  /\ step' = "launch"
  /\ binary' = "whole"
  /\ cwd' = Project
  /\ UNCHANGED <<callVars, cache, opened>>

BugStayInCwd == UNCHANGED cwd
ChangeDir == cwd' = Project

(* A relative name is resolved by the node, in its working directory.      *)
Resolve(dir) ==
  IF arg = NoArg THEN Project ELSE IF arg = Relative THEN dir ELSE arg

StartNode ==
  /\ step = "launch"
  /\ step' = IF binary = "whole" THEN "running" ELSE "idle"
  /\ ChangeDir
  /\ opened' = Resolve(cwd')
  /\ UNCHANGED <<callVars, buildVars>>

NodeEnds ==
  /\ step = "running"
  /\ step' = "idle"
  /\ UNCHANGED <<callVars, cwd, buildVars, opened>>

Steps == SourceSetup \/ RunCMake \/ RunMake \/ StartNode

Next ==
  \/ \E d \in Dirs, a \in ArgValues : Call(d, a)
  \/ RemoveBinary \/ RemoveBuild
  \/ Fail \/ PowerFails \/ Steps \/ NodeEnds

Spec == Init /\ [][Next]_vars

(* The script is called again whenever it has ended, and no command of it  *)
(* fails every time.                                                       *)
Fairness ==
  /\ WF_vars(\E d \in Dirs, a \in ArgValues : Call(d, a))
  /\ SF_vars(SourceSetup) /\ SF_vars(RunCMake)
  /\ SF_vars(RunMake) /\ SF_vars(StartNode)

FairSpec == Spec /\ Fairness

-------------------------------------------------------------------------------
(* Types.                                                                  *)

(* Every variable has its type.                                            *)
TypeOK ==
  /\ step \in {"idle", "setup", "configure", "make", "launch", "running"}
  /\ caller \in Dirs /\ arg \in ArgValues /\ cwd \in Dirs
  /\ binary \in {"none", "whole", "broken"}
  /\ cache \in {"none", "here", "elsewhere"}
  /\ opened \in Dirs \cup {None}

-------------------------------------------------------------------------------
(* Properties.                                                             *)

(* The node runs where the relative model_path of its configuration is     *)
(* meant, whether or not it was built in this run.  A file named           *)
(* absolutely, and the default one, are found from wherever the script was *)
(* called; one named relatively if it was called as its usage shows,       *)
(* "bash launch/run.sh path", and from elsewhere nothing is promised (the  *)
(* two cd and the expansion of CONFIG).                                    *)
RunsAtHome ==
  step = "running" =>
    /\ cwd = Project
    /\ arg = NoArg => opened = Project
    /\ arg = Relative /\ caller = Project => opened = caller
    /\ arg \in Dirs => opened = arg

(* A failed or interrupted build leaves nothing that blocks the next one:  *)
(* called again and again, the script starts the node in the end.  Two     *)
(* things stop it every time, until someone removes them: the cache of     *)
(* another place, and a binary that was cut short, for the test asks only  *)
(* whether there is one ("set -e", the test for the binary).               *)
StartsInTheEnd ==
  []<>(step = "running" \/ binary = "broken" \/ (binary = "none" /\ cache = "elsewhere"))

===============================================================================
