-------------------------- MODULE MCJointCmdPublisher --------------------------
(* Instances of JointCmdPublisher for TLC. *)
EXTENDS JointCmdPublisher

CONSTANTS elbow, wrist, typo

MCJoints == {elbow, wrist}
MCOthers == {typo}

NoArgs == [preset |-> None, joints |-> None, targets |-> None, hold |-> FALSE,
           zero |-> FALSE, duration |-> 2]

At(e, w) == [j \in MCJoints |-> IF j = elbow THEN e ELSE w]
Only(j, p) == [n \in {j} |-> p]

(* Moves of one joint, both, one with a name that is unknown.              *)
MCMoves ==
  {[NoArgs EXCEPT !.preset = Only(elbow, 2), !.duration = d] : d \in {-1, 0, 2, 3}}
  \cup {[NoArgs EXCEPT !.joints = <<elbow, wrist, elbow>>, !.targets = <<5, 1, -1>>],
        [NoArgs EXCEPT !.joints = <<typo, wrist>>, !.targets = <<1, 3>>]}

(* All else: usage errors, and --hold and --zero with and without targets. *)
MCOptions ==
  {NoArgs, [NoArgs EXCEPT !.joints = <<elbow>>],
   [NoArgs EXCEPT !.joints = <<elbow, wrist>>, !.targets = <<1>>],
   [NoArgs EXCEPT !.zero = TRUE, !.hold = TRUE],
   [NoArgs EXCEPT !.hold = TRUE, !.preset = Only(elbow, 2)]}

MCArgs == MCMoves \cup MCOptions

(* Joints that move, and messages that leave one out.                      *)
MCStates == {At(0, 0), Only(elbow, 3), Only(wrist, 1)}

===============================================================================
