-------------------------- MODULE TransformAlignment --------------------------
(***************************************************************************)
(* The alignment of the reference motion to the start of the clip: class   *)
(* TransformAlignment, Eigen's eulerAngles it relies on, and the anchor    *)
(* part of buildObservation.                                               *)
(*                                                                         *)
(* All of it is exact arithmetic on integers.  An orientation is an        *)
(* integer quaternion, not zero, standing for the unit quaternion of its   *)
(* direction; its rotation matrix is an integer matrix over its squared    *)
(* norm.  An angle is a direction <<cos, sin>> of any positive length, for *)
(* atan2 looks at the direction only.                                      *)
(*                                                                         *)
(* To say that the heading of a clip does not matter, two copies of the    *)
(* clip are played side by side: as it is, and turned and shifted on the   *)
(* ground as a whole.                                                      *)
(***************************************************************************)
EXTENDS Integers

CONSTANTS
  Starts,    \* anchor poses a clip may start with
  Anchors,   \* anchor poses of its later frames
  Turns,     \* turns and shifts of a whole clip on the ground
  Robots,    \* orientations the imu may report
  None       \* nothing observed yet

Quat == [w: Int, x: Int, y: Int, z: Int]
Vector == [x: Int, y: Int, z: Int]
Pose == [q: Quat, p: Vector]
Turn == [w: Int, z: Int, x: Int, y: Int]

ASSUME PosesAssumption ==
  /\ Starts \subseteq Pose /\ Anchors \subseteq Pose /\ Robots \subseteq Quat
  /\ Turns \subseteq Turn

VARIABLES
  override,   \* override_robot_anchor_pos
  turn,       \* how the second copy of the clip is turned
  start,      \* the anchor pose of the first frame
  anchor,     \* the anchor pose in _command
  bases,      \* _init_align, for the clip and for its turned copy
  observed    \* the anchor part of the last observation, likewise

-------------------------------------------------------------------------------
(* Eigen, as far as the code uses it.                                      *)

Norm(q) == q.w * q.w + q.x * q.x + q.y * q.y + q.z * q.z

(* toRotationMatrix, times Norm(q); rows first.                            *)
Rotation(q) ==
  << << q.w*q.w + q.x*q.x - q.y*q.y - q.z*q.z,
        2 * (q.x*q.y - q.w*q.z), 2 * (q.x*q.z + q.w*q.y) >>,
     << 2 * (q.x*q.y + q.w*q.z),
        q.w*q.w - q.x*q.x + q.y*q.y - q.z*q.z, 2 * (q.y*q.z - q.w*q.x) >>,
     << 2 * (q.x*q.z - q.w*q.y), 2 * (q.y*q.z + q.w*q.x),
        q.w*q.w - q.x*q.x - q.y*q.y + q.z*q.z >> >>

BugNoHalfTurn(q) ==
  LET m == Rotation(q)
  IN  IF m[2][3] # 0 \/ m[3][3] > 0 THEN {<<m[3][3], m[2][3]>>}
      ELSE {<<Norm(q), 0>>, <<-Norm(q), 0>>}

(* The first angle of eulerAngles(0,1,2), negated: atan2(m23, m33), turned *)
(* by half a turn when it is positive.  With m23 = 0 the sign of the zero  *)
(* decides between 0 and half a turn, unless m33 is positive.              *)
FirstAngle(q) ==
  LET m == Rotation(q)
  IN  IF m[2][3] > 0 THEN {<<-m[3][3], -m[2][3]>>}
      ELSE IF m[2][3] < 0 \/ m[3][3] > 0 THEN {<<m[3][3], m[2][3]>>}
      ELSE {<<Norm(q), 0>>, <<-Norm(q), 0>>}

(* The third angle, given the first.                                       *)
ThirdAngle(m, first) ==
  <<first[1] * m[2][2] - first[2] * m[3][2],
    first[1] * m[2][1] - first[2] * m[3][1]>>

(* The yaw setBase keeps of the three angles.                              *)
Yaws(q) == {ThirdAngle(Rotation(q), f) : f \in FirstAngle(q)}

-------------------------------------------------------------------------------
(* The class TransformAlignment.                                           *)

(* R_base_ and p_base_ before setBase.                                     *)
Identity == [yaw |-> <<1, 0>>, p |-> [x |-> 0, y |-> 0, z |-> 0]]

BugOtherOrigin(pose) ==
  {[yaw |-> d, p |-> Identity.p] : d \in Yaws(pose.q)}

(* setBase with yaw_only and xy_only: R_base_ turns about the vertical.    *)
Bases(pose) ==
  {[yaw |-> d, p |-> [pose.p EXCEPT !.z = 0]] : d \in Yaws(pose.q)}

BugTurn(base, v) ==
  <<base.yaw[1] * v[1] - base.yaw[2] * v[2],
    base.yaw[1] * v[2] + base.yaw[2] * v[1]>>

(* R_base_.inverse() applied to a vector: the part on the ground, times    *)
(* the length of the yaw's direction; the height stays as it is.           *)
Unturn(base, v) ==
  <<base.yaw[1] * v[1] + base.yaw[2] * v[2],
    base.yaw[1] * v[2] - base.yaw[2] * v[1]>>

(* alignTransform: ground and height parts of orientation and position.    *)
Align(base, pose) ==
  LET m == Rotation(pose.q)
  IN  [axes   |-> [c \in 1 .. 3 |-> Unturn(base, <<m[1][c], m[2][c]>>)],
       up     |-> m[3],
       ground |-> Unturn(base, <<pose.p.x - base.p.x, pose.p.y - base.p.y>>),
       height |-> pose.p.z - base.p.z]

(* subtractFrameTransforms from the robot to the aligned anchor.  A number *)
(* has a ground part g and a height part h with scales of their own: with  *)
(* L the length of the yaw's direction it is g / L + h.  The orientation   *)
(* gives the first two columns of its matrix, the position the difference  *)
(* to the robot's, which is taken to be at the origin, or, if it is        *)
(* overridden, at the anchor.                                              *)
Relative(robot, a) ==
  LET r == Rotation(robot)
      Part(g, h) == [row \in 1 .. 3 |->
                       [g |-> r[1][row] * g[1] + r[2][row] * g[2],
                        h |-> r[3][row] * h]]
  IN  [rot |-> [c \in 1 .. 2 |-> Part(a.axes[c], a.up[c])],
       pos |-> IF override THEN Part(<<0, 0>>, 0) ELSE Part(a.ground, a.height)]

-------------------------------------------------------------------------------
(* Turning and shifting a clip.                                            *)

TurnQuat(t) == [w |-> t.w, x |-> 0, y |-> 0, z |-> t.z]

Times(a, b) ==
  [w |-> a.w*b.w - a.x*b.x - a.y*b.y - a.z*b.z,
   x |-> a.w*b.x + a.x*b.w + a.y*b.z - a.z*b.y,
   y |-> a.w*b.y - a.x*b.z + a.y*b.w + a.z*b.x,
   z |-> a.w*b.z + a.x*b.y - a.y*b.x + a.z*b.w]

(* A turned pose; positions are in units of 1 / Norm of the turn.          *)
Turned(t, pose) ==
  LET m == Rotation(TurnQuat(t))
  IN  [q |-> Times(TurnQuat(t), pose.q),
       p |-> [x |-> m[1][1] * pose.p.x + m[1][2] * pose.p.y + t.x,
              y |-> m[2][1] * pose.p.x + m[2][2] * pose.p.y + t.y,
              z |-> m[3][3] * pose.p.z]]

-------------------------------------------------------------------------------
vars == <<override, turn, start, anchor, bases, observed>>

BugInit ==
  /\ override \in BOOLEAN
  /\ turn \in Turns
  /\ start \in Starts
  /\ anchor = None
  /\ bases = <<None, None>>
  /\ observed = None

Init ==
  /\ override \in BOOLEAN
  /\ turn \in Turns
  /\ start \in Starts
  /\ anchor = None
  /\ bases = <<Identity, Identity>>
  /\ observed = None

(* initializeMotion: the dry run returns the first frame.                  *)
SetBase ==
  /\ anchor = None
  /\ anchor' = start
  /\ bases' \in Bases(start) \X Bases(Turned(turn, start))
  /\ UNCHANGED <<override, turn, start, observed>>

(* buildObservation looks at the stored frame, then inference brings the   *)
(* next one.                                                               *)
Observe(robot, next) ==
  /\ anchor # None
  /\ observed' = <<Relative(robot, Align(bases[1], anchor)),
                   Relative(robot, Align(bases[2], Turned(turn, anchor)))>>
  /\ anchor' = next
  /\ UNCHANGED <<override, turn, start, bases>>

Next == SetBase \/ \E robot \in Robots, next \in Anchors : Observe(robot, next)

Spec == Init /\ [][Next]_vars

-------------------------------------------------------------------------------
(* Types.                                                                  *)

Direction == Int \X Int
BaseType == [yaw: Direction, p: Vector]
RelativeType == [rot: [1 .. 2 -> [1 .. 3 -> [g: Int, h: Int]]],
                 pos: [1 .. 3 -> [g: Int, h: Int]]]

(* Every variable has its type.                                            *)
TypeOK ==
  /\ override \in BOOLEAN
  /\ turn \in Turns
  /\ start \in Pose
  /\ anchor \in Pose \cup {None}
  /\ bases \in BaseType \X BaseType
  /\ observed \in (RelativeType \X RelativeType) \cup {None}

-------------------------------------------------------------------------------
(* Properties.                                                             *)

(* The reference: with R = Rx(a) Ry(b) Rz(c) and cos(b) > 0, the first row *)
(* of R is cos(b) <<cos(c), -sin(c), ..>>, and the last column has the     *)
(* sign of -sin(a).                                                        *)
PrincipalYaw(q) == <<Rotation(q)[1][1], -Rotation(q)[1][2]>>

Dot(d, e) == d[1] * e[1] + d[2] * e[2]
Cross(d, e) == d[1] * e[2] - d[2] * e[1]

(* What eulerAngles makes of its three angles: it takes the roll from      *)
(* [0, pi], so the yaw is the principal one as long as the roll is         *)
(* positive, and half a turn off as soon as it is negative, however little *)
(* (setBase).                                                              *)
YawFlipsWithRoll ==
  anchor # None =>
    LET m == Rotation(start.q)
        d == bases[1].yaw
        p == PrincipalYaw(start.q)
    IN  /\ Cross(d, p) = 0
        /\ m[2][3] < 0 => Dot(d, p) >= 0
        /\ m[2][3] > 0 => Dot(d, p) <= 0
        /\ p # <<0, 0>> => Dot(d, p) # 0

(* The same number in both copies: with n the Norm of the turn, rotations  *)
(* and positions of the turned copy are n times as large, and the          *)
(* direction of its yaw is n * n times as long.                            *)
Same(a, b) ==
  LET n == Norm(TurnQuat(turn)) IN b.h = n * a.h /\ b.g = n * n * n * a.g

(* What the alignment is for: turning and shifting the whole clip on the   *)
(* ground changes nothing in any observation, whatever the robot and the   *)
(* later frames are doing, if the clip starts with a level anchor (setBase,*)
(* alignTransform, buildObservation).                                      *)
ClipHeadingIsIgnored ==
  observed # None /\ start.q.x = 0 /\ start.q.y = 0 =>
    \A row \in 1 .. 3 :
      /\ Same(observed[1].pos[row], observed[2].pos[row])
      /\ \A c \in 1 .. 2 : Same(observed[1].rot[c][row], observed[2].rot[c][row])

(* "yaw-only + xy-only alignment": once aligned, the first frame of the    *)
(* clip faces forward.  It does when the anchor starts level; it does not  *)
(* when it starts with the least negative roll.                            *)
StartFacesForward ==
  anchor # None =>
    LET forward == Align(bases[1], start).axes[1]
    IN  forward[1] >= 0 /\ forward[2] = 0

===============================================================================
