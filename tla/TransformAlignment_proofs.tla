----------------------- MODULE TransformAlignment_proofs -----------------------
(***************************************************************************)
(* Theorems about TransformAlignment, for every set of poses: all integer  *)
(* quaternions, where the runs enumerate those with small coefficients.    *)
(***************************************************************************)
EXTENDS TransformAlignment, TLAPS

-------------------------------------------------------------------------------
(* Rotation matrices.                                                      *)

(* The entries of the matrix by name.                                      *)
LEMMA Entries ==
  ASSUME NEW q \in Quat
  PROVE  LET m == Rotation(q)
         IN  /\ q.w \in Int /\ q.x \in Int /\ q.y \in Int /\ q.z \in Int
             /\ m[1][1] = q.w*q.w + q.x*q.x - q.y*q.y - q.z*q.z
             /\ m[1][2] = 2 * (q.x*q.y - q.w*q.z)
             /\ m[1][3] = 2 * (q.x*q.z + q.w*q.y)
             /\ m[2][1] = 2 * (q.x*q.y + q.w*q.z)
             /\ m[2][2] = q.w*q.w - q.x*q.x + q.y*q.y - q.z*q.z
             /\ m[2][3] = 2 * (q.y*q.z - q.w*q.x)
             /\ m[3][1] = 2 * (q.x*q.z - q.w*q.y)
             /\ m[3][2] = 2 * (q.y*q.z + q.w*q.x)
             /\ m[3][3] = q.w*q.w - q.x*q.x - q.y*q.y + q.z*q.z
             /\ \A i, j \in 1 .. 3 : m[i][j] \in Int
  BY DEF Rotation, Quat

(* The polynomials behind the next lemma.                                  *)
LEMMA OrthogonalPolynomials ==
  ASSUME NEW w \in Int, NEW x \in Int, NEW y \in Int, NEW z \in Int
  PROVE  LET n == w*w + x*x + y*y + z*z
             m11 == w*w + x*x - y*y - z*z
             m12 == 2 * (x*y - w*z)
             m13 == 2 * (x*z + w*y)
             m21 == 2 * (x*y + w*z)
             m22 == w*w - x*x + y*y - z*z
             m23 == 2 * (y*z - w*x)
             m31 == 2 * (x*z - w*y)
             m32 == 2 * (y*z + w*x)
             m33 == w*w - x*x - y*y + z*z
         IN  /\ m33 * m22 - m23 * m32 = n * m11
             /\ m33 * m21 - m23 * m31 = -(n * m12)
             /\ m11 * m21 + m12 * m22 + m13 * m23 = 0
             /\ m11 * m22 - m21 * m12 = n * m33
             /\ m11 * m11 + m12 * m12 = m23 * m23 + m33 * m33
  BY SMTT(60)

(* A rotation matrix is orthogonal: the cofactors of its first row are the *)
(* row itself, its first two rows are perpendicular, and its first row and *)
(* its last column are equally long (all up to the norm).                  *)
LEMMA Orthogonal ==
  ASSUME NEW q \in Quat
  PROVE  LET n == Norm(q)
             m == Rotation(q)
         IN  /\ m[3][3] * m[2][2] - m[2][3] * m[3][2] = n * m[1][1]
             /\ m[3][3] * m[2][1] - m[2][3] * m[3][1] = -(n * m[1][2])
             /\ m[1][1] * m[2][1] + m[1][2] * m[2][2] + m[1][3] * m[2][3] = 0
             /\ m[1][1] * m[2][2] - m[2][1] * m[1][2] = n * m[3][3]
             /\ m[1][1] * m[1][1] + m[1][2] * m[1][2]
                = m[2][3] * m[2][3] + m[3][3] * m[3][3]
<1> DEFINE w == q.w  x == q.x  y == q.y  z == q.z
           m == Rotation(q)
           n == w*w + x*x + y*y + z*z
           m11 == w*w + x*x - y*y - z*z
           m12 == 2 * (x*y - w*z)
           m13 == 2 * (x*z + w*y)
           m21 == 2 * (x*y + w*z)
           m22 == w*w - x*x + y*y - z*z
           m23 == 2 * (y*z - w*x)
           m31 == 2 * (x*z - w*y)
           m32 == 2 * (y*z + w*x)
           m33 == w*w - x*x - y*y + z*z
<1>1. /\ m[1][1] = m11 /\ m[1][2] = m12 /\ m[1][3] = m13
      /\ m[2][1] = m21 /\ m[2][2] = m22 /\ m[2][3] = m23
      /\ m[3][1] = m31 /\ m[3][2] = m32 /\ m[3][3] = m33
  BY Entries
<1>2. Norm(q) = n
  BY DEF Norm
<1>3. w \in Int /\ x \in Int /\ y \in Int /\ z \in Int
  BY DEF Quat
<1> HIDE DEF w, x, y, z, m
<1>4. /\ m33 * m22 - m23 * m32 = n * m11
      /\ m33 * m21 - m23 * m31 = -(n * m12)
      /\ m11 * m21 + m12 * m22 + m13 * m23 = 0
      /\ m11 * m22 - m21 * m12 = n * m33
      /\ m11 * m11 + m12 * m12 = m23 * m23 + m33 * m33
  BY <1>3, OrthogonalPolynomials
<1> HIDE DEF n, m11, m12, m13, m21, m22, m23, m31, m32, m33
<1> QED
  BY <1>1, <1>2, <1>4 DEF m

-------------------------------------------------------------------------------
(* The yaw.                                                                *)

(* A first angle is a direction.                                           *)
LEMMA FirstAngleType ==
  ASSUME NEW q \in Quat
  PROVE  FirstAngle(q) \subseteq Direction
<1> DEFINE m == Rotation(q)
<1>1. m[2][3] \in Int /\ m[3][3] \in Int /\ -m[2][3] \in Int /\ -m[3][3] \in Int
  BY Entries
<1>2. Norm(q) \in Int /\ -Norm(q) \in Int
  BY DEF Norm, Quat
<1> QED
  BY <1>1, <1>2 DEF FirstAngle, Direction

(* So is a yaw.                                                            *)
LEMMA YawType ==
  ASSUME NEW q \in Quat
  PROVE  Yaws(q) \subseteq Direction
<1>1. ASSUME NEW f \in FirstAngle(q)
      PROVE  ThirdAngle(Rotation(q), f) \in Direction
  <2> DEFINE m == Rotation(q)
  <2>1. f[1] \in Int /\ f[2] \in Int
    BY <1>1, FirstAngleType DEF Direction
  <2>2. m[2][2] \in Int /\ m[3][2] \in Int /\ m[2][1] \in Int /\ m[3][1] \in Int
    BY Entries
  <2>3. /\ f[1] * m[2][2] - f[2] * m[3][2] \in Int
        /\ f[1] * m[2][1] - f[2] * m[3][1] \in Int
    BY <2>1, <2>2
  <2> QED
    BY <2>3 DEF ThirdAngle, Direction
<1> QED
  BY <1>1 DEF Yaws

(* Squares are not negative, and vanish with their roots only.             *)
LEMMA SquareSigns ==
  ASSUME NEW a \in Int, NEW b \in Int
  PROVE  /\ a * a + b * b >= 0
         /\ a * a + b * b = 0 <=> a = 0 /\ b = 0
<1>1. a * a >= 0 /\ b * b >= 0
  OBVIOUS
<1>2. a # 0 => a * a > 0
  OBVIOUS
<1>3. b # 0 => b * b > 0
  OBVIOUS
<1> QED
  BY <1>1, <1>2, <1>3

(* The sign of a product of what is not negative.                          *)
LEMMA ProductSigns ==
  ASSUME NEW n \in Int, NEW a \in Int, n >= 0, a >= 0
  PROVE  /\ n * a >= 0 /\ -(n * a) <= 0
         /\ n > 0 /\ a > 0 => n * a # 0 /\ -(n * a) # 0
  OBVIOUS

(* What eulerAngles makes of the yaw, of any orientation at all.           *)
LEMMA YawOfOrientation ==
  ASSUME NEW q \in Quat, NEW d \in Yaws(q)
  PROVE  LET m == Rotation(q)
             p == PrincipalYaw(q)
         IN  /\ Cross(d, p) = 0
             /\ m[2][3] < 0 => Dot(d, p) >= 0
             /\ m[2][3] > 0 => Dot(d, p) <= 0
             /\ p # <<0, 0>> => Dot(d, p) # 0
<1> DEFINE m == Rotation(q)
           p == PrincipalYaw(q)
<1>1. PICK a \in Int, b \in Int, n \in Int : a = m[1][1] /\ b = m[1][2] /\ n = Norm(q)
  BY Entries DEF Norm, Quat
<1>2. PICK m21 \in Int, m22 \in Int, m31 \in Int, m32 \in Int :
        m21 = m[2][1] /\ m22 = m[2][2] /\ m31 = m[3][1] /\ m32 = m[3][2]
  BY Entries
<1>3. PICK m13 \in Int, m23 \in Int, m33 \in Int :
        m13 = m[1][3] /\ m23 = m[2][3] /\ m33 = m[3][3]
  BY Entries
<1> DEFINE s == a * a + b * b
<1>4. /\ m33 * m22 - m23 * m32 = n * a
      /\ m33 * m21 - m23 * m31 = -(n * b)
      /\ a * m21 + b * m22 + m13 * m23 = 0
      /\ a * m22 - m21 * b = n * m33
      /\ s = m23 * m23 + m33 * m33
  BY <1>1, <1>2, <1>3, Orthogonal
<1>5. p = <<a, -b>>
  BY <1>1 DEF PrincipalYaw
<1>6. n >= 0 /\ (n = 0 => a = 0 /\ b = 0)
  <2>1. PICK w \in Int, x \in Int, y \in Int, z \in Int :
          q.w = w /\ q.x = x /\ q.y = y /\ q.z = z
    BY DEF Quat
  <2>2. /\ a = w*w + x*x - y*y - z*z
        /\ b = 2 * (x*y - w*z)
        /\ n = w*w + x*x + y*y + z*z
    BY <1>1, <2>1, Entries DEF Norm
  <2>3. \A i, j \in Int : i * i + j * j >= 0 /\ (i * i + j * j = 0 => i = 0 /\ j = 0)
    BY SquareSigns
  <2>4. /\ w*w + x*x >= 0 /\ (w*w + x*x = 0 => w = 0 /\ x = 0)
        /\ y*y + z*z >= 0 /\ (y*y + z*z = 0 => y = 0 /\ z = 0)
    BY <2>3
  <2>5. n >= 0 /\ (n = 0 => w*w + x*x = 0 /\ y*y + z*z = 0)
    BY <2>2, <2>4
  <2> QED
    BY <2>2, <2>4, <2>5
<1>7. p # <<0, 0>> => n > 0 /\ s > 0
  BY <1>5, <1>6, SquareSigns
<1>8. s \in Int /\ s >= 0 /\ n * s \in Int
  BY SquareSigns
<1>9. n * s >= 0 /\ -(n * s) <= 0 /\ (p # <<0, 0>> => n * s # 0 /\ -(n * s) # 0)
  BY <1>6, <1>7, <1>8, ProductSigns
<1>10. PICK f \in FirstAngle(q) : d = ThirdAngle(m, f)
  BY DEF Yaws
<1>11. PICK f1 \in Int, f2 \in Int : f1 = f[1] /\ f2 = f[2]
  BY FirstAngleType DEF Direction
<1> DEFINE d1 == f1 * m22 - f2 * m32
           d2 == f1 * m21 - f2 * m31
<1>12. d = <<d1, d2>>
  BY <1>2, <1>10, <1>11 DEF ThirdAngle
<1>13. Cross(d, p) = d1 * (-b) - d2 * a /\ Dot(d, p) = d1 * a + d2 * (-b)
  BY <1>5, <1>12 DEF Cross, Dot
<1>14. CASE f1 = m33 /\ f2 = m23 /\ ~(m23 > 0)
  <2>1. d1 = n * a /\ d2 = -(n * b)
    BY <1>4, <1>14
  <2>2. (n * a) * (-b) - (-(n * b)) * a = 0 /\ (n * a) * a + (-(n * b)) * (-b) = n * s
    OBVIOUS
  <2>3. Cross(d, p) = 0 /\ Dot(d, p) = n * s
    BY <1>13, <2>1, <2>2
  <2> QED
    BY <1>3, <1>9, <1>14, <2>3
<1>15. CASE f1 = -m33 /\ f2 = -m23 /\ m23 > 0
  <2>1. d1 = -(m33 * m22 - m23 * m32) /\ d2 = -(m33 * m21 - m23 * m31)
    BY <1>15
  <2>2. d1 = -(n * a) /\ d2 = n * b
    BY <1>4, <2>1
  <2>3. (-(n * a)) * (-b) - (n * b) * a = 0 /\ (-(n * a)) * a + (n * b) * (-b) = -(n * s)
    OBVIOUS
  <2>4. Cross(d, p) = 0 /\ Dot(d, p) = -(n * s)
    BY <1>13, <2>2, <2>3
  <2> QED
    BY <1>3, <1>9, <1>15, <2>4
<1>16. CASE (f1 = n \/ f1 = -n) /\ f2 = 0 /\ m23 = 0
  <2>1. d1 = f1 * m22 /\ d2 = f1 * m21
    BY <1>16
  <2>2. /\ (f1 * m22) * (-b) - (f1 * m21) * a = -(f1 * (a * m21 + b * m22))
        /\ (f1 * m22) * a + (f1 * m21) * (-b) = f1 * (a * m22 - m21 * b)
    OBVIOUS
  <2>3. a * m21 + b * m22 = 0
    BY <1>4, <1>16
  <2>4. Cross(d, p) = 0 /\ Dot(d, p) = f1 * (n * m33)
    BY <1>4, <1>13, <2>1, <2>2, <2>3
  <2>5. ASSUME p # <<0, 0>> PROVE Dot(d, p) # 0
    <3>1. n # 0 /\ f1 # 0 /\ m33 # 0
      BY <1>4, <1>7, <1>16, <2>5
    <3>2. n * m33 # 0
      BY <3>1
    <3>3. f1 * (n * m33) # 0
      BY <3>1, <3>2
    <3> QED
      BY <2>4, <3>3
  <2> QED
    BY <1>3, <1>16, <2>4, <2>5
<1>17. \/ f1 = m33 /\ f2 = m23 /\ ~(m23 > 0)
       \/ f1 = -m33 /\ f2 = -m23 /\ m23 > 0
       \/ (f1 = n \/ f1 = -n) /\ f2 = 0 /\ m23 = 0
  <2>1. FirstAngle(q) = IF m23 > 0 THEN {<<-m33, -m23>>}
                        ELSE IF m23 < 0 \/ m33 > 0 THEN {<<m33, m23>>}
                        ELSE {<<n, 0>>, <<-n, 0>>}
    BY <1>1, <1>3 DEF FirstAngle
  <2>2. CASE m23 > 0
    BY <1>10, <1>11, <2>1, <2>2
  <2>3. CASE ~(m23 > 0) /\ (m23 < 0 \/ m33 > 0)
    BY <1>10, <1>11, <2>1, <2>3
  <2>4. CASE m23 = 0 /\ ~(m33 > 0)
    BY <1>10, <1>11, <2>1, <2>4
  <2> QED
    BY <2>2, <2>3, <2>4
<1> QED
  BY <1>14, <1>15, <1>16, <1>17

(* The yaw that is kept is one of the first frame's.                       *)
YawInv == start \in Starts /\ (anchor # None => bases[1].yaw \in Yaws(start.q))

(* It stays the one, through all observations.                             *)
LEMMA YawIsKept == Spec => []YawInv
<1>1. Init => YawInv
  BY DEF Init, YawInv
<1>2. YawInv /\ [Next]_vars => YawInv'
  <2> SUFFICES ASSUME YawInv, [Next]_vars PROVE YawInv'
    OBVIOUS
  <2>1. CASE SetBase
    <3>1. bases' \in Bases(start) \X Bases(Turned(turn, start))
      BY <2>1 DEF SetBase
    <3>2. PICK b \in Bases(start) : bases'[1] = b
      BY <3>1
    <3>3. PICK d \in Yaws(start.q) : b.yaw = d
      BY DEF Bases
    <3> QED
      BY <2>1, <3>2, <3>3 DEF SetBase, YawInv
  <2>2. ASSUME NEW robot \in Robots, NEW next \in Anchors, Observe(robot, next)
        PROVE  YawInv'
    BY <2>2 DEF Observe, YawInv
  <2>3. CASE UNCHANGED vars
    BY <2>3 DEF vars, YawInv
  <2> QED
    BY <2>1, <2>2, <2>3 DEF Next
<1> QED
  BY <1>1, <1>2, PTL DEF Spec

(* The yaw of the clip is the principal one exactly as long as the anchor  *)
(* does not start with a negative roll, whatever the clip.                 *)
THEOREM YawFlips == Spec => []YawFlipsWithRoll
<1>1. YawInv => YawFlipsWithRoll
  <2> SUFFICES ASSUME YawInv, anchor # None
               PROVE  LET m == Rotation(start.q)
                          d == bases[1].yaw
                          p == PrincipalYaw(start.q)
                      IN  /\ Cross(d, p) = 0
                          /\ m[2][3] < 0 => Dot(d, p) >= 0
                          /\ m[2][3] > 0 => Dot(d, p) <= 0
                          /\ p # <<0, 0>> => Dot(d, p) # 0
    BY DEF YawFlipsWithRoll
  <2>1. start.q \in Quat
    BY PosesAssumption DEF YawInv, Pose
  <2> QED
    BY <2>1, YawOfOrientation DEF YawInv
<1> QED
  BY <1>1, YawIsKept, PTL

-------------------------------------------------------------------------------
(* Types.                                                                  *)

(* A base has its type.                                                    *)
LEMMA BasesType ==
  ASSUME NEW pose \in Pose
  PROVE  Bases(pose) \subseteq BaseType
<1>1. pose.q \in Quat /\ pose.p \in Vector
  BY DEF Pose
<1>2. [pose.p EXCEPT !.z = 0] \in Vector
  BY <1>1 DEF Vector
<1> QED
  BY <1>1, <1>2, YawType DEF Bases, BaseType

(* A turned pose is a pose.                                                *)
LEMMA TurnedType ==
  ASSUME NEW t \in Turn, NEW pose \in Pose
  PROVE  Turned(t, pose) \in Pose
<1> DEFINE tq == TurnQuat(t)
           m == Rotation(tq)
<1>1. pose.q \in Quat /\ pose.p \in Vector /\ tq \in Quat
  BY DEF Pose, TurnQuat, Turn, Quat
<1>2. \A a, b \in Quat : Times(a, b) \in Quat
  <2> SUFFICES ASSUME NEW a \in Quat, NEW b \in Quat PROVE Times(a, b) \in Quat
    OBVIOUS
  <2>1. PICK aw \in Int, ax \in Int, ay \in Int, az \in Int :
          a.w = aw /\ a.x = ax /\ a.y = ay /\ a.z = az
    BY DEF Quat
  <2>2. PICK bw \in Int, bx \in Int, by \in Int, bz \in Int :
          b.w = bw /\ b.x = bx /\ b.y = by /\ b.z = bz
    BY DEF Quat
  <2> QED
    BY <2>1, <2>2 DEF Times, Quat
<1>3. Times(tq, pose.q) \in Quat
  BY <1>1, <1>2
<1>4. PICK x \in Int, y \in Int, z \in Int, tx \in Int, ty \in Int :
        pose.p.x = x /\ pose.p.y = y /\ pose.p.z = z /\ t.x = tx /\ t.y = ty
  BY <1>1 DEF Vector, Turn
<1>5. PICK m11 \in Int, m12 \in Int, m21 \in Int, m22 \in Int, m33 \in Int :
        m11 = m[1][1] /\ m12 = m[1][2] /\ m21 = m[2][1] /\ m22 = m[2][2] /\ m33 = m[3][3]
  <2>1. \A i, j \in 1 .. 3 : m[i][j] \in Int
    BY <1>1, Entries
  <2>2. m[1][1] \in Int /\ m[1][2] \in Int /\ m[2][1] \in Int /\ m[2][2] \in Int
        /\ m[3][3] \in Int
    BY <2>1
  <2> HIDE DEF m
  <2> QED
    BY <2>2
<1>6. /\ m11 * x + m12 * y + tx \in Int /\ m21 * x + m22 * y + ty \in Int
      /\ m33 * z \in Int
  OBVIOUS
<1>7. Turned(t, pose) = [q |-> Times(tq, pose.q),
                         p |-> [x |-> m11 * x + m12 * y + tx,
                                y |-> m21 * x + m22 * y + ty,
                                z |-> m33 * z]]
  BY <1>4, <1>5 DEF Turned
<1> QED
  BY <1>3, <1>6, <1>7 DEF Pose, Vector

AlignedType == [axes: [1 .. 3 -> Direction], up: Int \X Int \X Int,
                ground: Direction, height: Int]

(* An aligned pose has its type.                                           *)
LEMMA AlignType ==
  ASSUME NEW base \in BaseType, NEW pose \in Pose
  PROVE  Align(base, pose) \in AlignedType
<1> DEFINE m == Rotation(pose.q)
<1>1. PICK c \in Int, s \in Int : c = base.yaw[1] /\ s = base.yaw[2]
  BY DEF BaseType, Direction
<1>2. \A u, v \in Int : Unturn(base, <<u, v>>) \in Direction
  BY <1>1 DEF Unturn, Direction
<1>3. pose.q \in Quat /\ pose.p \in Vector /\ base.p \in Vector
  BY DEF Pose, BaseType
<1>4. \A i, j \in 1 .. 3 : m[i][j] \in Int
  BY <1>3, Entries
<1>5. \A k \in 1 .. 3 : Unturn(base, <<m[1][k], m[2][k]>>) \in Direction
  BY <1>2, <1>4
<1>6. m[3] \in Int \X Int \X Int
  <2>1. m[3] = <<m[3][1], m[3][2], m[3][3]>>
    BY DEF Rotation
  <2> QED
    BY <1>4, <2>1
<1>7. /\ pose.p.x - base.p.x \in Int /\ pose.p.y - base.p.y \in Int
      /\ pose.p.z - base.p.z \in Int
  BY <1>3 DEF Vector
<1>8. Unturn(base, <<pose.p.x - base.p.x, pose.p.y - base.p.y>>) \in Direction
  BY <1>2, <1>7
<1> QED
  BY <1>5, <1>6, <1>7, <1>8 DEF Align, AlignedType

(* What is observed has its type.                                          *)
LEMMA RelativeHasType ==
  ASSUME NEW robot \in Quat, NEW a \in AlignedType
  PROVE  Relative(robot, a) \in RelativeType
<1> DEFINE r == Rotation(robot)
           Part(g, h) == [row \in 1 .. 3 |->
                            [g |-> r[1][row] * g[1] + r[2][row] * g[2],
                             h |-> r[3][row] * h]]
<1>1. \A i, j \in 1 .. 3 : r[i][j] \in Int
  BY Entries
<1>2. ASSUME NEW g \in Direction, NEW h \in Int
      PROVE  Part(g, h) \in [1 .. 3 -> [g: Int, h: Int]]
  <2>1. PICK g1 \in Int, g2 \in Int : g[1] = g1 /\ g[2] = g2
    BY <1>2 DEF Direction
  <2>2. ASSUME NEW row \in 1 .. 3
        PROVE  r[1][row] * g[1] + r[2][row] * g[2] \in Int /\ r[3][row] * h \in Int
    <3>1. PICK r1 \in Int, r2 \in Int, r3 \in Int :
            r1 = r[1][row] /\ r2 = r[2][row] /\ r3 = r[3][row]
      BY <1>1, <2>2
    <3> QED
      BY <2>1, <3>1
  <2> QED
    BY <2>2
<1>3. /\ \A c \in 1 .. 2 : a.axes[c] \in Direction /\ a.up[c] \in Int
      /\ a.ground \in Direction /\ a.height \in Int
  BY DEF AlignedType
<1>4. Relative(robot, a) = [rot |-> [c \in 1 .. 2 |-> Part(a.axes[c], a.up[c])],
                            pos |-> IF override THEN Part(<<0, 0>>, 0)
                                    ELSE Part(a.ground, a.height)]
  BY DEF Relative
<1> HIDE DEF Part
<1>5. \A c \in 1 .. 2 : Part(a.axes[c], a.up[c]) \in [1 .. 3 -> [g: Int, h: Int]]
  BY <1>2, <1>3
<1>6. /\ Part(a.ground, a.height) \in [1 .. 3 -> [g: Int, h: Int]]
      /\ Part(<<0, 0>>, 0) \in [1 .. 3 -> [g: Int, h: Int]]
  <2>1. <<0, 0>> \in Direction
    BY DEF Direction
  <2>2. Part(<<0, 0>>, 0) \in [1 .. 3 -> [g: Int, h: Int]]
    BY <1>2, <2>1
  <2>3. Part(a.ground, a.height) \in [1 .. 3 -> [g: Int, h: Int]]
    BY <1>2, <1>3
  <2> QED
    BY <2>2, <2>3
<1> QED
  BY <1>4, <1>5, <1>6 DEF RelativeType

(* The initial values have their types.                                    *)
LEMMA InitType == Init => TypeOK
<1> SUFFICES ASSUME Init PROVE TypeOK
  OBVIOUS
<1>1. Identity \in BaseType
  BY DEF Identity, BaseType, Direction, Vector
<1>2. turn \in Turns /\ start \in Pose
  BY PosesAssumption DEF Init
<1> QED
  BY <1>1, <1>2 DEF Init, TypeOK

(* Types are kept.                                                         *)
LEMMA TypeStep == TypeOK /\ [Next]_vars => TypeOK'
<1> SUFFICES ASSUME TypeOK, [Next]_vars PROVE TypeOK'
  OBVIOUS
<1>1. turn \in Turn
  BY PosesAssumption DEF TypeOK
<1>2. CASE SetBase
  <2>1. Bases(start) \subseteq BaseType /\ Bases(Turned(turn, start)) \subseteq BaseType
    BY <1>1, BasesType, TurnedType DEF TypeOK
  <2>2. bases' \in BaseType \X BaseType
    BY <1>2, <2>1 DEF SetBase
  <2> QED
    BY <1>2, <2>2 DEF SetBase, TypeOK
<1>3. ASSUME NEW robot \in Robots, NEW next \in Anchors, Observe(robot, next)
      PROVE  TypeOK'
  <2>1. robot \in Quat /\ next \in Pose
    BY PosesAssumption
  <2>2. /\ anchor \in Pose /\ Turned(turn, anchor) \in Pose
        /\ bases[1] \in BaseType /\ bases[2] \in BaseType
    BY <1>1, <1>3, TurnedType DEF Observe, TypeOK
  <2>3. /\ Relative(robot, Align(bases[1], anchor)) \in RelativeType
        /\ Relative(robot, Align(bases[2], Turned(turn, anchor))) \in RelativeType
    BY <2>1, <2>2, AlignType, RelativeHasType
  <2>4. observed' \in RelativeType \X RelativeType
    BY <1>3, <2>3 DEF Observe
  <2> QED
    BY <1>3, <2>1, <2>4 DEF Observe, TypeOK
<1>4. CASE UNCHANGED vars
  BY <1>4 DEF vars, TypeOK
<1> QED
  BY <1>2, <1>3, <1>4 DEF Next

(* Every variable has its type, for every set of poses.                    *)
THEOREM TypeCorrect == Spec => []TypeOK
  BY InitType, TypeStep, PTL DEF Spec

-------------------------------------------------------------------------------
(* The heading of the clip.                                                *)

(* A turn about the vertical: cosine and sine, both as large as its Norm.  *)
Cosine(t) == t.w * t.w - t.z * t.z
Sine(t) == 2 * (t.w * t.z)
Length(t) == Norm(TurnQuat(t))

(* A direction, turned; and its part that Turned does not shift.           *)
TurnedBy(t, v) == <<Cosine(t) * v[1] - Sine(t) * v[2], Sine(t) * v[1] + Cosine(t) * v[2]>>

(* The matrix of a turn, and its length.                                   *)
LEMMA TurnMatrix ==
  ASSUME NEW t \in Turn
  PROVE  LET m == Rotation(TurnQuat(t))
         IN  /\ Cosine(t) \in Int /\ Sine(t) \in Int /\ Length(t) \in Int
             /\ m[1][1] = Cosine(t) /\ m[1][2] = -Sine(t)
             /\ m[2][1] = Sine(t) /\ m[2][2] = Cosine(t)
             /\ m[3][3] = Length(t)
             /\ Cosine(t) * Cosine(t) + Sine(t) * Sine(t) = Length(t) * Length(t)
<1>1. PICK a \in Int, k \in Int : t.w = a /\ t.z = k
  BY DEF Turn
<1>2. TurnQuat(t) \in Quat
  BY DEF TurnQuat, Turn, Quat
<1>3. /\ TurnQuat(t).w = a /\ TurnQuat(t).x = 0
      /\ TurnQuat(t).y = 0 /\ TurnQuat(t).z = k
  BY <1>1 DEF TurnQuat
<1>4. Cosine(t) = a*a - k*k /\ Sine(t) = 2 * (a*k) /\ Length(t) = a*a + k*k
  BY <1>1, <1>3 DEF Cosine, Sine, Length, Norm
<1>5. (a*a - k*k) * (a*a - k*k) + (2 * (a*k)) * (2 * (a*k)) = (a*a + k*k) * (a*a + k*k)
  BY SMTT(60)
<1>6. /\ Rotation(TurnQuat(t))[1][1] = a*a - k*k
      /\ Rotation(TurnQuat(t))[1][2] = -(2 * (a*k))
      /\ Rotation(TurnQuat(t))[2][1] = 2 * (a*k)
      /\ Rotation(TurnQuat(t))[2][2] = a*a - k*k
      /\ Rotation(TurnQuat(t))[3][3] = a*a + k*k
  <2> DEFINE m == Rotation(TurnQuat(t))
  <2>1. /\ m[1][1] = a*a + 0*0 - 0*0 - k*k
        /\ m[1][2] = 2 * (0*0 - a*k)
        /\ m[2][1] = 2 * (0*0 + a*k)
        /\ m[2][2] = a*a - 0*0 + 0*0 - k*k
        /\ m[3][3] = a*a - 0*0 - 0*0 + k*k
    BY <1>2, <1>3, Entries
  <2> HIDE DEF m
  <2>2. a*k \in Int /\ a*a \in Int /\ k*k \in Int
    OBVIOUS
  <2>3. /\ m[1][1] = a*a - k*k /\ m[1][2] = -(2 * (a*k)) /\ m[2][1] = 2 * (a*k)
        /\ m[2][2] = a*a - k*k /\ m[3][3] = a*a + k*k
    BY <2>1, <2>2
  <2> QED
    BY <2>3 DEF m
<1> QED
  BY <1>4, <1>5, <1>6

(* The product with a turn, and its norm.                                  *)
LEMMA TurnProduct ==
  ASSUME NEW t \in Turn, NEW q \in Quat
  PROVE  LET o == Times(TurnQuat(t), q)
         IN  /\ o \in Quat
             /\ o.w = t.w * q.w - t.z * q.z
             /\ o.x = t.w * q.x - t.z * q.y
             /\ o.y = t.w * q.y + t.z * q.x
             /\ o.z = t.w * q.z + t.z * q.w
             /\ Norm(o) = Length(t) * Norm(q)
<1>1. PICK a \in Int, k \in Int : t.w = a /\ t.z = k
  BY DEF Turn
<1>2. PICK w \in Int, x \in Int, y \in Int, z \in Int :
        q.w = w /\ q.x = x /\ q.y = y /\ q.z = z
  BY DEF Quat
<1> DEFINE o == Times(TurnQuat(t), q)
<1>3. o = [w |-> a*w - k*z, x |-> a*x - k*y, y |-> a*y + k*x, z |-> a*z + k*w]
  BY <1>1, <1>2 DEF Times, TurnQuat
<1>4. Length(t) = a*a + k*k
  BY <1>1 DEF Length, Norm, TurnQuat
<1>5. Norm(o) = (a*w - k*z) * (a*w - k*z) + (a*x - k*y) * (a*x - k*y)
                + (a*y + k*x) * (a*y + k*x) + (a*z + k*w) * (a*z + k*w)
  BY <1>3 DEF Norm
<1>6. Norm(q) = w*w + x*x + y*y + z*z
  BY <1>2 DEF Norm
<1>7. (a*w - k*z) * (a*w - k*z) + (a*x - k*y) * (a*x - k*y)
      + (a*y + k*x) * (a*y + k*x) + (a*z + k*w) * (a*z + k*w)
      = (a*a + k*k) * (w*w + x*x + y*y + z*z)
  BY SMTT(60)
<1>8. o \in Quat
  BY <1>3 DEF Quat
<1> QED
  BY <1>1, <1>2, <1>3, <1>4, <1>5, <1>6, <1>7, <1>8

(* The polynomials behind the next lemma: a and k are those of the turn.   *)
LEMMA TurnPolynomials ==
  ASSUME NEW a \in Int, NEW k \in Int,
         NEW w \in Int, NEW x \in Int, NEW y \in Int, NEW z \in Int
  PROVE  LET c == a*a - k*k
             s == 2 * (a*k)
             n == a*a + k*k
             W == a*w - k*z
             X == a*x - k*y
             Y == a*y + k*x
             Z == a*z + k*w
         IN  /\ W*W + X*X - Y*Y - Z*Z
                = c * (w*w + x*x - y*y - z*z) - s * (2 * (x*y + w*z))
             /\ 2 * (X*Y - W*Z)
                = c * (2 * (x*y - w*z)) - s * (w*w - x*x + y*y - z*z)
             /\ 2 * (X*Y + W*Z)
                = s * (w*w + x*x - y*y - z*z) + c * (2 * (x*y + w*z))
             /\ W*W - X*X + Y*Y - Z*Z
                = s * (2 * (x*y - w*z)) + c * (w*w - x*x + y*y - z*z)
             /\ 2 * (X*Z - W*Y) = n * (2 * (x*z - w*y))
             /\ 2 * (Y*Z + W*X) = n * (2 * (y*z + w*x))
  BY SMTT(60)

(* A turn about the vertical turns the columns of a matrix on the ground,  *)
(* and scales their heights.                                               *)
LEMMA TurnedColumns ==
  ASSUME NEW t \in Turn, NEW q \in Quat
  PROVE  LET m == Rotation(q)
             o == Rotation(Times(TurnQuat(t), q))
         IN  \A i \in 1 .. 2 :
               /\ <<o[1][i], o[2][i]>> = TurnedBy(t, <<m[1][i], m[2][i]>>)
               /\ o[3][i] = Length(t) * m[3][i]
<1>1. PICK a \in Int, k \in Int : t.w = a /\ t.z = k
  BY DEF Turn
<1>2. PICK w \in Int, x \in Int, y \in Int, z \in Int :
        q.w = w /\ q.x = x /\ q.y = y /\ q.z = z
  BY DEF Quat
<1> DEFINE p == Times(TurnQuat(t), q)
           m == Rotation(q)
           o == Rotation(p)
           W == a*w - k*z
           X == a*x - k*y
           Y == a*y + k*x
           Z == a*z + k*w
<1>3. p \in Quat /\ p.w = W /\ p.x = X /\ p.y = Y /\ p.z = Z
  BY <1>1, <1>2, TurnProduct
<1>4. /\ o[1][1] = W*W + X*X - Y*Y - Z*Z
      /\ o[1][2] = 2 * (X*Y - W*Z)
      /\ o[2][1] = 2 * (X*Y + W*Z)
      /\ o[2][2] = W*W - X*X + Y*Y - Z*Z
      /\ o[3][1] = 2 * (X*Z - W*Y)
      /\ o[3][2] = 2 * (Y*Z + W*X)
  BY <1>3, Entries
<1>5. /\ m[1][1] = w*w + x*x - y*y - z*z
      /\ m[1][2] = 2 * (x*y - w*z)
      /\ m[2][1] = 2 * (x*y + w*z)
      /\ m[2][2] = w*w - x*x + y*y - z*z
      /\ m[3][1] = 2 * (x*z - w*y)
      /\ m[3][2] = 2 * (y*z + w*x)
  BY <1>2, Entries
<1>6. Cosine(t) = a*a - k*k /\ Sine(t) = 2 * (a*k) /\ Length(t) = a*a + k*k
  BY <1>1 DEF Cosine, Sine, Length, Norm, TurnQuat
<1>7. /\ o[1][1] = Cosine(t) * m[1][1] - Sine(t) * m[2][1]
      /\ o[1][2] = Cosine(t) * m[1][2] - Sine(t) * m[2][2]
      /\ o[2][1] = Sine(t) * m[1][1] + Cosine(t) * m[2][1]
      /\ o[2][2] = Sine(t) * m[1][2] + Cosine(t) * m[2][2]
      /\ o[3][1] = Length(t) * m[3][1]
      /\ o[3][2] = Length(t) * m[3][2]
  BY <1>4, <1>5, <1>6, TurnPolynomials
<1> HIDE DEF m, o
<1>8. ASSUME NEW i \in {1, 2}
      PROVE  /\ <<o[1][i], o[2][i]>> = TurnedBy(t, <<m[1][i], m[2][i]>>)
             /\ o[3][i] = Length(t) * m[3][i]
  BY <1>7, <1>8 DEF TurnedBy
<1>9. 1 .. 2 = {1, 2}
  OBVIOUS
<1> QED
  BY <1>8, <1>9 DEF m, o

Level(q) == q.x = 0 /\ q.y = 0

(* A level orientation has one yaw: the second column of its matrix is     *)
(* what the third angle looks at.                                          *)
LEMMA LevelYaw ==
  ASSUME NEW q \in Quat, Level(q), NEW d \in Yaws(q)
  PROVE  LET m == Rotation(q)
         IN  /\ d = <<Norm(q) * m[2][2], Norm(q) * m[2][1]>>
             /\ m[1][1] = m[2][2] /\ m[1][2] = -m[2][1]
<1>1. PICK w \in Int, z \in Int : q.w = w /\ q.z = z
  BY DEF Quat
<1> DEFINE m == Rotation(q)
           n == w*w + z*z
           m21 == 2 * (w*z)
           m22 == w*w - z*z
<1>2. q.x = 0 /\ q.y = 0
  BY DEF Level
<1>3. w*w \in Int /\ z*z \in Int /\ w*z \in Int /\ n \in Int /\ m21 \in Int /\ m22 \in Int
  OBVIOUS
<1>4. /\ m[1][1] = w*w + 0*0 - 0*0 - z*z
      /\ m[1][2] = 2 * (0*0 - w*z)
      /\ m[2][1] = 2 * (0*0 + w*z)
      /\ m[2][2] = w*w - 0*0 + 0*0 - z*z
      /\ m[2][3] = 2 * (0*z - w*0)
      /\ m[3][1] = 2 * (0*z - w*0)
      /\ m[3][2] = 2 * (0*z + w*0)
      /\ m[3][3] = w*w - 0*0 - 0*0 + z*z
  BY <1>1, <1>2, Entries
<1>5. Norm(q) = w*w + 0*0 + 0*0 + z*z
  BY <1>1, <1>2 DEF Norm
<1> HIDE DEF m
<1>6. /\ m[1][1] = m22 /\ m[1][2] = -m21 /\ m[2][1] = m21 /\ m[2][2] = m22
      /\ m[2][3] = 0 /\ m[3][1] = 0 /\ m[3][2] = 0 /\ m[3][3] = n /\ Norm(q) = n
  BY <1>3, <1>4, <1>5
<1>7. n >= 0
  BY SquareSigns
<1> HIDE DEF n, m21, m22
<1>8. PICK f \in FirstAngle(q) : d = ThirdAngle(m, f)
  BY DEF Yaws, m
<1>9. FirstAngle(q) = IF m[2][3] > 0 THEN {<<-m[3][3], -m[2][3]>>}
                      ELSE IF m[2][3] < 0 \/ m[3][3] > 0 THEN {<<m[3][3], m[2][3]>>}
                      ELSE {<<Norm(q), 0>>, <<-Norm(q), 0>>}
  BY DEF FirstAngle, m
<1>10. FirstAngle(q) = IF n > 0 THEN {<<n, 0>>} ELSE {<<n, 0>>, <<-n, 0>>}
  BY <1>6, <1>9
<1>11. f = <<n, 0>>
  BY <1>3, <1>7, <1>8, <1>10
<1>12. d = <<n * m22 - 0 * 0, n * m21 - 0 * 0>>
  BY <1>6, <1>8, <1>11 DEF ThirdAngle
<1>13. n * m22 - 0 * 0 = n * m22 /\ n * m21 - 0 * 0 = n * m21
  BY <1>3
<1> QED
  BY <1>6, <1>12, <1>13 DEF m

(* The yaw of a level clip turns with the clip.                            *)
LEMMA YawTurns ==
  ASSUME NEW t \in Turn, NEW q \in Quat, Level(q),
         NEW d \in Yaws(q), NEW e \in Yaws(Times(TurnQuat(t), q))
  PROVE  /\ e[1] = Length(t) * TurnedBy(t, d)[1]
         /\ e[2] = Length(t) * TurnedBy(t, d)[2]
<1> DEFINE p == Times(TurnQuat(t), q)
           m == Rotation(q)
           o == Rotation(p)
<1>1. PICK n \in Int, l \in Int, c \in Int, s \in Int :
        n = Norm(q) /\ l = Length(t) /\ c = Cosine(t) /\ s = Sine(t)
  BY TurnMatrix DEF Norm, Quat
<1>2. p \in Quat /\ Norm(p) = l * n
  BY <1>1, TurnProduct
<1>3. Level(p)
  <2>1. PICK a \in Int, k \in Int : t.w = a /\ t.z = k
    BY DEF Turn
  <2>2. p.x = a * 0 - k * 0 /\ p.y = a * 0 + k * 0
    BY <2>1, TurnProduct DEF Level
  <2> QED
    BY <2>2 DEF Level
<1>4. PICK m21 \in Int, m22 \in Int : m21 = m[2][1] /\ m22 = m[2][2]
  BY Entries
<1>5. /\ d = <<n * m22, n * m21>>
      /\ m[1][1] = m22 /\ m[1][2] = -m21
  BY <1>1, <1>4, LevelYaw
<1>6. e = <<Norm(p) * o[2][2], Norm(p) * o[2][1]>>
  BY <1>2, <1>3, LevelYaw
<1>7. \A i \in 1 .. 2 : <<o[1][i], o[2][i]>> = TurnedBy(t, <<m[1][i], m[2][i]>>)
  BY TurnedColumns
<1>8. \A i \in 1 .. 2 : o[2][i] = s * m[1][i] + c * m[2][i]
  <2> HIDE DEF m, o
  <2> QED
    BY <1>1, <1>7 DEF TurnedBy
<1>9. o[2][1] = s * m[1][1] + c * m[2][1] /\ o[2][2] = s * m[1][2] + c * m[2][2]
  BY <1>8
<1> HIDE DEF m, o, p
<1>10. o[2][1] = s * m22 + c * m21 /\ o[2][2] = s * (-m21) + c * m22
  BY <1>4, <1>5, <1>9
<1>11. e = <<l * n * (s * (-m21) + c * m22), l * n * (s * m22 + c * m21)>>
  BY <1>2, <1>6, <1>10
<1>12. TurnedBy(t, d) = <<c * (n * m22) - s * (n * m21), s * (n * m22) + c * (n * m21)>>
  BY <1>1, <1>5 DEF TurnedBy
<1>13. /\ l * n * (s * (-m21) + c * m22) = l * (c * (n * m22) - s * (n * m21))
       /\ l * n * (s * m22 + c * m21) = l * (s * (n * m22) + c * (n * m21))
  BY SMTT(60)
<1> QED
  BY <1>1, <1>11, <1>12, <1>13

(* What is turned twice is turned back: with both the yaw and a direction  *)
(* turned, the part on the ground that Unturn finds is only longer.        *)
LEMMA UnturnUndoes ==
  ASSUME NEW t \in Turn, NEW base \in BaseType, NEW turned \in BaseType, NEW v \in Direction,
         turned.yaw[1] = Length(t) * TurnedBy(t, base.yaw)[1],
         turned.yaw[2] = Length(t) * TurnedBy(t, base.yaw)[2]
  PROVE  LET l == Length(t)
             u == Unturn(turned, TurnedBy(t, v))
         IN  /\ u[1] = l * l * l * Unturn(base, v)[1]
             /\ u[2] = l * l * l * Unturn(base, v)[2]
<1>1. PICK l \in Int, c \in Int, s \in Int :
        l = Length(t) /\ c = Cosine(t) /\ s = Sine(t) /\ c*c + s*s = l*l
  BY TurnMatrix
<1>2. PICK b1 \in Int, b2 \in Int, v1 \in Int, v2 \in Int :
        b1 = base.yaw[1] /\ b2 = base.yaw[2] /\ v1 = v[1] /\ v2 = v[2]
  BY DEF BaseType, Direction
<1>3. turned.yaw[1] = l * (c*b1 - s*b2) /\ turned.yaw[2] = l * (s*b1 + c*b2)
  BY <1>1, <1>2 DEF TurnedBy
<1>4. Unturn(turned, TurnedBy(t, v)) =
        <<l * (c*b1 - s*b2) * (c*v1 - s*v2) + l * (s*b1 + c*b2) * (s*v1 + c*v2),
          l * (c*b1 - s*b2) * (s*v1 + c*v2) - l * (s*b1 + c*b2) * (c*v1 - s*v2)>>
  BY <1>1, <1>2, <1>3 DEF Unturn, TurnedBy
<1>5. Unturn(base, v) = <<b1*v1 + b2*v2, b1*v2 - b2*v1>>
  BY <1>2 DEF Unturn
<1>6. /\ l * (c*b1 - s*b2) * (c*v1 - s*v2) + l * (s*b1 + c*b2) * (s*v1 + c*v2)
         = l * (c*c + s*s) * (b1*v1 + b2*v2)
      /\ l * (c*b1 - s*b2) * (s*v1 + c*v2) - l * (s*b1 + c*b2) * (c*v1 - s*v2)
         = l * (c*c + s*s) * (b1*v2 - b2*v1)
  BY SMTT(60)
<1>7. l * (c*c + s*s) = l * l * l
  <2>1. l * (l * l) = l * l * l
    OBVIOUS
  <2> QED
    BY <1>1, <2>1
<1>8. Unturn(turned, TurnedBy(t, v)) =
        <<l * l * l * (b1*v1 + b2*v2), l * l * l * (b1*v2 - b2*v1)>>
  BY <1>4, <1>6, <1>7
<1> QED
  BY <1>1, <1>5, <1>8

(* What setBase makes of a turned clip: the yaw is turned, the origin on   *)
(* the ground is turned and shifted with the clip.                         *)
BaseTurned(t, base, turned) ==
  /\ turned.yaw[1] = Length(t) * TurnedBy(t, base.yaw)[1]
  /\ turned.yaw[2] = Length(t) * TurnedBy(t, base.yaw)[2]
  /\ turned.p.x = TurnedBy(t, <<base.p.x, base.p.y>>)[1] + t.x
  /\ turned.p.y = TurnedBy(t, <<base.p.x, base.p.y>>)[2] + t.y
  /\ base.p.z = 0 /\ turned.p.z = 0

(* A turned position, in the terms of this section.                        *)
LEMMA TurnedPosition ==
  ASSUME NEW t \in Turn, NEW pose \in Pose
  PROVE  LET p == Turned(t, pose).p
             v == TurnedBy(t, <<pose.p.x, pose.p.y>>)
         IN  /\ v[1] \in Int /\ v[2] \in Int
             /\ p.x = v[1] + t.x /\ p.y = v[2] + t.y /\ p.z = Length(t) * pose.p.z
<1>1. PICK l \in Int, c \in Int, s \in Int :
        l = Length(t) /\ c = Cosine(t) /\ s = Sine(t)
  BY TurnMatrix
<1>2. PICK x \in Int, y \in Int, z \in Int, tx \in Int, ty \in Int :
        pose.p.x = x /\ pose.p.y = y /\ pose.p.z = z /\ t.x = tx /\ t.y = ty
  BY DEF Pose, Vector, Turn
<1> DEFINE m == Rotation(TurnQuat(t))
<1>3. m[1][1] = c /\ m[1][2] = -s /\ m[2][1] = s /\ m[2][2] = c /\ m[3][3] = l
  BY <1>1, TurnMatrix
<1>4. Turned(t, pose).p = [x |-> m[1][1] * x + m[1][2] * y + tx,
                           y |-> m[2][1] * x + m[2][2] * y + ty,
                           z |-> m[3][3] * z]
  BY <1>2 DEF Turned
<1> HIDE DEF m
<1>5. Turned(t, pose).p = [x |-> c * x + (-s) * y + tx, y |-> s * x + c * y + ty, z |-> l * z]
  BY <1>3, <1>4
<1>6. c * x + (-s) * y + tx = c * x - s * y + tx
  OBVIOUS
<1>7. TurnedBy(t, <<pose.p.x, pose.p.y>>) = <<c * x - s * y, s * x + c * y>>
  BY <1>1, <1>2 DEF TurnedBy
<1> QED
  BY <1>1, <1>2, <1>5, <1>6, <1>7

(* setBase turns with a level clip.                                        *)
LEMMA BasesTurn ==
  ASSUME NEW t \in Turn, NEW pose \in Pose, Level(pose.q),
         NEW base \in Bases(pose), NEW turned \in Bases(Turned(t, pose))
  PROVE  BaseTurned(t, base, turned)
<1>1. PICK d \in Yaws(pose.q) : base = [yaw |-> d, p |-> [pose.p EXCEPT !.z = 0]]
  BY DEF Bases
<1>2. PICK e \in Yaws(Turned(t, pose).q) :
        turned = [yaw |-> e, p |-> [Turned(t, pose).p EXCEPT !.z = 0]]
  BY DEF Bases
<1>3. Turned(t, pose).q = Times(TurnQuat(t), pose.q)
  BY DEF Turned
<1>4. pose.q \in Quat /\ pose.p \in Vector
  BY DEF Pose
<1>5. /\ e[1] = Length(t) * TurnedBy(t, d)[1]
      /\ e[2] = Length(t) * TurnedBy(t, d)[2]
  BY <1>2, <1>3, <1>4, YawTurns
<1>6. Turned(t, pose).p \in Vector
  BY TurnedType DEF Pose
<1>7. /\ base.p.x = pose.p.x /\ base.p.y = pose.p.y /\ base.p.z = 0
      /\ turned.p.x = Turned(t, pose).p.x /\ turned.p.y = Turned(t, pose).p.y
      /\ turned.p.z = 0
  BY <1>1, <1>2, <1>4, <1>6 DEF Vector
<1> QED
  BY <1>1, <1>2, <1>5, <1>7, TurnedPosition DEF BaseTurned

(* Two aligned poses that differ in the lengths only.                      *)
Scaled(l, a, b) ==
  /\ \A c \in 1 .. 2 :
       /\ b.axes[c][1] = l * l * l * a.axes[c][1]
       /\ b.axes[c][2] = l * l * l * a.axes[c][2]
       /\ b.up[c] = l * a.up[c]
  /\ b.ground[1] = l * l * l * a.ground[1]
  /\ b.ground[2] = l * l * l * a.ground[2]
  /\ b.height = l * a.height

(* Any frame of the clip, level or not, is aligned alike in both copies.   *)
LEMMA AlignTurns ==
  ASSUME NEW t \in Turn, NEW pose \in Pose,
         NEW base \in BaseType, NEW turned \in BaseType, BaseTurned(t, base, turned)
  PROVE  Scaled(Length(t), Align(base, pose), Align(turned, Turned(t, pose)))
<1> DEFINE l == Length(t)
           m == Rotation(pose.q)
           o == Rotation(Times(TurnQuat(t), pose.q))
           r == Turned(t, pose)
           a == Align(base, pose)
           b == Align(turned, r)
           ground == <<pose.p.x - base.p.x, pose.p.y - base.p.y>>
           groundT == <<r.p.x - turned.p.x, r.p.y - turned.p.y>>
<1>1. pose.q \in Quat /\ r.q = Times(TurnQuat(t), pose.q)
  BY DEF Pose, Turned
<1>2. /\ a.axes = [c \in 1 .. 3 |-> Unturn(base, <<m[1][c], m[2][c]>>)] /\ a.up = m[3]
      /\ a.ground = Unturn(base, ground) /\ a.height = pose.p.z - base.p.z
  BY DEF Align
<1>3. /\ b.axes = [c \in 1 .. 3 |-> Unturn(turned, <<o[1][c], o[2][c]>>)] /\ b.up = o[3]
      /\ b.ground = Unturn(turned, groundT) /\ b.height = r.p.z - turned.p.z
  BY <1>1 DEF Align
<1>4. \A i, j \in 1 .. 3 : m[i][j] \in Int
  BY <1>1, Entries
<1>5. \A v \in Direction :
        /\ Unturn(turned, TurnedBy(t, v))[1] = l * l * l * Unturn(base, v)[1]
        /\ Unturn(turned, TurnedBy(t, v))[2] = l * l * l * Unturn(base, v)[2]
  BY UnturnUndoes DEF BaseTurned
<1>6. \A c \in 1 .. 2 : /\ <<o[1][c], o[2][c]>> = TurnedBy(t, <<m[1][c], m[2][c]>>)
                        /\ o[3][c] = l * m[3][c]
  BY <1>1, TurnedColumns
<1>7. PICK x \in Int, y \in Int, z \in Int, x0 \in Int, y0 \in Int :
        /\ pose.p.x = x /\ pose.p.y = y /\ pose.p.z = z
        /\ base.p.x = x0 /\ base.p.y = y0
  BY DEF Pose, BaseType, Vector
<1>8. PICK k \in Int, c \in Int, s \in Int, tx \in Int, ty \in Int :
        k = l /\ c = Cosine(t) /\ s = Sine(t) /\ t.x = tx /\ t.y = ty
  BY TurnMatrix DEF Turn
<1>9. r.p.x = (c*x - s*y) + tx /\ r.p.y = (s*x + c*y) + ty /\ r.p.z = k * z
  <2>1. TurnedBy(t, <<pose.p.x, pose.p.y>>) = <<c*x - s*y, s*x + c*y>>
    BY <1>7, <1>8 DEF TurnedBy
  <2> QED
    BY <1>7, <1>8, <2>1, TurnedPosition
<1>10. /\ turned.p.x = (c*x0 - s*y0) + tx /\ turned.p.y = (s*x0 + c*y0) + ty
       /\ turned.p.z = 0 /\ base.p.z = 0
  <2>1. TurnedBy(t, <<base.p.x, base.p.y>>) = <<c*x0 - s*y0, s*x0 + c*y0>>
    BY <1>7, <1>8 DEF TurnedBy
  <2> QED
    BY <1>8, <2>1 DEF BaseTurned
<1> HIDE DEF m, o, r, a, b, l
<1>11. /\ ground = <<x - x0, y - y0>> /\ ground \in Direction
       /\ TurnedBy(t, ground) = <<c * (x - x0) - s * (y - y0), s * (x - x0) + c * (y - y0)>>
  BY <1>7, <1>8 DEF TurnedBy, Direction
<1>12. groundT = TurnedBy(t, ground)
  <2>1. /\ ((c*x - s*y) + tx) - ((c*x0 - s*y0) + tx) = c * (x - x0) - s * (y - y0)
        /\ ((s*x + c*y) + ty) - ((s*x0 + c*y0) + ty) = s * (x - x0) + c * (y - y0)
    OBVIOUS
  <2> QED
    BY <1>9, <1>10, <1>11, <2>1
<1>13. /\ b.ground[1] = l * l * l * a.ground[1]
       /\ b.ground[2] = l * l * l * a.ground[2]
  BY <1>2, <1>3, <1>5, <1>11, <1>12
<1>14. b.height = l * a.height
  <2>1. z - 0 = z /\ k * z - 0 = k * z
    OBVIOUS
  <2> QED
    BY <1>2, <1>3, <1>7, <1>8, <1>9, <1>10, <2>1
<1>15. ASSUME NEW i \in 1 .. 2
       PROVE  /\ b.axes[i][1] = l * l * l * a.axes[i][1]
              /\ b.axes[i][2] = l * l * l * a.axes[i][2]
              /\ b.up[i] = l * a.up[i]
  <2>1. <<m[1][i], m[2][i]>> \in Direction
    BY <1>4, <1>15 DEF Direction
  <2>2. /\ a.axes[i] = Unturn(base, <<m[1][i], m[2][i]>>)
        /\ b.axes[i] = Unturn(turned, TurnedBy(t, <<m[1][i], m[2][i]>>))
    BY <1>2, <1>3, <1>6, <1>15
  <2>3. b.up[i] = l * a.up[i]
    BY <1>2, <1>3, <1>6, <1>15
  <2> QED
    BY <1>5, <2>1, <2>2, <2>3
<1>16. Scaled(l, a, b)
  BY <1>13, <1>14, <1>15 DEF Scaled
<1> QED
  BY <1>16 DEF a, b, l, r

(* Same, for a turn of length l.                                           *)
SameBy(l, a, b) == b.h = l * a.h /\ b.g = l * l * l * a.g

(* The robot's own orientation adds nothing to the difference.             *)
LEMMA RelativeScales ==
  ASSUME NEW robot \in Quat, NEW l \in Int,
         NEW a \in AlignedType, NEW b \in AlignedType, Scaled(l, a, b)
  PROVE  \A row \in 1 .. 3 :
           /\ SameBy(l, Relative(robot, a).pos[row], Relative(robot, b).pos[row])
           /\ \A c \in 1 .. 2 :
                SameBy(l, Relative(robot, a).rot[c][row], Relative(robot, b).rot[c][row])
<1> DEFINE r == Rotation(robot)
           Part(g, h) == [row \in 1 .. 3 |->
                            [g |-> r[1][row] * g[1] + r[2][row] * g[2],
                             h |-> r[3][row] * h]]
           Pos(x) == IF override THEN Part(<<0, 0>>, 0) ELSE Part(x.ground, x.height)
<1>1. \A i, j \in 1 .. 3 : r[i][j] \in Int
  BY Entries
<1> HIDE DEF r
<1>2. \A x : /\ Relative(robot, x).pos = Pos(x)
             /\ \A c \in 1 .. 2 : Relative(robot, x).rot[c] = Part(x.axes[c], x.up[c])
  BY DEF Relative, r
<1>3. ASSUME NEW g \in Direction, NEW k \in Direction, NEW h \in Int, NEW u \in Int,
             k[1] = l * l * l * g[1], k[2] = l * l * l * g[2], u = l * h,
             NEW row \in 1 .. 3
      PROVE  SameBy(l, Part(g, h)[row], Part(k, u)[row])
  <2>1. PICK r1 \in Int, r2 \in Int, r3 \in Int :
          r1 = r[1][row] /\ r2 = r[2][row] /\ r3 = r[3][row]
    BY <1>1
  <2>2. PICK g1 \in Int, g2 \in Int : g1 = g[1] /\ g2 = g[2]
    BY DEF Direction
  <2>3. /\ Part(g, h)[row] = [g |-> r1 * g1 + r2 * g2, h |-> r3 * h]
        /\ Part(k, u)[row] = [g |-> r1 * (l * l * l * g1) + r2 * (l * l * l * g2),
                              h |-> r3 * (l * h)]
    BY <1>3, <2>1, <2>2
  <2>4. /\ r1 * (l * l * l * g1) + r2 * (l * l * l * g2) = l * l * l * (r1 * g1 + r2 * g2)
        /\ r3 * (l * h) = l * (r3 * h)
    BY SMTT(60)
  <2> QED
    BY <2>3, <2>4 DEF SameBy
<1> HIDE DEF Part
<1>4. /\ \A c \in 1 .. 2 : a.axes[c] \in Direction /\ a.up[c] \in Int
      /\ \A c \in 1 .. 2 : b.axes[c] \in Direction /\ b.up[c] \in Int
      /\ a.ground \in Direction /\ a.height \in Int
      /\ b.ground \in Direction /\ b.height \in Int
  BY DEF AlignedType
<1>5. ASSUME NEW row \in 1 .. 3, NEW c \in 1 .. 2
      PROVE  SameBy(l, Part(a.axes[c], a.up[c])[row], Part(b.axes[c], b.up[c])[row])
  <2>1. /\ b.axes[c][1] = l * l * l * a.axes[c][1]
        /\ b.axes[c][2] = l * l * l * a.axes[c][2]
        /\ b.up[c] = l * a.up[c]
    BY DEF Scaled
  <2>2. /\ a.axes[c] \in Direction /\ b.axes[c] \in Direction
        /\ a.up[c] \in Int /\ b.up[c] \in Int
    BY <1>4
  <2> QED
    BY <1>3, <2>1, <2>2
<1>6. ASSUME NEW row \in 1 .. 3
      PROVE  SameBy(l, Pos(a)[row], Pos(b)[row])
  <2>1. CASE override
    <3>1. <<0, 0>> \in Direction /\ l * l * l * 0 = 0 /\ l * 0 = 0
      BY DEF Direction
    <3>2. SameBy(l, Part(<<0, 0>>, 0)[row], Part(<<0, 0>>, 0)[row])
      <4> DEFINE g == <<0, 0>>
      <4>1. g \in Direction /\ g[1] = l * l * l * g[1] /\ g[2] = l * l * l * g[2]
        BY <3>1
      <4> HIDE DEF g
      <4>2. SameBy(l, Part(g, 0)[row], Part(g, 0)[row])
        BY <1>3, <3>1, <4>1
      <4> QED
        BY <4>2 DEF g
    <3> QED
      BY <2>1, <3>2
  <2>2. CASE ~override
    <3>1. SameBy(l, Part(a.ground, a.height)[row], Part(b.ground, b.height)[row])
      BY <1>3, <1>4 DEF Scaled
    <3> QED
      BY <2>2, <3>1
  <2> QED
    BY <2>1, <2>2
<1> HIDE DEF Pos
<1> QED
  BY <1>2, <1>5, <1>6

(* As long as the first frame was level, the two bases belong together.    *)
HeadingInv ==
  /\ TypeOK
  /\ anchor # None /\ Level(start.q) => BaseTurned(turn, bases[1], bases[2])

(* Turning and shifting a clip that starts level changes no observation of *)
(* any of its frames, for any turn, any frames and any robot.              *)
THEOREM HeadingIgnored == Spec => []ClipHeadingIsIgnored
<1>1. Init => HeadingInv /\ ClipHeadingIsIgnored
  <2> SUFFICES ASSUME Init PROVE HeadingInv /\ ClipHeadingIsIgnored
    OBVIOUS
  <2>1. TypeOK
    BY InitType
  <2> QED
    BY <2>1 DEF Init, HeadingInv, ClipHeadingIsIgnored
<1>2. HeadingInv /\ ClipHeadingIsIgnored /\ [Next]_vars => (HeadingInv /\ ClipHeadingIsIgnored)'
  <2> SUFFICES ASSUME HeadingInv, ClipHeadingIsIgnored, [Next]_vars
               PROVE  (HeadingInv /\ ClipHeadingIsIgnored)'
    OBVIOUS
  <2>1. TypeOK /\ TypeOK'
    BY TypeStep DEF HeadingInv
  <2>2. turn \in Turn /\ start \in Pose
    BY <2>1, PosesAssumption DEF TypeOK
  <2>3. CASE SetBase
    <3>1. bases'[1] \in Bases(start) /\ bases'[2] \in Bases(Turned(turn, start))
      BY <2>3 DEF SetBase
    <3>2. Level(start.q) => BaseTurned(turn, bases'[1], bases'[2])
      BY <2>2, <3>1, BasesTurn
    <3>3. HeadingInv'
      BY <2>1, <2>3, <3>2 DEF SetBase, HeadingInv
    <3>4. ClipHeadingIsIgnored'
      BY <2>3 DEF SetBase, ClipHeadingIsIgnored, Same
    <3> QED
      BY <3>3, <3>4
  <2>4. ASSUME NEW robot \in Robots, NEW next \in Anchors, Observe(robot, next)
        PROVE  (HeadingInv /\ ClipHeadingIsIgnored)'
    <3>1. HeadingInv'
      BY <2>1, <2>4 DEF Observe, HeadingInv
    <3>2. ClipHeadingIsIgnored'
      <4> DEFINE a == Align(bases[1], anchor)
                 b == Align(bases[2], Turned(turn, anchor))
                 l == Length(turn)
      <4> SUFFICES ASSUME Level(start.q)
                   PROVE  \A row \in 1 .. 3 :
                            /\ SameBy(l, observed'[1].pos[row], observed'[2].pos[row])
                            /\ \A c \in 1 .. 2 :
                                 SameBy(l, observed'[1].rot[c][row], observed'[2].rot[c][row])
        BY <2>4 DEF Observe, ClipHeadingIsIgnored, Level, Same, SameBy, Length
      <4>1. /\ robot \in Quat /\ anchor \in Pose /\ Turned(turn, anchor) \in Pose
            /\ bases[1] \in BaseType /\ bases[2] \in BaseType /\ l \in Int
        BY <2>1, <2>2, <2>4, PosesAssumption, TurnedType, TurnMatrix DEF TypeOK, Observe
      <4>2. BaseTurned(turn, bases[1], bases[2])
        BY <2>4 DEF Observe, HeadingInv
      <4>3. a \in AlignedType /\ b \in AlignedType
        BY <4>1, AlignType
      <4>4. Scaled(l, a, b)
        BY <2>2, <4>1, <4>2, AlignTurns
      <4>5. observed' = <<Relative(robot, a), Relative(robot, b)>>
        BY <2>4 DEF Observe
      <4> HIDE DEF a, b, l
      <4>6. \A row \in 1 .. 3 :
              /\ SameBy(l, Relative(robot, a).pos[row], Relative(robot, b).pos[row])
              /\ \A c \in 1 .. 2 :
                   SameBy(l, Relative(robot, a).rot[c][row], Relative(robot, b).rot[c][row])
        BY <4>1, <4>3, <4>4, RelativeScales
      <4> QED
        BY <4>5, <4>6
    <3> QED
      BY <3>1, <3>2
  <2>5. CASE UNCHANGED vars
    BY <2>1, <2>5 DEF vars, HeadingInv, ClipHeadingIsIgnored, Same
  <2> QED
    BY <2>3, <2>4, <2>5 DEF Next
<1> QED
  BY <1>1, <1>2, PTL DEF Spec

(* "yaw-only + xy-only alignment" does what it is meant for whenever the   *)
(* clip starts level: its first frame, aligned, faces forward.             *)
THEOREM LevelStartFacesForward == Spec => [](Level(start.q) => StartFacesForward)
<1>1. YawInv => (Level(start.q) => StartFacesForward)
  <2> SUFFICES ASSUME YawInv, Level(start.q), anchor # None
               PROVE  /\ Align(bases[1], start).axes[1][1] >= 0
                      /\ Align(bases[1], start).axes[1][2] = 0
    BY DEF StartFacesForward
  <2> DEFINE m == Rotation(start.q)
  <2>1. start.q \in Quat /\ bases[1].yaw \in Yaws(start.q)
    BY PosesAssumption DEF YawInv, Pose
  <2>2. PICK m21 \in Int, m22 \in Int, n \in Int :
          m21 = m[2][1] /\ m22 = m[2][2] /\ n = Norm(start.q)
    BY <2>1, Entries DEF Norm, Quat
  <2>3. bases[1].yaw = <<n * m22, n * m21>> /\ m[1][1] = m22
    BY <2>1, <2>2, LevelYaw
  <2>4. Align(bases[1], start).axes[1] = Unturn(bases[1], <<m[1][1], m[2][1]>>)
    BY DEF Align
  <2> HIDE DEF m
  <2>5. Align(bases[1], start).axes[1] =
          <<n * m22 * m22 + n * m21 * m21, n * m22 * m21 - n * m21 * m22>>
    BY <2>2, <2>3, <2>4 DEF Unturn
  <2>6. n >= 0
    <3>1. PICK w \in Int, z \in Int : start.q.w = w /\ start.q.z = z
      BY <2>1 DEF Quat
    <3>2. n = w*w + 0*0 + 0*0 + z*z
      BY <2>2, <3>1 DEF Norm, Level
    <3>3. n = w*w + z*z
      BY <3>2
    <3> QED
      BY <3>3, SquareSigns
  <2>7. /\ n * m22 * m22 + n * m21 * m21 = n * (m22 * m22 + m21 * m21)
        /\ n * m22 * m21 - n * m21 * m22 = 0
    BY SMTT(60)
  <2>8. m22 * m22 + m21 * m21 >= 0
    BY SquareSigns
  <2>9. n * (m22 * m22 + m21 * m21) >= 0
    <3> DEFINE s == m22 * m22 + m21 * m21
    <3>1. s \in Int
      OBVIOUS
    <3> HIDE DEF s
    <3>2. n * s >= 0
      BY <2>6, <2>8, <3>1, ProductSigns DEF s
    <3> QED
      BY <3>2 DEF s
  <2> QED
    BY <2>5, <2>7, <2>9
<1> QED
  BY <1>1, YawIsKept, PTL

===============================================================================
