-------------------------- MODULE MCTransformAlignment -------------------------
(* Instances of TransformAlignment for TLC. *)
EXTENDS TransformAlignment

Q(w, x, y, z) == [w |-> w, x |-> x, y |-> y, z |-> z]
P(x, y, z) == [x |-> x, y |-> y, z |-> z]
Poses(quats, places) == [q: quats, p: places]

(* Level starts: yaws of 0, 53, 90, 127, 180 and -53 degrees.              *)
MCLevel == Poses({Q(1,0,0,0), Q(2,0,0,1), Q(1,0,0,1), Q(1,0,0,2), Q(0,0,0,1),
                  Q(2,0,0,-1)},
                 {P(0,0,1), P(3,-2,1)})

(* Later frames: standing, leaning, lying, upside down, and in between.    *)
MCAnchors == Poses({Q(1,0,0,0), Q(3,-1,0,0), Q(1,1,0,0), Q(1,0,-1,0),
                    Q(0,1,0,0), Q(1,2,-1,3)},
                   {P(1,2,3)})

MCTurns == {[w |-> 1, z |-> 0, x |-> 5, y |-> -1], [w |-> 0, z |-> 1, x |-> 0, y |-> 0],
            [w |-> 1, z |-> 1, x |-> 2, y |-> 7], [w |-> 2, z |-> -1, x |-> 0, y |-> 3]}

MCRobots == {Q(1,0,0,0), Q(1,0,0,1), Q(2,1,-1,3)}

(* Starts of any tilt: every orientation with small coefficients, q and -q *)
(* being the same, and a roll of 14 degrees to the one or the other side.  *)
Small == -1 .. 1
MCTilted == Poses({Q(8,1,0,0), Q(8,-1,0,0)}, {P(0,0,1)})
MCAnyStart == Poses({q \in [w: {0, 1}, x: Small, y: Small, z: Small] : Norm(q) # 0},
                    {P(1,1,1)})

MCStarts == MCLevel \cup MCAnyStart \cup MCTilted

MCOneTurn == {[w |-> 1, z |-> 1, x |-> 0, y |-> 0]}
MCNone == {}

===============================================================================
