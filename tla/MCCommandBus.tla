----------------------------- MODULE MCCommandBus -----------------------------
(* Instances of CommandBus for TLC. *)
EXTENDS CommandBus

CONSTANTS elbow, typo

MCJoints == {elbow}
MCOthers == {typo}

(* A move that takes two periods, and is measured to have begun or not.    *)
MCArgs == {[preset |-> [j \in {elbow} |-> 2], joints |-> None, targets |-> None,
            hold |-> FALSE, zero |-> FALSE, duration |-> 2]}
MCStates == {[j \in {elbow} |-> p] : p \in {0, 1}}

(* A clip of two frames and an endless one.                                *)
MCClips == {[start |-> 0, max |-> 2], [start |-> 5, max |-> -1]}

===============================================================================
