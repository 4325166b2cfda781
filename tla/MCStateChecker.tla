---------------------------- MODULE MCStateChecker ----------------------------
(* An instance of StateChecker for TLC. *)
EXTENDS StateChecker

(* One line a second, one in two seconds, two a second; no rate, negative. *)
MCRates == {[num |-> 1, den |-> 1], [num |-> 1, den |-> 2], [num |-> 2, den |-> 1],
            [num |-> 0, den |-> 1], [num |-> -1, den |-> 1]}

===============================================================================
