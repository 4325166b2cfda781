---------------------------- MODULE MCActionFilter ----------------------------
(* Instances of ActionFilter for TLC. *)
EXTENDS ActionFilter

(* Blends of 0, 1/2 and 1 with a narrow clip, the deployed wide one, one   *)
(* that blocks everything and a negative one.                              *)
MCChecked == [weight: {0, 1, 2}, whole: {2}, clip: {-8, 0, 12, 100},
              scale: {0, 3, -2}, residual: BOOLEAN, default: {5}]

(* An action_beta of 3/2, which blends with a negative weight.             *)
MCOvershooting == [weight: {3}, whole: {2}, clip: {-8, 12}, scale: {3},
                   residual: {TRUE}, default: {0}]

MCConfigs == MCChecked \cup MCOvershooting

(* Multiples of 8: the dry run and two steps halve three times.            *)
MCRaws == {Fin(-24), Fin(0), Fin(8), Fin(16)} \cup {Inf(1), Inf(-1), NaN}

MCReferences == {None, Fin(7), Fin(40), Inf(-1), NaN}

===============================================================================
