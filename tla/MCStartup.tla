------------------------------- MODULE MCStartup -------------------------------
(* Instances of Startup for TLC. *)
EXTENDS Startup

YAMLKeys(joints, defaults, scales, bodies) ==
  [joints |-> joints, defaults |-> defaults, scales |-> scales, bodies |-> bodies]

(* The shape of config/rl_config.yaml and of the committed model.          *)
Deployed ==
  [loads |-> TRUE, yaml |-> [l \in Lists |-> None],
   meta |-> YAMLKeys(25, 25, 25, 14), robot |-> 25, anchor |-> 0,
   estimator |-> FALSE, residual |-> FALSE, inputs |-> 2, obs |-> 134,
   outputs |-> <<25, 25, 25, 42, 56, 42, 42>>]

(* Two joints and two bodies, which the files may give, override, or miss. *)
Small == [Deployed EXCEPT !.robot = 2, !.obs = 19, !.outputs = <<2, 2, 2, 6, 8>>]

(* Every mix of lists from the metadata and the YAML file.                 *)
MCLists ==
  {[Small EXCEPT !.meta = YAMLKeys(j, d, s, 2), !.yaml = YAMLKeys(yj, yd, ys, None),
                 !.robot = r, !.residual = e] :
     j \in {0, 2}, d \in {0, 1, 2}, s \in {0, 2}, yj \in {None, 1, 2, 3},
     yd \in {None, 0, 1, 3}, ys \in {None, 0, 1, 3}, r \in {0, 2}, e \in BOOLEAN}

(* Models with missing, short and long outputs, and other inputs.          *)
MCModels ==
  {[Small EXCEPT !.outputs = o, !.obs = n, !.inputs = i, !.anchor = a,
                 !.estimator = e, !.meta = YAMLKeys(2, 2, 2, b)] :
     o \in {<<>>, <<2>>, <<2, 2>>, <<2, 2, 2>>, <<2, 2, 2, 6>>, <<2, 2, 2, 6, 8>>,
            <<1, 2, 2, 6, 8>>, <<2, 1, 2, 6, 8>>, <<2, 2, 2, 3, 4>>, <<2, 0, 2, 6, 8>>},
     n \in {-1, 18, 19, 20, 22}, i \in 1 .. 3, a \in 0 .. 2, e \in BOOLEAN,
     b \in {0, 2}}

MCSources == MCLists \cup MCModels
             \cup {Deployed, [Deployed EXCEPT !.loads = FALSE],
                   [Deployed EXCEPT !.yaml["joints"] = 23]}

===============================================================================
