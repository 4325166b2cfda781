-------------------------- MODULE MCRLControllerNode --------------------------
(* Instances of RLControllerNode for TLC. *)
EXTENDS RLControllerNode

(* The shape of config/rl_config.yaml and of the committed model, with a   *)
(* shorter clip; the other configurations differ from it in a few fields.  *)
Deployed == [loads |-> TRUE, hz |-> 50, start |-> 0, max |-> 3, beta |-> "one",
             residual |-> FALSE, outputs |-> 7, bodies |-> TRUE]

(* Clips: from the start, from the middle, from the end, past it, endless. *)
Clips == {<<0, 3>>, <<1, 3>>, <<3, 3>>, <<5, 2>>, <<0, -1>>, <<-1, 1>>}

MCClips == {[Deployed EXCEPT !.start = c[1], !.max = c[2], !.beta = b,
                             !.residual = (b # "one")] :
              c \in Clips, b \in {"zero", "part", "one"}}

(* Models that return fewer tensors, for each use of the missing ones.     *)
MCModels == {[Deployed EXCEPT !.outputs = n, !.bodies = b, !.residual = r,
                              !.max = 2] :
               n \in 0 .. 5, b \in BOOLEAN, r \in BOOLEAN}

(* Start-ups: a failing loadConfig and unusual control rates.              *)
MCStartups == {[Deployed EXCEPT !.loads = l, !.hz = z, !.max = 1] :
                 l \in BOOLEAN, z \in {-2000, -50, 0, 50}}

(* Finite clips, and models and start-ups that may end the process first.  *)
MCFinite == MCStartups \cup
            {[Deployed EXCEPT !.max = 2], [Deployed EXCEPT !.start = 4],
             [Deployed EXCEPT !.outputs = 0], [Deployed EXCEPT !.outputs = 2]}

MCConfigs == MCClips \cup MCModels \cup MCFinite

MCDeployed == {[Deployed EXCEPT !.max = 2]}

===============================================================================
