---------------------------- MODULE MCJointRouting ----------------------------
(* Instances of JointRouting for TLC. *)
EXTENDS JointRouting

(* Three joints with the names 11, 12, 13 and the wire names 1, 2.         *)
Lists(S) == UNION {[1 .. n -> S] : n \in 1 .. 3}
Maps == {NoMap} \cup [{1} -> {11, 12}] \cup [{1, 2} -> {11, 12}]
                \cup {[w \in {1, 12} |-> 11]}

(* An empty list of robot joints leaves the adapters unbuilt.              *)
MCConfigs == {[model |-> m, robot |-> r, map |-> f] :
                m \in Lists({11, 12}), r \in Lists({11, 12, 13}) \cup {<<>>},
                f \in Maps}

MCMessages == {[names |-> <<1, 2, 12, 13>>, positions |-> 4, velocities |-> 4],
               [names |-> <<12, 11, 1, 1>>, positions |-> 4, velocities |-> 2]}

(* config/rl_config.yaml and the committed model.  The robot's joints are  *)
(* 101 to 125 in the order of the list, the wire names of the legs 1 to 12.*)
DeployedConfig ==
  [model |-> <<101, 107, 113, 102, 108, 114, 116, 121, 103, 109, 115, 117, 122,
               104, 110, 118, 123, 105, 111, 119, 124, 106, 112, 120, 125>>,
   robot |-> [i \in 1 .. 25 |-> 100 + i],
   map   |-> [w \in 1 .. 12 |-> 100 + w]]

(* hl_motion's 49 joints: the legs by wire name, the upper body by its own *)
(* names, and 24 that are not controlled, reported in three rotations of   *)
(* their order and with all, some or none of the positions.                *)
AllWires == [i \in 1 .. 49 |-> IF i <= 12 THEN i ELSE 100 + i]
DeployedMessages ==
  {[names |-> [i \in 1 .. 49 |-> AllWires[1 + ((i + r) % 49)]],
    positions |-> p, velocities |-> 49] : r \in {0, 12, 31}, p \in {0, 30, 49}}

(* The small lists and the deployed ones, with messages of both kinds.     *)
MCAllConfigs == MCConfigs \cup {DeployedConfig}
MCAllMessages == MCMessages \cup DeployedMessages

(* One configuration without robot_joint_names.                            *)
MCOneToOne == {[model |-> <<11, 12>>, robot |-> <<>>, map |-> NoMap]}

===============================================================================
