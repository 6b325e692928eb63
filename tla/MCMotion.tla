------------------------------ MODULE MCMotion ------------------------------
(* A ghost whose player runs, sneaks, jumps with a weapon drawn, aims and  *)
(* dies.                                                                   *)
EXTENDS Motion

Pose(x, v, f) == [x |-> x, v |-> v, flags |-> f]

FewPoses == {Pose(0, 0, {"Dead", "Sighted"}), Pose(3, 2, {}),
             Pose(1, 0, {"Sneak", "Drawn"})}
OneAnim == {{"Sighted"}}
=============================================================================
