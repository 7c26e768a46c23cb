------------------------------ MODULE MCReplay ------------------------------
(* Two tracks that share neither cylinder nor head. *)
EXTENDS Replay

MCPositions == {<<0, 1>>, <<1, 0>>}

=============================================================================
