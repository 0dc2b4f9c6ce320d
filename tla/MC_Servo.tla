-------------------------------- MODULE MC_Servo --------------------------------
(* Two servos: a joint and the gripper. *)
EXTENDS ServoBus

MCOrder == <<"pan", "gripper">>
=============================================================================
