----------------------- MODULE MCControllerObservation -----------------------
(* An instance of ControllerObservation for TLC. The base twist is polled     *)
(* and stamped like the base transform.                                       *)
EXTENDS ControllerObservation, TLC

PoseAndJoints == <<"base_transform", "joint_states">>
=============================================================================
