-------------------------- MODULE MCControllerNode --------------------------
(* Instances of ControllerNode for TLC.                                     *)
EXTENDS ControllerNode, TLC
=============================================================================
