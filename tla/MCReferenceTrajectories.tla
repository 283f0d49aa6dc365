---------------------- MODULE MCReferenceTrajectories ----------------------
(* Instances of ReferenceTrajectories, with the gaits of MCGaitPlanner.      *)
EXTENDS ReferenceTrajectories, MCGaitPlanner
=============================================================================
