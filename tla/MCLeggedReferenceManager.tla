--------------------- MODULE MCLeggedReferenceManager ---------------------
(* Instances of LeggedReferenceManager for TLC.                             *)
EXTENDS LeggedReferenceManager

\* initialize sets version 1 of every input but the command: the gait then
\* changes once, the terrain twice, and two commands come.
SafetyVersions ==
  [contacts |-> 1, gait |-> 2, swing |-> 1, terrain |-> 3, command |-> 2]
LivenessVersions ==
  [contacts |-> 1, gait |-> 1, swing |-> 1, terrain |-> 2, command |-> 2]
=============================================================================
