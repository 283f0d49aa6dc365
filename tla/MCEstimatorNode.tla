-------------------------- MODULE MCEstimatorNode --------------------------
(* Instances of EstimatorNode for TLC.                                      *)
EXTENDS EstimatorNode, TLC

CONSTANTS hip, knee, foot

\* A right message, one of a wrong size, one with an unknown name after the hip and
\* one that names the hip twice.
SomeJointMessages ==
  {[fits |-> TRUE, known |-> TRUE, named |-> {hip, knee}],
   [fits |-> FALSE, known |-> TRUE, named |-> {}],
   [fits |-> TRUE, known |-> FALSE, named |-> {hip}],
   [fits |-> TRUE, known |-> TRUE, named |-> {hip}]}

\* A right message, one of a wrong size and one that names an unknown frame.
SomeContactMessages ==
  {[fits |-> TRUE, named |-> {foot}], [fits |-> FALSE, named |-> {}],
   [fits |-> TRUE, named |-> {}]}
=============================================================================
