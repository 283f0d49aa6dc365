---------------------------- MODULE StateLayout ----------------------------
(***************************************************************************)
(* Where the parts of the state of the optimal control problem lie, and    *)
(* where the kinematics put the quantities of each body: the accessors and *)
(* the mapping of floating_base_model, the vectors that the kinematics     *)
(* libraries return, and the rows of the state the costs write to.         *)
(*                                                                         *)
(* A part is a pair: the rows a value is computed from, and the rows its   *)
(* derivative is written to.                                               *)
(***************************************************************************)
EXTENDS InputLayout

-----------------------------------------------------------------------------
(* createFloatingBaseModelInfo and AccessHelperFunctions.                  *)

GeneralizedNum == Actuated + 6
StateDim == GeneralizedNum + 6
InputDim == Actuated + 3 * ThreeDof + 6 * SixDof

StateRows == 0 .. StateDim - 1

BaseVelocity == 0 .. 5
BaseLinearVelocity == 0 .. 2
BaseAngularVelocity == 3 .. 5
BasePosition == 6 .. 8
BaseOrientation == 9 .. 11
JointPositions == 12 .. 12 + Actuated - 1

\* FloatingBaseModelPinocchioMapping: the rows the configuration and the velocity of
\* the robot are made of; the joint velocities come from the input.
Configuration == (BasePosition \cup BaseOrientation) \cup JointPositions
Motion == BaseVelocity \cup Configuration

\* The torques are those of the forces at rest.
Torque == Configuration

-----------------------------------------------------------------------------
(* The kinematics: the row at which a generated library puts a quantity of *)
(* a body, the row from which the quantity at a place of the list is cut,  *)
(* and the place the getter of the precomputation looks at. Bodies are     *)
(* counted as by the getters: the end effectors, then the links.           *)

PositionRow(i) == 3 * i
VelocityRow(i) == 3 * i
OrientationRow(i) == 3 * (i - ThreeDof)
AngularVelocityRow(i) == 3 * (i - ThreeDof)
LinkRow(i) == LET k == i - (ThreeDof + SixDof) IN 3 * k

PositionCut(place) == 3 * place
VelocityCut(place) == 3 * place
OrientationCut(place) == 3 * place
AngularVelocityCut(place) == 3 * place
LinkCut(place) == 3 * place

LegPlace(i) == i
SolePlace(i) == i - ThreeDof
LinkPlace(i) == i - (ThreeDof + SixDof)

-----------------------------------------------------------------------------
(* The parts of the costs that are written block by block.                 *)

Block(first, size) == first .. first + size - 1

\* The value and the approximation take the angular velocity of the base with the
\* getter of the linear velocity.
MisreadAngularVelocity == <<BaseLinearVelocity, Block(3, 3)>>

TrackedBase ==
  {<<BasePosition, Block(6, 3)>>, <<BaseOrientation, Block(9, 3)>>,
   <<BaseLinearVelocity, Block(0, 3)>>, MisreadAngularVelocity}

\* The right columns of the derivatives of the end effectors: positions by the state,
\* velocities by the state and by the input.
TrackedEffectors ==
  {<<Configuration, Block(StateDim - (StateDim - 6), StateDim - 6)>>,
   <<Motion, Block(0, StateDim)>>,
   <<JointVelocities, Block(InputDim - Actuated, Actuated)>>}

TrackedJoints == {<<JointPositions, Block(12, Actuated)>>}

TrackedState == TrackedBase \cup (TrackedEffectors \cup TrackedJoints)

\* The dynamics stack the derivatives of the parts of the state one after the other.
Flow ==
  {<<BaseVelocity, Block(0, 6)>>, <<BasePosition, Block(6, 3)>>,
   <<BaseOrientation, Block(9, 3)>>, <<JointPositions, Block(12, Actuated)>>}

TorqueState == {<<Torque, Block(6, GeneralizedNum)>>}
NormalState == {<<Configuration, Block(6, GeneralizedNum)>>}
LimitedState == {<<JointPositions, Block(12, Actuated)>>}
=============================================================================
