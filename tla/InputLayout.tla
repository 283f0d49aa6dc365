---------------------------- MODULE InputLayout ----------------------------
(***************************************************************************)
(* Where the parts of the input of the optimal control problem lie: the    *)
(* accessors of floating_base_model, and the rows the approximations of    *)
(* the costs and constraints write by their own arithmetic. End effectors  *)
(* are counted from 0, those with 3 degrees of freedom first; the rows of  *)
(* their forces and wrenches come first, those of the joints after them.   *)
(*                                                                         *)
(* Definitions named Faulty... are what the definition that follows them   *)
(* would be with a plausible mistake; they are not part of the model.      *)
(***************************************************************************)
EXTENDS Integers

CONSTANTS
  ThreeDof,  \* numThreeDofContacts
  SixDof,    \* numSixDofContacts
  Actuated   \* actuatedDofNum

ASSUME SizesAssumption == ThreeDof \in Nat /\ SixDof \in Nat /\ Actuated \in Nat

Legs == 0 .. ThreeDof + SixDof - 1
ThreeDofLegs == 0 .. ThreeDof - 1
SixDofLegs == ThreeDof .. ThreeDof + SixDof - 1

-----------------------------------------------------------------------------
(* AccessHelperFunctions.                                                  *)

StartRow(i) == IF i \in ThreeDofLegs THEN 3 * i ELSE 3 * ThreeDof + 6 * (i - ThreeDof)

ContactForces(i) == StartRow(i) .. StartRow(i) + 2

ContactTorques(i) ==
  LET start == 3 * ThreeDof + 6 * (i - ThreeDof) + 3 IN start .. start + 2

ContactWrenches(i) ==
  LET start == 3 * ThreeDof + 6 * (i - ThreeDof) IN start .. start + 5

JointVelocities ==
  LET start == 3 * ThreeDof + 6 * SixDof IN start .. start + Actuated - 1

InputRows == 0 .. 3 * ThreeDof + 6 * SixDof + Actuated - 1

\* All the rows of one contact, and those computeSpatialForces takes the forces on the
\* robot from.
LegRows(i) == IF i \in ThreeDofLegs THEN ContactForces(i) ELSE ContactWrenches(i)
AppliedRows == UNION {LegRows(i) : i \in Legs}

-----------------------------------------------------------------------------
(* The derivatives by the input.                                           *)

ForceSize == 3 * ThreeDof + 6 * SixDof

\* linearApproximation.dfdu of the two constraints of a swinging leg.
FaultyZeroWrenchRows(i) == 6 * i .. 6 * i + 5
ZeroForceRows(i) == 3 * i .. 3 * i + 2
ZeroWrenchRows(i) ==
  LET startRow == 3 * ThreeDof + 6 * (i - ThreeDof) IN startRow .. startRow + 5

\* cost.dfdu of the friction cones.
ForceConeRows(i) == 3 * i .. 3 * i + 2
WrenchConeRows(i) ==
  LET startIndex == 3 * ThreeDof + 6 * (i - ThreeDof) IN startIndex .. startIndex + 5

\* cost.dfdu of the tracking cost.
FaultyTrackedRows(i) == IF i < ThreeDof THEN 3 * i .. 3 * i + 2 ELSE 6 * i .. 6 * i + 5
TrackedRows(i) ==
  IF i < ThreeDof
  THEN 3 * i .. 3 * i + 2
  ELSE LET forceStartIndex == 6 * i - 3 * ThreeDof
           torqueStartIndex == forceStartIndex + 3
       IN  (forceStartIndex .. forceStartIndex + 2)
             \cup (torqueStartIndex .. torqueStartIndex + 2)

\* The block of the joints, of the tracking cost and of the joint limits.
TrackedJointRows == ForceSize .. ForceSize + Actuated - 1
LimitedJointRows == ForceSize .. ForceSize + Actuated - 1

\* The block of the forces, of the torque cost and of the torque limits.
TorqueRows == 0 .. ForceSize - 1
=============================================================================
