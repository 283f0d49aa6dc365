------------------------ MODULE PrecomputationCache ------------------------
(***************************************************************************)
(* LeggedPrecomputation: the quantities a solver thread computes once per  *)
(* node of the horizon and the terms of the optimal control problem read.  *)
(* A kind is a group of quantities that one update computes; a derivative  *)
(* is a kind of its own. What the module keeps is which kinds a request    *)
(* computes and which indices the getters of a kind accept.                *)
(***************************************************************************)
EXTENDS CollisionModel, StateLayout

\* ocs2::Request, without Dynamics, which the precomputation does not look at.
Categories == {"Cost", "Constraint", "SoftConstraint"}
Flags == Categories \cup {"Approximation"}

LegKinds == {"position", "positionD", "velocity", "velocityD", "reference", "wrench"}
SixDofKinds == {"orientation", "orientationD", "angular", "angularD"}
LinkKinds == {"link", "linkD"}
TorqueKinds == {"torque", "torqueD"}
Kinds == LegKinds \cup SixDofKinds \cup LinkKinds \cup TorqueKinds

\* request: the kinds, each with its derivative when an approximation is asked for.
WithDerivative(kind, derivative, request) ==
  IF "Approximation" \in request THEN {kind, derivative} ELSE {kind}

MotionKinds(request) ==
  IF request \cap Categories = {} THEN {}
  ELSE WithDerivative("position", "positionD", request)
         \cup WithDerivative("velocity", "velocityD", request)

ReferenceKinds(request) ==
  IF request \cap {"Constraint", "SoftConstraint"} = {} THEN {}
  ELSE {"reference"} \cup WithDerivative("orientation", "orientationD", request)

TorqueKindsOf(request) ==
  IF request \cap {"SoftConstraint", "Cost"} = {} THEN {}
  ELSE WithDerivative("torque", "torqueD", request)

AngularKinds(request) ==
  IF "Constraint" \notin request THEN {}
  ELSE WithDerivative("angular", "angularD", request)

CollisionKinds(request) ==
  IF "SoftConstraint" \notin request THEN {}
  ELSE WithDerivative("link", "linkD", request)

CompensationKinds(request) == IF "Cost" \in request THEN {"wrench"} ELSE {}

Computed(request) ==
  UNION {MotionKinds(request), ReferenceKinds(request), TorqueKindsOf(request),
         AngularKinds(request), CollisionKinds(request), CompensationKinds(request)}

\* The indices a getter accepts, for a file with the given number of links.
Held(kind, links) ==
  LET legs == ThreeDof + SixDof
  IN  CASE kind \in LegKinds -> 0 .. legs - 1
        [] kind \in SixDofKinds -> ThreeDof .. legs - 1
        [] kind \in LinkKinds -> legs .. legs + links - 1
        [] kind \in TorqueKinds -> {0}

\* What the getter of a kind returns is what the kinematics computed for that body.
SameBody(kind, i) ==
  CASE kind \in {"position", "positionD"} -> PositionCut(LegPlace(i)) = PositionRow(i)
    [] kind \in {"velocity", "velocityD"} -> VelocityCut(LegPlace(i)) = VelocityRow(i)
    [] kind \in {"orientation", "orientationD"} -> OrientationCut(SolePlace(i)) = OrientationRow(i)
    [] kind \in {"angular", "angularD"} -> AngularVelocityCut(SolePlace(i)) = AngularVelocityRow(i)
    [] kind \in LinkKinds -> LinkCut(LinkPlace(i)) = LinkRow(i)
    [] OTHER -> TRUE
=============================================================================
