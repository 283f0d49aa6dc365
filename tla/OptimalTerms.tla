---------------------------- MODULE OptimalTerms ----------------------------
(***************************************************************************)
(* The costs, constraints and soft constraints of the optimal control      *)
(* problem: which of them createOptimalProblem adds, what each of them     *)
(* reads from the precomputation, and which rows of the input its value    *)
(* and its derivative are about. A read is a pair of a kind and the index  *)
(* given to the getter. Penalties, weights and geometry are left out.      *)
(*                                                                         *)
(* A node is a record: stance, the legs in contact at its time, and        *)
(* placed, those with an active foothold constraint.                       *)
(***************************************************************************)
EXTENDS PrecomputationCache

Derived(derivatives, approximation) == IF approximation THEN derivatives ELSE {}

-----------------------------------------------------------------------------
(* createOptimalProblem.                                                   *)

EveryTerm ==
  {"TrajectoryTracking", "JointTorqueCost", "NormalVelocity", "Zero3DofVelocity",
   "Zero6DofVelocity", "ZeroForce", "ZeroWrench", "ForceFrictionCone", "WrenchFrictionCone",
   "EndEffectorPlacement", "JointLimits", "JointTorqueLimits", "TerrainAvoidance",
   "SelfCollisionAvoidance", "NormalOrientation"}

Terms(names, legs) == names \X legs

\* Terms that are not about one leg have leg 0.
CostTerms(settings) == Terms(settings \cap {"TrajectoryTracking", "JointTorqueCost"}, {0})

ConstraintTerms(settings) ==
  UNION {Terms(settings \cap {"NormalVelocity"}, Legs),
         Terms(settings \cap {"Zero3DofVelocity", "ZeroForce"}, ThreeDofLegs),
         Terms(settings \cap {"Zero6DofVelocity", "ZeroWrench"}, SixDofLegs)}

SoftConstraintTerms(settings) ==
  Terms(settings \cap
          UNION {IF ThreeDof > 0 THEN {"ForceFrictionCone"} ELSE {},
                 IF SixDof > 0 THEN {"WrenchFrictionCone", "NormalOrientation"} ELSE {},
                 {"EndEffectorPlacement", "JointLimits", "JointTorqueLimits",
                  "TerrainAvoidance", "SelfCollisionAvoidance"}},
        {0})

TermsOf(category, settings) ==
  CASE category = "Cost" -> CostTerms(settings)
    [] category = "Constraint" -> ConstraintTerms(settings)
    [] category = "SoftConstraint" -> SoftConstraintTerms(settings)

-----------------------------------------------------------------------------
(* Costs and constraints: approximation is FALSE for getValue, TRUE for    *)
(* getLinearApproximation and getQuadraticApproximation.                   *)

TrackingReads(approximation) ==
  ({"position", "velocity", "wrench"} \cup Derived({"positionD", "velocityD"}, approximation))
    \X Legs

TorqueCostReads(approximation) == {IF approximation THEN "torqueD" ELSE "torque"} \X {0}
TorqueLimitReads(approximation) == {IF approximation THEN "torqueD" ELSE "torque"} \X {0}

\* Of a leg that swings.
NormalVelocityReads(leg, node, approximation) ==
  ({"reference", "velocity"} \cup Derived({"velocityD"}, approximation)) \X ({leg} \ node.stance)

\* Of a leg in contact. The approximations take the values out of the derivatives.
Zero3DofReads(leg, node, approximation) ==
  {IF approximation THEN "velocityD" ELSE "velocity"} \X ({leg} \cap node.stance)
Zero6DofReads(leg, node, approximation) ==
  (IF approximation THEN {"velocityD", "angularD"} ELSE {"velocity", "angular"})
    \X ({leg} \cap node.stance)

ForceConeReads(node) == {"reference"} \X (ThreeDofLegs \cap node.stance)
WrenchConeReads(node) == {"orientation"} \X (SixDofLegs \cap node.stance)

PlacementReads(node, approximation) ==
  ({"position"} \cup Derived({"positionD"}, approximation)) \X (node.stance \cap node.placed)

NormalOrientationReads(node, approximation) ==
  ({"orientation", "reference"} \cup Derived({"orientationD"}, approximation))
    \X (SixDofLegs \cap node.stance)

-----------------------------------------------------------------------------
(* TerrainAvoidanceSoftConstraint: the legs that swing, then the links.    *)

TerrainLegReads(node, approximation) ==
  LET swing == Legs \ node.stance
  IN  (({"position", "reference"} \cup Derived({"positionD"}, approximation)) \X swing)
        \cup (({"orientation"} \cup Derived({"orientationD"}, approximation))
                \X (swing \cap SixDofLegs))

\* getValue gives the getters the place in the list instead of the index of the link.
MisplacedLinkReads(file) == {"link"} \X {k - 1 : k \in DOMAIN TerrainIndices(file)}
LinkReads(file) == {"link", "linkD"} \X {TerrainIndices(file)[k] : k \in DOMAIN TerrainIndices(file)}

TerrainReads(file, node, approximation) ==
  TerrainLegReads(node, approximation)
    \cup (IF approximation THEN LinkReads(file) ELSE MisplacedLinkReads(file))

-----------------------------------------------------------------------------
(* SelfCollisionAvoidanceSoftConstraint: the constructor sorts the pairs   *)
(* by what their members are, the evaluation goes through the six lists.   *)

Ends == ThreeDof + SixDof

Pairs33(pairs) == {pair \in pairs : pair[1] < ThreeDof /\ pair[2] < ThreeDof}

\* The one with 3 degrees of freedom comes first.
Pairs36(pairs) ==
  {pair \in pairs : pair[1] < ThreeDof /\ pair[2] \in SixDofLegs}
    \cup {<<pair[2], pair[1]>> : pair \in {p \in pairs : p[2] < ThreeDof /\ p[1] \in SixDofLegs}}

Pairs66(pairs) == {pair \in pairs : pair[1] \in SixDofLegs /\ pair[2] \in SixDofLegs}

\* The end effector comes first.
EndLinkPairs(pairs) ==
  {IF pair[1] < pair[2] THEN pair ELSE <<pair[2], pair[1]>> :
     pair \in {p \in pairs : (p[1] < Ends) # (p[2] < Ends)}}
Pairs3Link(pairs) == {pair \in EndLinkPairs(pairs) : pair[1] < ThreeDof}
Pairs6Link(pairs) == {pair \in EndLinkPairs(pairs) : ~(pair[1] < ThreeDof)}

LinkPairs(pairs) == {pair \in pairs : ~(pair[1] < Ends) /\ ~(pair[2] < Ends)}

\* A pair of end effectors that both stand adds nothing.
Apart(pairs, node) == {pair \in pairs : ~(pair[1] \in node.stance /\ pair[2] \in node.stance)}

Ones(pairs) == {pair[1] : pair \in pairs}
Others(pairs) == {pair[2] : pair \in pairs}
Both(pairs) == Ones(pairs) \cup Others(pairs)

Reads33(pairs, approximation) ==
  ({"position"} \cup Derived({"positionD"}, approximation)) \X Both(pairs)

Reads36(pairs, approximation) ==
  (({"position"} \cup Derived({"positionD"}, approximation)) \X Both(pairs))
    \cup (({"orientation"} \cup Derived({"orientationD"}, approximation)) \X Others(pairs))

Reads66(pairs, approximation) ==
  ({"position", "orientation"} \cup Derived({"positionD", "orientationD"}, approximation))
    \X Both(pairs)

Reads3Link(pairs, approximation) ==
  (({"position"} \cup Derived({"positionD"}, approximation)) \X Ones(pairs))
    \cup (({"link"} \cup Derived({"linkD"}, approximation)) \X Others(pairs))

\* getQuadraticApproximation gives the getters of the end effectors the index of the link.
MisplacedPairReads(pairs, approximation) ==
  Derived({"positionD", "orientationD"}, approximation) \X Others(pairs)
Reads6Link(pairs, approximation) ==
  (({"position", "orientation"} \cup Derived({"positionD", "orientationD"}, approximation))
     \X Ones(pairs))
    \cup ({"link"} \X Others(pairs))
    \cup MisplacedPairReads(pairs, approximation)

ReadsLinks(pairs, approximation) ==
  ({"link"} \cup Derived({"linkD"}, approximation)) \X Both(pairs)

PairsOf(file) == {SelfCollisionIndices(file)[k] : k \in DOMAIN SelfCollisionIndices(file)}

SelfCollisionReads(file, node, approximation) ==
  LET pairs == PairsOf(file)
  IN  UNION {Reads33(Apart(Pairs33(pairs), node), approximation),
             Reads36(Apart(Pairs36(pairs), node), approximation),
             Reads66(Apart(Pairs66(pairs), node), approximation),
             Reads3Link(Pairs3Link(pairs), approximation),
             Reads6Link(Pairs6Link(pairs), approximation),
             ReadsLinks(LinkPairs(pairs), approximation)}

-----------------------------------------------------------------------------
\* All that an evaluation of a term reads from the precomputation.
Reads(term, file, node, approximation) ==
  LET leg == term[2]
  IN  CASE term[1] = "TrajectoryTracking" -> TrackingReads(approximation)
        [] term[1] = "JointTorqueCost" -> TorqueCostReads(approximation)
        [] term[1] = "NormalVelocity" -> NormalVelocityReads(leg, node, approximation)
        [] term[1] = "Zero3DofVelocity" -> Zero3DofReads(leg, node, approximation)
        [] term[1] = "Zero6DofVelocity" -> Zero6DofReads(leg, node, approximation)
        [] term[1] = "ForceFrictionCone" -> ForceConeReads(node)
        [] term[1] = "WrenchFrictionCone" -> WrenchConeReads(node)
        [] term[1] = "EndEffectorPlacement" -> PlacementReads(node, approximation)
        [] term[1] = "JointTorqueLimits" -> TorqueLimitReads(approximation)
        [] term[1] = "TerrainAvoidance" -> TerrainReads(file, node, approximation)
        [] term[1] = "SelfCollisionAvoidance" -> SelfCollisionReads(file, node, approximation)
        [] term[1] = "NormalOrientation" -> NormalOrientationReads(node, approximation)
        [] OTHER -> {}   \* ZeroForce, ZeroWrench, JointLimits

\* The reads that the code addresses to the wrong place.
Misplaced(term, file, approximation) ==
  CASE term[1] = "TerrainAvoidance" /\ ~approximation -> MisplacedLinkReads(file)
    [] term[1] = "SelfCollisionAvoidance" ->
         MisplacedPairReads(Pairs6Link(PairsOf(file)), approximation)
    [] OTHER -> {}

\* The rows of the input the value of a term depends on, as the accessors give them.
ValueRows(term, node) ==
  LET leg == term[2]
  IN  CASE term[1] = "TrajectoryTracking" ->
             (UNION {ContactForces(i) : i \in Legs})
               \cup (UNION {ContactTorques(i) : i \in SixDofLegs}) \cup JointVelocities
        [] term[1] = "ZeroForce" -> UNION {ContactForces(i) : i \in {leg} \ node.stance}
        [] term[1] = "ZeroWrench" -> UNION {ContactWrenches(i) : i \in {leg} \ node.stance}
        [] term[1] = "ForceFrictionCone" ->
             UNION {ContactForces(i) : i \in ThreeDofLegs \cap node.stance}
        [] term[1] = "WrenchFrictionCone" ->
             UNION {ContactWrenches(i) : i \in SixDofLegs \cap node.stance}
        [] term[1] = "JointLimits" -> JointVelocities
        [] term[1] \in {"JointTorqueCost", "JointTorqueLimits"} -> AppliedRows
        [] OTHER -> {}

\* The rows its derivative by the input is written to.
DerivativeRows(term, node) ==
  LET leg == term[2]
  IN  CASE term[1] = "TrajectoryTracking" ->
             (UNION {TrackedRows(i) : i \in Legs}) \cup TrackedJointRows
        [] term[1] = "ZeroForce" -> UNION {ZeroForceRows(i) : i \in {leg} \ node.stance}
        [] term[1] = "ZeroWrench" -> UNION {ZeroWrenchRows(i) : i \in {leg} \ node.stance}
        [] term[1] = "ForceFrictionCone" ->
             UNION {ForceConeRows(i) : i \in ThreeDofLegs \cap node.stance}
        [] term[1] = "WrenchFrictionCone" ->
             UNION {WrenchConeRows(i) : i \in SixDofLegs \cap node.stance}
        [] term[1] = "JointLimits" -> LimitedJointRows
        [] term[1] \in {"JointTorqueCost", "JointTorqueLimits"} -> TorqueRows
        [] OTHER -> {}

\* The parts of the state its derivative is written to block by block; the other terms
\* take the derivatives of the precomputation as a whole.
StateParts(term) ==
  CASE term[1] = "TrajectoryTracking" -> TrackedState
    [] term[1] \in {"JointTorqueCost", "JointTorqueLimits"} -> TorqueState
    [] term[1] = "NormalOrientation" -> NormalState
    [] term[1] = "JointLimits" -> LimitedState
    [] OTHER -> {}
=============================================================================
