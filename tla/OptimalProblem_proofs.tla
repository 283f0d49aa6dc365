------------------------ MODULE OptimalProblem_proofs ------------------------
(***************************************************************************)
(* Proofs about the optimal control problem, for every number of end       *)
(* effectors, joints, links, threads and nodes: the derivatives are        *)
(* written to the rows the values read, every read is of a quantity that   *)
(* its request computed, the reads are in range, the search for the        *)
(* nearest sphere does not recede, the rows of the friction cone are those *)
(* of the sole, and the loaders let through what they are said to.         *)
(***************************************************************************)
EXTENDS OptimalProblem, FiniteSetTheorems, TLAPS

-----------------------------------------------------------------------------
(* The loaders of the settings, for all numbers.                           *)

LEMMA SingleNumbers ==
  ASSUME NEW s \in Settings, NEW key \in Single
  PROVE  /\ key \in Keys
         /\ DOMAIN s[key] = {1} /\ The(s, key) \in Int
         /\ \A numbers : HasAny(s, key, numbers) <=> The(s, key) \in numbers
<1>1. key \in Keys  BY DEF Single, Keys
<1>2. s[key] \in Seq(Int) /\ Len(s[key]) = 1  BY <1>1 DEF Settings
<1>3. DOMAIN s[key] = {1} /\ s[key][1] \in Int  BY <1>2
<1> QED BY <1>1, <1>3 DEF The, HasAny

\* The planners: the three numbers, the phases and too fast a gait are all that goes wrong.
LEMMA PlannersServe ==
  ASSUME NEW s \in Settings, PlannersAccepted(s)
  PROVE  /\ BaseServed(s) <=> ~HasAny(s, "deltaTime", {0})
         /\ PendulumServed(s) <=> ~HasAny(s, "minimumBaseHeight", {0})
         /\ BaseServed(s) =>
              (SubsamplingServed(s) <=> ~HasAny(s, "maximumReferenceSampleInterval", {0}))
         /\ SwingServed(s) <=> ~BoundarySlipsThrough(s)
         /\ GaitServed(s) <=> ~FastSlipsThrough(s)
<1>1. \A key \in Single : /\ DOMAIN s[key] = {1} /\ The(s, key) \in Int
                          /\ \A numbers : HasAny(s, key, numbers) <=> The(s, key) \in numbers
  BY SingleNumbers
<1>2. /\ The(s, "deltaTime") >= 0 /\ The(s, "minimumBaseHeight") >= 0
      /\ The(s, "maximumReferenceSampleInterval") >= 0
      /\ The(s, "minimumBaseHeight") <= The(s, "maximumBaseHeight")
      /\ The(s, "minimumSteppingFrequency") >= 0
  BY <1>1 DEF PlannersAccepted, BaseStaticAccepted, ReferenceManagerAccepted, GaitStaticAccepted,
              NonNegative, The, Single
<1>3. \A i \in DOMAIN s["maximumVelocities"] :
        -s["maximumVelocities"][i] <= s["maximumVelocities"][i]
  <2>1. s["maximumVelocities"] \in Seq(Int)  BY DEF Settings, Keys
  <2>2. \A i \in DOMAIN s["maximumVelocities"] : s["maximumVelocities"][i] >= 0
    BY DEF PlannersAccepted, BaseStaticAccepted, NonNegative
  <2> QED BY <2>1, <2>2
<1>4. BaseServed(s) <=> ~HasAny(s, "deltaTime", {0})
  BY <1>1, <1>2, <1>3 DEF BaseServed, Single
<1>5. PendulumServed(s) <=> ~HasAny(s, "minimumBaseHeight", {0})
  BY <1>1, <1>2 DEF PendulumServed, Single
<1>6. BaseServed(s) =>
        (SubsamplingServed(s) <=> ~HasAny(s, "maximumReferenceSampleInterval", {0}))
  BY <1>1, <1>2 DEF BaseServed, SubsamplingServed, Single
<1>7. SwingServed(s) <=> ~BoundarySlipsThrough(s)
  <2>1. s["phases"] \in Seq(Int) /\ Len(s["phases"]) = ThreeDof + SixDof
    BY DEF Settings, Keys, PlannersAccepted, SwingDynamicAccepted, OnePerLeg
  <2>2. \A i \in DOMAIN s["phases"] : s["phases"][i] >= 0 /\ s["phases"][i] <= One
    BY DEF PlannersAccepted, SwingDynamicAccepted, NonNegative, AtMostOne
  <2>3. DOMAIN s["phases"] = 1 .. ThreeDof + SixDof  BY <2>1
  <2>4. \A i \in DOMAIN s["phases"] : i - 1 \in Legs /\ i = (i - 1) + 1
    BY <2>3, SizesAssumption DEF Legs
  <2>5. \A leg \in Legs : leg + 1 \in DOMAIN s["phases"]  BY <2>3, SizesAssumption DEF Legs
  <2>6. \A i \in DOMAIN s["phases"] : s["phases"][i] \in Int  BY <2>1
  <2>7. SwingServed(s) <=> \A i \in DOMAIN s["phases"] : 0 < s["phases"][i] /\ s["phases"][i] < One
    BY <2>4, <2>5 DEF SwingServed
  <2> QED BY <2>2, <2>6, <2>7, OneAssumption DEF BoundarySlipsThrough, HasAny
<1>8. GaitServed(s) <=> ~FastSlipsThrough(s)
  <2>1. Moves(s) => The(s, "steppingFrequency") > 0  BY <1>1, <1>2 DEF Moves, Single
  <2> QED BY <2>1 DEF GaitServed, FastSlipsThrough
<1> QED BY <1>4, <1>5, <1>6, <1>7, <1>8

\* A number that is not negative and not zero is positive.
LEMMA NonzeroPositive ==
  ASSUME NEW s \in Settings, NEW key \in Keys, NonNegative(s, {key})
  PROVE  Positive(s, {key}) <=> ~HasAny(s, key, {0})
<1>1. s[key] \in Seq(Int)  BY DEF Settings
<1>2. \A i \in DOMAIN s[key] : s[key][i] \in Int /\ s[key][i] >= 0  BY <1>1 DEF NonNegative
<1> QED BY <1>2 DEF Positive, HasAny

\* The penalties of the terms in use: only their widths go wrong.
LEMMA PenaltiesServe ==
  ASSUME NEW s \in Settings, NEW names, TermsAccepted(s, names)
  PROVE  PenaltiesServed(s, names) <=> ~\E key \in UsedWidths(names) : HasAny(s, key, {0})
<1> DEFINE Zero(key) == HasAny(s, key, {0})
<1>1. \A key \in Keys : NonNegative(s, {key}) => (Positive(s, {key}) <=> ~Zero(key))
  BY NonzeroPositive
<1>2. Widths \cup Weights \cup {"regularization"} \subseteq Keys  BY DEF Keys
<1>3. /\ NonNegative(s, {"forceConeMu"}) /\ NonNegative(s, {"wrenchConeMu"})
      /\ Positive(s, {"forceConeDelta", "regularization"})
           <=> ~Zero("forceConeDelta") /\ ~Zero("regularization")
      /\ Positive(s, {"wrenchConeDelta"}) <=> ~Zero("wrenchConeDelta")
  <2>1. /\ NonNegative(s, {"forceConeMu"}) /\ NonNegative(s, {"wrenchConeMu"})
        /\ NonNegative(s, {"forceConeDelta"}) /\ NonNegative(s, {"regularization"})
        /\ NonNegative(s, {"wrenchConeDelta"})
    BY DEF TermsAccepted, ForceConeAccepted, WrenchConeAccepted, NonNegative
  <2>2. Positive(s, {"forceConeDelta", "regularization"})
          <=> Positive(s, {"forceConeDelta"}) /\ Positive(s, {"regularization"})
    BY DEF Positive
  <2>3. {"forceConeDelta", "regularization", "wrenchConeDelta"} \subseteq Keys  BY DEF Keys, Widths
  <2> QED BY <1>1, <2>1, <2>2, <2>3
<1>4. "EndEffectorPlacement" \in names =>
        NonNegative(s, {"placementMu"}) /\ (Positive(s, {"placementDelta"}) <=> ~Zero("placementDelta"))
  BY <1>1 DEF TermsAccepted, PlacementAccepted, NonNegative, Keys, Widths
<1>5. "JointLimits" \in names =>
        NonNegative(s, {"jointMu"}) /\ (Positive(s, {"jointDelta"}) <=> ~Zero("jointDelta"))
  BY <1>1 DEF TermsAccepted, JointLimitsAccepted, NonNegative, Keys, Widths
<1>6. "JointTorqueLimits" \in names =>
        NonNegative(s, {"torqueMu"}) /\ (Positive(s, {"torqueDelta"}) <=> ~Zero("torqueDelta"))
  BY <1>1 DEF TermsAccepted, TorqueLimitsAccepted, NonNegative, Keys, Widths
<1>7. "TerrainAvoidance" \in names =>
        NonNegative(s, {"terrainMu"}) /\ (Positive(s, {"terrainDelta"}) <=> ~Zero("terrainDelta"))
  BY <1>1 DEF TermsAccepted, TerrainAvoidanceAccepted, NonNegative, Keys, Widths
<1>8. "SelfCollisionAvoidance" \in names =>
        NonNegative(s, {"pairMu"}) /\ (Positive(s, {"pairDelta"}) <=> ~Zero("pairDelta"))
  BY <1>1 DEF TermsAccepted, SelfCollisionAccepted, NonNegative, Keys, Widths
<1>9. "NormalOrientation" \in names /\ SixDof > 0 => NonNegative(s, {"orientationMu"})
  BY DEF TermsAccepted, NormalOrientationAccepted
<1> HIDE DEF Zero
<1>10. (\E key \in UsedWidths(names) : Zero(key)) <=>
         \/ "ForceFrictionCone" \in names /\ ThreeDof > 0 /\ (Zero("forceConeDelta") \/ Zero("regularization"))
         \/ "WrenchFrictionCone" \in names /\ SixDof > 0 /\ Zero("wrenchConeDelta")
         \/ "EndEffectorPlacement" \in names /\ Zero("placementDelta")
         \/ "JointLimits" \in names /\ Zero("jointDelta")
         \/ "JointTorqueLimits" \in names /\ Zero("torqueDelta")
         \/ "TerrainAvoidance" \in names /\ Zero("terrainDelta")
         \/ "SelfCollisionAvoidance" \in names /\ Zero("pairDelta")
  BY DEF UsedWidths
<1>11. PenaltiesServed(s, names) <=> ~\E key \in UsedWidths(names) : Zero(key)
  BY <1>3, <1>4, <1>5, <1>6, <1>7, <1>8, <1>9, <1>10 DEF PenaltiesServed, Convex
<1> QED BY <1>11 DEF Zero

\* The costs: only the weights that are not looked at go wrong.
LEMMA CostsServe ==
  ASSUME NEW s \in Settings, NEW names, TermsAccepted(s, names)
  PROVE  CostsServed(s, names) <=> ~SignSlipsThrough(s, names)
BY DEF TermsAccepted, TrackingAccepted, BaseWeightsAccepted, JointWeightsAccepted,
       EndEffectorWeightsAccepted, JointTorqueAccepted, CostsServed, Convex, NonNegative,
       SignSlipsThrough

\* The weights of the feet are written within their vector unless there are both kinds.
LEMMA WeightsServe ==
  ASSUME NEW names
  PROVE  WeightsHeld(names) <=> ~MixedFeetSlipThrough(names)
<1>1. ThreeDof \in Nat /\ SixDof \in Nat  BY SizesAssumption
<1>2. CASE SixDof = 0
  BY <1>1, <1>2 DEF WeightsHeld, TorqueWeightIndices, MixedFeetSlipThrough
<1>3. CASE SixDof > 0 /\ ThreeDof = 0
  <2>1. \A leg \in Legs : leg - ThreeDof \in 0 .. SixDof - 1  BY <1>1, <1>3 DEF Legs
  <2> QED BY <1>3, <2>1 DEF WeightsHeld, TorqueWeightIndices, MixedFeetSlipThrough
<1>4. CASE SixDof > 0 /\ ThreeDof > 0
  <2>1. 0 \in Legs /\ 0 - ThreeDof \notin 0 .. SixDof - 1  BY <1>1, <1>4 DEF Legs
  <2>2. 0 - ThreeDof \in TorqueWeightIndices  BY <1>4, <2>1 DEF TorqueWeightIndices
  <2> QED BY <1>4, <2>1, <2>2 DEF WeightsHeld, MixedFeetSlipThrough
<1> QED BY <1>1, <1>2, <1>3, <1>4

\* Whatever settings the loaders accept, for whatever feet: each of the needs of their users is
\* met exactly when no zero, no phase at the boundary, no gait too fast, no sign and no mixed
\* feet slip through.
THEOREM AcceptedServeUnlessNamed ==
  ASSUME NEW s \in Settings, NEW names, SettingsAccepted(s, names)
  PROVE  ServesUnlessNamed(s, names)
<1>1. PlannersAccepted(s) /\ TermsAccepted(s, names)  BY DEF SettingsAccepted
<1>2. ZeroSlipsThrough(s, names) <=>
        \/ HasAny(s, "deltaTime", {0})
        \/ HasAny(s, "minimumBaseHeight", {0})
        \/ HasAny(s, "maximumReferenceSampleInterval", {0})
        \/ \E key \in UsedWidths(names) : HasAny(s, key, {0})
  BY DEF ZeroSlipsThrough
<1>3. /\ BaseServed(s) /\ PendulumServed(s) /\ SubsamplingServed(s) /\ PenaltiesServed(s, names)
        <=> ~ZeroSlipsThrough(s, names)
  BY <1>1, <1>2, PlannersServe, PenaltiesServe
<1> QED BY <1>1, <1>3, PlannersServe, CostsServe, WeightsServe DEF ServesUnlessNamed

-----------------------------------------------------------------------------
(* The rows of the input.                                                  *)

LEMMA PointRows ==
  ASSUME NEW i \in ThreeDofLegs
  PROVE  /\ ZeroForceRows(i) = ContactForces(i)
         /\ ForceConeRows(i) = ContactForces(i)
         /\ TrackedRows(i) = ContactForces(i)
         /\ LegRows(i) = ContactForces(i)
<1>1. i \in Nat /\ i < ThreeDof /\ ThreeDof \in Nat  BY SizesAssumption DEF ThreeDofLegs
<1>2. ContactForces(i) = 3 * i .. 3 * i + 2  BY <1>1 DEF ContactForces, StartRow
<1> QED BY <1>1, <1>2 DEF ZeroForceRows, ForceConeRows, TrackedRows, LegRows

LEMMA SoleRows ==
  ASSUME NEW i \in SixDofLegs
  PROVE  /\ ZeroWrenchRows(i) = ContactWrenches(i)
         /\ WrenchConeRows(i) = ContactWrenches(i)
         /\ TrackedRows(i) = ContactForces(i) \cup ContactTorques(i)
         /\ ContactWrenches(i) = ContactForces(i) \cup ContactTorques(i)
         /\ LegRows(i) = ContactWrenches(i)
<1>1. /\ i \in Nat /\ ThreeDof \in Nat /\ ~(i < ThreeDof)
      /\ i \notin ThreeDofLegs
  BY SizesAssumption DEF SixDofLegs, ThreeDofLegs
<1> DEFINE start == 3 * ThreeDof + 6 * (i - ThreeDof)
<1>2. start \in Int /\ 6 * i - 3 * ThreeDof = start  BY <1>1
<1>3. ContactForces(i) = start .. start + 2  BY <1>1 DEF ContactForces, StartRow
<1>4. ContactTorques(i) = start + 3 .. start + 3 + 2  BY DEF ContactTorques
<1>5. ContactWrenches(i) = start .. start + 5  BY DEF ContactWrenches
<1>6. TrackedRows(i) = (start .. start + 2) \cup (start + 3 .. start + 3 + 2)
  BY <1>1, <1>2 DEF TrackedRows
<1> HIDE DEF start
<1>7. start .. start + 5 = (start .. start + 2) \cup (start + 3 .. start + 3 + 2)  BY <1>2
<1>8. ZeroWrenchRows(i) = ContactWrenches(i) /\ WrenchConeRows(i) = ContactWrenches(i)
  BY DEF ZeroWrenchRows, WrenchConeRows, ContactWrenches
<1>9. LegRows(i) = ContactWrenches(i)  BY <1>1 DEF LegRows
<1> QED BY <1>3, <1>4, <1>5, <1>6, <1>7, <1>8, <1>9

LEMMA RowsOfTheJoints ==
  TrackedJointRows = JointVelocities /\ LimitedJointRows = JointVelocities
BY SizesAssumption DEF TrackedJointRows, LimitedJointRows, JointVelocities, ForceSize

LEMMA LegsSplit == Legs = ThreeDofLegs \cup SixDofLegs /\ ThreeDofLegs \cap SixDofLegs = {}
BY SizesAssumption DEF Legs, ThreeDofLegs, SixDofLegs

\* The blocks of the legs are all the rows of the forces.
LEMMA RowsOfTheForces == TorqueRows = AppliedRows
<1>1. ASSUME NEW r \in TorqueRows PROVE \E i \in Legs : r \in LegRows(i)
  <2>1. CASE r < 3 * ThreeDof
    <3>1. (r \div 3) \in ThreeDofLegs /\ r \in ContactForces(r \div 3)
      BY <1>1, <2>1, SizesAssumption DEF TorqueRows, ForceSize, ThreeDofLegs, ContactForces, StartRow
    <3> QED BY <3>1, LegsSplit DEF LegRows
  <2>2. CASE ~(r < 3 * ThreeDof)
    <3> DEFINE i == ThreeDof + ((r - 3 * ThreeDof) \div 6)
    <3>1. i \in SixDofLegs /\ r \in ContactWrenches(i)
      BY <1>1, <2>2, SizesAssumption DEF TorqueRows, ForceSize, SixDofLegs, ContactWrenches
    <3> QED BY <3>1, LegsSplit DEF LegRows
  <2> QED BY <2>1, <2>2, SizesAssumption DEF TorqueRows, ForceSize
<1>2. ASSUME NEW i \in Legs, NEW r \in LegRows(i) PROVE r \in TorqueRows
  BY <1>2, SizesAssumption DEF TorqueRows, ForceSize, Legs, LegRows, ThreeDofLegs, ContactForces,
     ContactWrenches, StartRow
<1> QED BY <1>1, <1>2 DEF AppliedRows

\* Every derivative is in place, whatever the stance.
LEMMA InPlace ==
  ASSUME NEW category \in Categories, NEW names, NEW term \in TermsOf(category, names), NEW node
  PROVE  DerivativeRows(term, node) = ValueRows(term, node)
<1> DEFINE leg == term[2]
<1>1. CASE term[1] = "TrajectoryTracking"
  <2>1. UNION {TrackedRows(i) : i \in Legs}
          = (UNION {ContactForces(i) : i \in Legs}) \cup (UNION {ContactTorques(i) : i \in SixDofLegs})
    BY LegsSplit, PointRows, SoleRows
  <2> QED BY <1>1, <2>1, RowsOfTheJoints DEF DerivativeRows, ValueRows
<1>2. CASE term[1] = "ZeroForce"
  <2>1. leg \in ThreeDofLegs
    BY <1>2 DEF TermsOf, Categories, CostTerms, ConstraintTerms, SoftConstraintTerms, Terms
  <2> QED BY <1>2, <2>1, PointRows DEF DerivativeRows, ValueRows
<1>3. CASE term[1] = "ZeroWrench"
  <2>1. leg \in SixDofLegs
    BY <1>3 DEF TermsOf, Categories, CostTerms, ConstraintTerms, SoftConstraintTerms, Terms
  <2> QED BY <1>3, <2>1, SoleRows DEF DerivativeRows, ValueRows
<1>4. CASE term[1] = "ForceFrictionCone"
  BY <1>4, PointRows DEF DerivativeRows, ValueRows
<1>5. CASE term[1] = "WrenchFrictionCone"
  BY <1>5, SoleRows DEF DerivativeRows, ValueRows
<1>6. CASE term[1] = "JointLimits"
  BY <1>6, RowsOfTheJoints DEF DerivativeRows, ValueRows
<1>7. CASE term[1] \in {"JointTorqueCost", "JointTorqueLimits"}
  BY <1>7, RowsOfTheForces DEF DerivativeRows, ValueRows
<1>8. CASE term[1] \notin {"TrajectoryTracking", "ZeroForce", "ZeroWrench", "ForceFrictionCone",
                          "WrenchFrictionCone", "JointLimits", "JointTorqueCost", "JointTorqueLimits"}
  BY <1>8 DEF DerivativeRows, ValueRows
<1> QED BY <1>1, <1>2, <1>3, <1>4, <1>5, <1>6, <1>7, <1>8

\* The constraints of a node fix the rows of the legs that swing there.
LEMMA ConstraintRows ==
  ASSUME NEW names, {"ZeroForce", "ZeroWrench"} \subseteq names, NEW node
  PROVE  UNION {DerivativeRows(term, node) : term \in ConstraintTerms(names)}
           = UNION {LegRows(i) : i \in Legs \ node.stance}
<1> DEFINE Fixed == UNION {DerivativeRows(term, node) : term \in ConstraintTerms(names)}
<1>1. \A i \in ThreeDofLegs : /\ <<"ZeroForce", i>> \in ConstraintTerms(names)
                              /\ i \notin node.stance =>
                                   DerivativeRows(<<"ZeroForce", i>>, node) = LegRows(i)
  <2> TAKE i \in ThreeDofLegs
  <2>1. <<"ZeroForce", i>> \in ConstraintTerms(names)  BY DEF ConstraintTerms, Terms
  <2>2. DerivativeRows(<<"ZeroForce", i>>, node) = UNION {ZeroForceRows(k) : k \in {i} \ node.stance}
    BY DEF DerivativeRows
  <2> QED BY <2>1, <2>2, PointRows
<1>2. \A i \in SixDofLegs : /\ <<"ZeroWrench", i>> \in ConstraintTerms(names)
                            /\ i \notin node.stance =>
                                 DerivativeRows(<<"ZeroWrench", i>>, node) = LegRows(i)
  <2> TAKE i \in SixDofLegs
  <2>1. <<"ZeroWrench", i>> \in ConstraintTerms(names)  BY DEF ConstraintTerms, Terms
  <2>2. DerivativeRows(<<"ZeroWrench", i>>, node) = UNION {ZeroWrenchRows(k) : k \in {i} \ node.stance}
    BY DEF DerivativeRows
  <2> QED BY <2>1, <2>2, SoleRows
<1>3. ASSUME NEW i \in Legs \ node.stance, NEW r \in LegRows(i) PROVE r \in Fixed
  BY <1>1, <1>2, <1>3, LegsSplit
<1>4. ASSUME NEW term \in ConstraintTerms(names), NEW r \in DerivativeRows(term, node)
      PROVE  \E i \in Legs \ node.stance : r \in LegRows(i)
  <2>1. CASE term[1] = "ZeroForce"
    <3>1. term[2] \in ThreeDofLegs  BY <1>4, <2>1 DEF ConstraintTerms, Terms
    <3>2. term[2] \notin node.stance /\ r \in ZeroForceRows(term[2])  BY <1>4, <2>1 DEF DerivativeRows
    <3> QED BY <3>1, <3>2, PointRows, LegsSplit
  <2>2. CASE term[1] = "ZeroWrench"
    <3>1. term[2] \in SixDofLegs  BY <1>4, <2>2 DEF ConstraintTerms, Terms
    <3>2. term[2] \notin node.stance /\ r \in ZeroWrenchRows(term[2])  BY <1>4, <2>2 DEF DerivativeRows
    <3> QED BY <3>1, <3>2, SoleRows, LegsSplit
  <2>3. CASE term[1] \notin {"ZeroForce", "ZeroWrench"}
    <3>1. term[1] \in {"NormalVelocity", "Zero3DofVelocity", "Zero6DofVelocity"}
      BY <1>4, <2>3 DEF ConstraintTerms, Terms
    <3> QED BY <1>4, <3>1 DEF DerivativeRows
  <2> QED BY <2>1, <2>2, <2>3
<1> QED BY <1>3, <1>4

-----------------------------------------------------------------------------
(* A request computes all that its terms read.                             *)

LEMMA CostReadsComputed ==
  ASSUME NEW names, NEW term \in CostTerms(names), NEW file_, NEW node,
         NEW flags \in SUBSET Flags, "Cost" \in flags,
         NEW read \in Reads(term, file_, node, "Approximation" \in flags)
  PROVE  read[1] \in Computed(flags)
<1>1. CASE term[1] = "TrajectoryTracking"
  <2>1. read \in TrackingReads("Approximation" \in flags)  BY <1>1 DEF Reads
  <2> QED BY <2>1 DEF TrackingReads, Derived, Computed, MotionKinds, CompensationKinds, Categories,
       WithDerivative
<1>2. CASE term[1] = "JointTorqueCost"
  <2>1. read \in TorqueCostReads("Approximation" \in flags)  BY <1>2 DEF Reads
  <2> QED BY <2>1 DEF TorqueCostReads, Computed, TorqueKindsOf, WithDerivative
<1> QED BY <1>1, <1>2 DEF CostTerms, Terms

LEMMA ConstraintReadsComputed ==
  ASSUME NEW names, NEW term \in ConstraintTerms(names), NEW file_, NEW node,
         NEW flags \in SUBSET Flags, "Constraint" \in flags,
         NEW read \in Reads(term, file_, node, "Approximation" \in flags)
  PROVE  read[1] \in Computed(flags)
<1>1. CASE term[1] = "NormalVelocity"
  <2>1. read \in NormalVelocityReads(term[2], node, "Approximation" \in flags)  BY <1>1 DEF Reads
  <2> QED BY <2>1 DEF NormalVelocityReads, Derived, Computed, MotionKinds, ReferenceKinds, Categories,
       WithDerivative
<1>2. CASE term[1] = "Zero3DofVelocity"
  <2>1. read \in Zero3DofReads(term[2], node, "Approximation" \in flags)  BY <1>2 DEF Reads
  <2> QED BY <2>1 DEF Zero3DofReads, Computed, MotionKinds, Categories, WithDerivative
<1>3. CASE term[1] = "Zero6DofVelocity"
  <2>1. read \in Zero6DofReads(term[2], node, "Approximation" \in flags)  BY <1>3 DEF Reads
  <2> QED BY <2>1 DEF Zero6DofReads, Computed, MotionKinds, AngularKinds, Categories, WithDerivative
<1>4. CASE term[1] \in {"ZeroForce", "ZeroWrench"}
  BY <1>4 DEF Reads
<1> QED BY <1>1, <1>2, <1>3, <1>4 DEF ConstraintTerms, Terms

LEMMA SoftReadsComputed ==
  ASSUME NEW names, NEW term \in SoftConstraintTerms(names), NEW file_, NEW node,
         NEW flags \in SUBSET Flags, "SoftConstraint" \in flags,
         NEW read \in Reads(term, file_, node, "Approximation" \in flags),
         term[1] \in EveryTerm
  PROVE  read[1] \in Computed(flags)
<1> DEFINE approximation == "Approximation" \in flags
<1>1. /\ {"position", "velocity", "reference", "orientation", "torque", "link"} \subseteq Computed(flags)
      /\ approximation => {"positionD", "velocityD", "orientationD", "torqueD", "linkD"} \subseteq Computed(flags)
  BY DEF Computed, MotionKinds, ReferenceKinds, TorqueKindsOf, CollisionKinds, Categories, WithDerivative
<1>2. CASE term[1] = "JointTorqueLimits"
  <2>1. read \in TorqueLimitReads(approximation)  BY <1>2 DEF Reads
  <2> QED BY <1>1, <2>1 DEF TorqueLimitReads
<1>3. CASE term[1] = "ForceFrictionCone"
  <2>1. read \in ForceConeReads(node)  BY <1>3 DEF Reads
  <2> QED BY <1>1, <2>1 DEF ForceConeReads
<1>4. CASE term[1] = "WrenchFrictionCone"
  <2>1. read \in WrenchConeReads(node)  BY <1>4 DEF Reads
  <2> QED BY <1>1, <2>1 DEF WrenchConeReads
<1>5. CASE term[1] = "EndEffectorPlacement"
  <2>1. read \in PlacementReads(node, approximation)  BY <1>5 DEF Reads
  <2> QED BY <1>1, <2>1 DEF PlacementReads, Derived
<1>6. CASE term[1] = "NormalOrientation"
  <2>1. read \in NormalOrientationReads(node, approximation)  BY <1>6 DEF Reads
  <2> QED BY <1>1, <2>1 DEF NormalOrientationReads, Derived
<1>7. CASE term[1] = "TerrainAvoidance"
  <2>1. read \in TerrainReads(file_, node, approximation)  BY <1>7 DEF Reads
  <2>2. CASE read \in TerrainLegReads(node, approximation)
    BY <1>1, <2>2 DEF TerrainLegReads, Derived
  <2>3. CASE approximation /\ read \in LinkReads(file_)
    BY <1>1, <2>3 DEF LinkReads
  <2>4. CASE ~approximation /\ read \in MisplacedLinkReads(file_)
    BY <1>1, <2>4 DEF MisplacedLinkReads
  <2> QED BY <2>1, <2>2, <2>3, <2>4 DEF TerrainReads
<1>8. CASE term[1] = "SelfCollisionAvoidance"
  <2>1. read \in SelfCollisionReads(file_, node, approximation)  BY <1>8 DEF Reads
  <2>2. ASSUME NEW pairs, \/ read \in Reads33(pairs, approximation)
                          \/ read \in Reads36(pairs, approximation)
                          \/ read \in Reads66(pairs, approximation)
        PROVE  read[1] \in Computed(flags)
    BY <1>1, <2>2 DEF Reads33, Reads36, Reads66, Derived
  <2>3. ASSUME NEW pairs, \/ read \in Reads3Link(pairs, approximation)
                          \/ read \in ReadsLinks(pairs, approximation)
        PROVE  read[1] \in Computed(flags)
    BY <1>1, <2>3 DEF Reads3Link, ReadsLinks, Derived
  <2>4. ASSUME NEW pairs, read \in Reads6Link(pairs, approximation)
        PROVE  read[1] \in Computed(flags)
    BY <1>1, <2>4 DEF Reads6Link, MisplacedPairReads, Derived
  <2> QED BY <2>1, <2>2, <2>3, <2>4 DEF SelfCollisionReads
<1>9. CASE term[1] = "JointLimits"
  BY <1>9 DEF Reads
<1> QED BY <1>2, <1>3, <1>4, <1>5, <1>6, <1>7, <1>8, <1>9 DEF SoftConstraintTerms, Terms

LEMMA ReadsComputed ==
  ASSUME NEW names \in SUBSET EveryTerm, NEW flags \in SUBSET Flags, NEW file_, NEW node,
         NEW category \in flags \cap Categories, NEW term \in TermsOf(category, names),
         NEW read \in Reads(term, file_, node, "Approximation" \in flags)
  PROVE  read[1] \in Computed(flags)
<1>1. CASE category = "Cost"
  BY <1>1, CostReadsComputed DEF TermsOf
<1>2. CASE category = "Constraint"
  BY <1>2, ConstraintReadsComputed DEF TermsOf
<1>3. CASE category = "SoftConstraint"
  <2>1. term \in SoftConstraintTerms(names)  BY <1>3 DEF TermsOf
  <2>2. term[1] \in EveryTerm  BY <2>1 DEF SoftConstraintTerms, Terms
  <2> QED BY <1>3, <2>1, <2>2, SoftReadsComputed
<1> QED BY <1>1, <1>2, <1>3 DEF Categories

-----------------------------------------------------------------------------
(* The frames of an accepted file.                                         *)

LEMMA IndexInRange ==
  ASSUME NEW S, NEW names \in Seq(S), NEW name, In(name, names)
  PROVE  /\ Index(name, names) \in 0 .. Len(names) - 1
         /\ names[Index(name, names) + 1] = name
<1> DEFINE k == CHOOSE k \in 1 .. Len(names) : names[k] = name
<1>1. k \in 1 .. Len(names) /\ names[k] = name  BY DEF In
<1>2. Len(names) \in Nat /\ Index(name, names) = k - 1  BY DEF Index
<1> QED BY <1>1, <1>2

LEMMA FilesLinks ==
  ASSUME NEW f \in Files
  PROVE  /\ LinkNumber(f) \in Nat
         /\ Len(CollisionNames(f)) = Ends + LinkNumber(f)
         /\ \E S : CollisionNames(f) \in Seq(S)
         /\ EndEffectorNames \in Seq(Names) /\ Len(EndEffectorNames) = Ends /\ Ends \in Nat
         /\ \A k \in 1 .. Ends : CollisionNames(f)[k] = EndEffectorNames[k]
<1> DEFINE firsts == First(f.links)
           links == TrueLinks(f.links)
           S == {links[n] : n \in 1 .. Cardinality(firsts)} \cup Names
<1>1. f.links \in Seq(Names)  BY ProblemAssumption
<1>2. firsts \subseteq 1 .. Len(f.links) /\ Len(f.links) \in Nat  BY <1>1 DEF First
<1>3. Cardinality(firsts) \in Nat
  <2>1. IsFiniteSet(1 .. Len(f.links))  BY <1>2, FS_Interval
  <2> QED BY <1>2, <2>1, FS_Subset, FS_CardinalityType
<1>4. links \in [1 .. Cardinality(firsts) -> S]  BY DEF TrueLinks
<1>5. links \in Seq(S) /\ Len(links) = Cardinality(firsts)  BY <1>3, <1>4
<1>6. EndEffectorNames \in Seq(Names) /\ Len(EndEffectorNames) = Ends /\ Ends \in Nat
  BY NamesAssumption, SizesAssumption DEF EndEffectorNames, Ends
<1>7. EndEffectorNames \in Seq(S)  BY <1>6
<1> HIDE DEF links, S
<1>8. /\ EndEffectorNames \o links \in Seq(S)
      /\ Len(EndEffectorNames \o links) = Len(EndEffectorNames) + Len(links)
      /\ \A k \in 1 .. Len(EndEffectorNames) : (EndEffectorNames \o links)[k] = EndEffectorNames[k]
  BY <1>5, <1>7
<1>9. CollisionNames(f) = EndEffectorNames \o links  BY DEF CollisionNames, links
<1>10. LinkNumber(f) = Len(links)  BY DEF LinkNumber, links
<1> QED BY <1>3, <1>5, <1>6, <1>8, <1>9, <1>10

LEMMA TerrainInRange ==
  ASSUME NEW f \in Files, Accepted(f), NEW k \in DOMAIN TerrainIndices(f)
  PROVE  TerrainIndices(f)[k] \in Ends .. Ends + LinkNumber(f) - 1
<1> DEFINE name == f.terrain[k]
           all == CollisionNames(f)
<1>1. k \in 1 .. Len(f.terrain) /\ TerrainIndices(f)[k] = Index(name, all)  BY DEF TerrainIndices
<1>2. In(name, all) /\ ~In(name, EndEffectorNames)  BY <1>1 DEF Accepted, TerrainAccepted
<1>3. /\ Index(name, all) \in 0 .. Len(all) - 1
      /\ all[Index(name, all) + 1] = name
  BY <1>2, FilesLinks, IndexInRange
<1>4. ASSUME Index(name, all) < Ends PROVE FALSE
  <2>1. Index(name, all) + 1 \in 1 .. Ends  BY <1>3, <1>4, FilesLinks
  <2>2. EndEffectorNames[Index(name, all) + 1] = name  BY <1>3, <2>1, FilesLinks
  <2> QED BY <1>2, <2>1, <2>2, FilesLinks DEF In
<1> QED BY <1>1, <1>3, <1>4, FilesLinks

LEMMA PairsInRange ==
  ASSUME NEW f \in Files, Accepted(f), NEW pair \in PairsOf(f)
  PROVE  /\ pair = <<pair[1], pair[2]>>
         /\ pair[1] \in 0 .. Ends + LinkNumber(f) - 1
         /\ pair[2] \in 0 .. Ends + LinkNumber(f) - 1
<1> DEFINE all == CollisionNames(f)
<1>1. PICK k \in 1 .. Len(f.pairs) : pair = SelfCollisionIndices(f)[k]
  BY DEF PairsOf, SelfCollisionIndices
<1>2. In(f.pairs[k][1], all) /\ In(f.pairs[k][2], all)  BY <1>1 DEF Accepted, PairsAccepted
<1>3. /\ Index(f.pairs[k][1], all) \in 0 .. Ends + LinkNumber(f) - 1
      /\ Index(f.pairs[k][2], all) \in 0 .. Ends + LinkNumber(f) - 1
  BY <1>2, FilesLinks, IndexInRange
<1>4. \/ pair = <<Index(f.pairs[k][1], all), Index(f.pairs[k][2], all)>>
      \/ pair = <<Index(f.pairs[k][2], all), Index(f.pairs[k][1], all)>>
  BY <1>1 DEF SelfCollisionIndices
<1> HIDE DEF all
<1> QED BY <1>3, <1>4

LEMMA HeldIndices ==
  ASSUME NEW n
  PROVE  /\ \A kind \in LegKinds : Held(kind, n) = Legs
         /\ \A kind \in SixDofKinds : Held(kind, n) = SixDofLegs
         /\ \A kind \in LinkKinds : Held(kind, n) = Ends .. Ends + n - 1
         /\ \A kind \in TorqueKinds : Held(kind, n) = {0}
<1>0. /\ LegKinds \cap (SixDofKinds \cup LinkKinds \cup TorqueKinds) = {}
      /\ SixDofKinds \cap (LinkKinds \cup TorqueKinds) = {}
      /\ LinkKinds \cap TorqueKinds = {}
  BY DEF LegKinds, SixDofKinds, LinkKinds, TorqueKinds
<1>1. \A kind \in LegKinds : Held(kind, n) = Legs
  <2> TAKE kind \in LegKinds
  <2>1. kind \in LegKinds /\ kind \notin SixDofKinds /\ kind \notin LinkKinds /\ kind \notin TorqueKinds
    BY <1>0
  <2>2. Held(kind, n) = 0 .. Ends - 1  BY <2>1 DEF Held, Ends
  <2> QED BY <2>2, SizesAssumption DEF Legs, Ends
<1>2. \A kind \in SixDofKinds : Held(kind, n) = SixDofLegs
  <2> TAKE kind \in SixDofKinds
  <2>1. kind \in SixDofKinds /\ kind \notin LegKinds /\ kind \notin LinkKinds /\ kind \notin TorqueKinds
    BY <1>0
  <2>2. Held(kind, n) = ThreeDof .. Ends - 1  BY <2>1 DEF Held, Ends
  <2> QED BY <2>2, SizesAssumption DEF SixDofLegs, Ends
<1>3. \A kind \in LinkKinds : Held(kind, n) = Ends .. Ends + n - 1
  BY <1>0 DEF Held, Ends
<1>4. \A kind \in TorqueKinds : Held(kind, n) = {0}
  BY <1>0 DEF Held
<1> QED BY <1>1, <1>2, <1>3, <1>4

\* The reads of the terms that go by the legs.
LEMMA LegReadsHeld ==
  ASSUME NEW f, NEW node, node.stance \subseteq Legs, NEW approximation \in BOOLEAN,
         NEW category \in Categories, NEW names, NEW term \in TermsOf(category, names),
         term[1] \notin {"TerrainAvoidance", "SelfCollisionAvoidance"},
         NEW n, NEW read \in Reads(term, f, node, approximation)
  PROVE  read[2] \in Held(read[1], n)
<1> DEFINE leg == term[2]
<1> USE DEF LegKinds, SixDofKinds, LinkKinds, TorqueKinds
<1>1. CASE term[1] = "TrajectoryTracking"
  <2>1. read \in TrackingReads(approximation)  BY <1>1 DEF Reads
  <2> QED BY <2>1, HeldIndices DEF TrackingReads, Derived
<1>2. CASE term[1] = "JointTorqueCost"
  <2>1. read \in TorqueCostReads(approximation)  BY <1>2 DEF Reads
  <2> QED BY <2>1, HeldIndices DEF TorqueCostReads
<1>3. CASE term[1] = "JointTorqueLimits"
  <2>1. read \in TorqueLimitReads(approximation)  BY <1>3 DEF Reads
  <2> QED BY <2>1, HeldIndices DEF TorqueLimitReads
<1>4. CASE term[1] = "NormalVelocity"
  <2>1. read \in NormalVelocityReads(leg, node, approximation)  BY <1>4 DEF Reads
  <2>2. leg \in Legs
    BY <1>4 DEF TermsOf, Categories, CostTerms, ConstraintTerms, SoftConstraintTerms, Terms
  <2> QED BY <2>1, <2>2, HeldIndices DEF NormalVelocityReads, Derived
<1>5. CASE term[1] = "Zero3DofVelocity"
  <2>1. read \in Zero3DofReads(leg, node, approximation)  BY <1>5 DEF Reads
  <2> QED BY <2>1, HeldIndices DEF Zero3DofReads
<1>6. CASE term[1] = "Zero6DofVelocity"
  <2>1. read \in Zero6DofReads(leg, node, approximation)  BY <1>6 DEF Reads
  <2>2. leg \in SixDofLegs
    BY <1>6 DEF TermsOf, Categories, CostTerms, ConstraintTerms, SoftConstraintTerms, Terms
  <2> QED BY <2>1, <2>2, HeldIndices DEF Zero6DofReads
<1>7. CASE term[1] = "ForceFrictionCone"
  <2>1. read \in ForceConeReads(node)  BY <1>7 DEF Reads
  <2> QED BY <2>1, HeldIndices, LegsSplit DEF ForceConeReads
<1>8. CASE term[1] = "WrenchFrictionCone"
  <2>1. read \in WrenchConeReads(node)  BY <1>8 DEF Reads
  <2> QED BY <2>1, HeldIndices DEF WrenchConeReads
<1>9. CASE term[1] = "EndEffectorPlacement"
  <2>1. read \in PlacementReads(node, approximation)  BY <1>9 DEF Reads
  <2> QED BY <2>1, HeldIndices DEF PlacementReads, Derived
<1>10. CASE term[1] = "NormalOrientation"
  <2>1. read \in NormalOrientationReads(node, approximation)  BY <1>10 DEF Reads
  <2> QED BY <2>1, HeldIndices, LegsSplit DEF NormalOrientationReads, Derived
<1>11. CASE term[1] \notin {"TrajectoryTracking", "JointTorqueCost", "JointTorqueLimits", "NormalVelocity",
         "Zero3DofVelocity", "Zero6DofVelocity", "ForceFrictionCone", "WrenchFrictionCone",
         "EndEffectorPlacement", "NormalOrientation"}
  BY <1>11 DEF Reads
<1> QED BY <1>1, <1>2, <1>3, <1>4, <1>5, <1>6, <1>7, <1>8, <1>9, <1>10, <1>11

LEMMA TerrainReadsHeld ==
  ASSUME NEW f \in Files, Accepted(f), NEW node, node.stance \subseteq Legs,
         NEW approximation \in BOOLEAN,
         NEW read \in TerrainReads(f, node, approximation),
         approximation \/ read \notin MisplacedLinkReads(f)
  PROVE  read[2] \in Held(read[1], LinkNumber(f))
<1> USE DEF LegKinds, SixDofKinds, LinkKinds
<1>1. CASE read \in TerrainLegReads(node, approximation)
  <2>1. CASE read[1] \in {"position", "reference", "positionD"} /\ read[2] \in Legs
    BY <2>1, HeldIndices
  <2>2. CASE read[1] \in {"orientation", "orientationD"} /\ read[2] \in SixDofLegs
    BY <2>2, HeldIndices
  <2> QED BY <1>1, <2>1, <2>2 DEF TerrainLegReads, Derived
<1>2. CASE read \in LinkReads(f)
  BY <1>2, HeldIndices, TerrainInRange DEF LinkReads
<1> QED BY <1>1, <1>2 DEF TerrainReads

LEMMA SelfCollisionReadsHeld ==
  ASSUME NEW f \in Files, Accepted(f), NEW node, NEW approximation \in BOOLEAN,
         NEW read \in SelfCollisionReads(f, node, approximation),
         read \notin MisplacedPairReads(Pairs6Link(PairsOf(f)), approximation)
  PROVE  read[2] \in Held(read[1], LinkNumber(f))
<1> DEFINE pairs == PairsOf(f)
           links == LinkNumber(f)
           kept(sorted) == Apart(sorted, node)
<1> USE DEF LegKinds, SixDofKinds, LinkKinds
<1>1. \A pair \in pairs : /\ pair[1] \in 0 .. Ends + links - 1
                          /\ pair[2] \in 0 .. Ends + links - 1
  BY PairsInRange
<1>2. links \in Nat /\ Ends = ThreeDof + SixDof /\ ThreeDof \in Nat /\ SixDof \in Nat
  BY FilesLinks, SizesAssumption DEF Ends
<1>3. CASE read \in Reads33(kept(Pairs33(pairs)), approximation)
  <2>1. \A pair \in kept(Pairs33(pairs)) : pair[1] \in Legs /\ pair[2] \in Legs
    BY <1>1, <1>2 DEF Apart, Pairs33, Legs
  <2> QED BY <1>3, <2>1, HeldIndices DEF Reads33, Derived, Both, Ones, Others
<1>4. CASE read \in Reads36(kept(Pairs36(pairs)), approximation)
  <2>1. \A pair \in kept(Pairs36(pairs)) : pair[1] \in Legs /\ pair[2] \in SixDofLegs
    BY <1>1, <1>2 DEF Apart, Pairs36, Legs, SixDofLegs
  <2> QED BY <1>4, <2>1, HeldIndices, LegsSplit DEF Reads36, Derived, Both, Ones, Others
<1>5. CASE read \in Reads66(kept(Pairs66(pairs)), approximation)
  <2>1. \A pair \in kept(Pairs66(pairs)) : pair[1] \in SixDofLegs /\ pair[2] \in SixDofLegs
    BY DEF Apart, Pairs66
  <2> QED BY <1>5, <2>1, HeldIndices, LegsSplit DEF Reads66, Derived, Both, Ones, Others
<1>6. \A pair \in EndLinkPairs(pairs) : pair[1] \in Legs /\ pair[2] \in Ends .. Ends + links - 1
  BY <1>1, <1>2 DEF EndLinkPairs, Legs
<1>7. CASE read \in Reads3Link(Pairs3Link(pairs), approximation)
  <2>1. \A pair \in Pairs3Link(pairs) : pair[1] \in Legs /\ pair[2] \in Ends .. Ends + links - 1
    BY <1>6 DEF Pairs3Link
  <2>2. CASE read[1] \in {"position", "positionD"} /\ read[2] \in Legs
    BY <2>2, HeldIndices
  <2>3. CASE read[1] \in {"link", "linkD"} /\ read[2] \in Ends .. Ends + links - 1
    BY <2>3, HeldIndices
  <2>4. \/ read \in ({"position"} \cup Derived({"positionD"}, approximation)) \X Ones(Pairs3Link(pairs))
        \/ read \in ({"link"} \cup Derived({"linkD"}, approximation)) \X Others(Pairs3Link(pairs))
    BY <1>7 DEF Reads3Link
  <2> QED BY <2>1, <2>2, <2>3, <2>4 DEF Derived, Ones, Others
<1>8. CASE read \in Reads6Link(Pairs6Link(pairs), approximation)
  <2>1. \A pair \in Pairs6Link(pairs) : pair[1] \in SixDofLegs /\ pair[2] \in Ends .. Ends + links - 1
    BY <1>2, <1>6 DEF Pairs6Link, Legs, SixDofLegs
  <2>2. CASE read[1] \in {"position", "orientation", "positionD", "orientationD"} /\ read[2] \in SixDofLegs
    BY <2>2, HeldIndices, LegsSplit
  <2>3. CASE read[1] = "link" /\ read[2] \in Ends .. Ends + links - 1
    BY <2>3, HeldIndices
  <2>4. read \notin MisplacedPairReads(Pairs6Link(pairs), approximation)
    OBVIOUS
  <2>5. \/ read \in ({"position", "orientation"} \cup Derived({"positionD", "orientationD"}, approximation))
                      \X Ones(Pairs6Link(pairs))
        \/ read \in {"link"} \X Others(Pairs6Link(pairs))
    BY <1>8, <2>4 DEF Reads6Link
  <2> QED BY <2>1, <2>2, <2>3, <2>5 DEF Derived, Ones, Others
<1>9. CASE read \in ReadsLinks(LinkPairs(pairs), approximation)
  <2>1. \A pair \in LinkPairs(pairs) : /\ pair[1] \in Ends .. Ends + links - 1
                                       /\ pair[2] \in Ends .. Ends + links - 1
    BY <1>1, <1>2 DEF LinkPairs
  <2> QED BY <1>9, <2>1, HeldIndices DEF ReadsLinks, Derived, Both, Ones, Others
<1> QED BY <1>3, <1>4, <1>5, <1>7, <1>8, <1>9 DEF SelfCollisionReads

\* Every read of a term that is not misaddressed is in range.
LEMMA ReadsHeld ==
  ASSUME NEW f \in Files, Accepted(f), NEW node, node.stance \subseteq Legs,
         NEW approximation \in BOOLEAN,
         NEW category \in Categories, NEW names, NEW term \in TermsOf(category, names),
         NEW read \in Reads(term, f, node, approximation) \ Misplaced(term, f, approximation)
  PROVE  read[2] \in Held(read[1], LinkNumber(f))
<1>1. CASE term[1] = "TerrainAvoidance"
  <2>1. read \in TerrainReads(f, node, approximation)  BY <1>1 DEF Reads
  <2>2. approximation \/ read \notin MisplacedLinkReads(f)  BY <1>1 DEF Misplaced
  <2> QED BY <2>1, <2>2, TerrainReadsHeld
<1>2. CASE term[1] = "SelfCollisionAvoidance"
  <2>1. read \in SelfCollisionReads(f, node, approximation)  BY <1>2 DEF Reads
  <2>2. read \notin MisplacedPairReads(Pairs6Link(PairsOf(f)), approximation)  BY <1>2 DEF Misplaced
  <2> QED BY <2>1, <2>2, SelfCollisionReadsHeld
<1> QED BY <1>1, <1>2, LegReadsHeld

-----------------------------------------------------------------------------
(* The spheres.                                                            *)

\* The nearest neighbours of a sphere include itself.
LEMMA NeighbourOfItself ==
  ASSUME NEW number \in Nat \ {0}, NEW most \in Nat \ {0}, NEW j \in 0 .. number - 1,
         NEW kept \in NeighbourSets(j, number, most)
  PROVE  j \in kept /\ kept \subseteq 0 .. number - 1
<1>1. /\ kept \subseteq 0 .. number - 1
      /\ Cardinality(kept) # 0
      /\ \A near \in kept, far \in (0 .. number - 1) \ kept : Near(j, near) <= Near(j, far)
  BY DEF NeighbourSets, NearestSets
<1>2. kept # {}  BY <1>1, FS_EmptySet
<1>3. ASSUME j \notin kept PROVE FALSE
  <2>1. PICK near \in kept : TRUE  BY <1>2
  <2>2. Near(j, near) <= Near(j, j)  BY <1>1, <1>3, <2>1
  <2>3. near \in Int /\ j \in Int /\ near # j  BY <1>1, <1>3, <2>1
  <2> QED BY <2>2, <2>3 DEF Near
<1> QED BY <1>1, <1>3

-----------------------------------------------------------------------------
(* The inductive invariant.                                                *)

\* A thread has in its precomputation all that its request computes.
CacheFilled ==
  \A w \in Workers : request[w] # NoRequest =>
    \A kind \in Computed(request[w].flags) : cache[w][kind] = request[w].node

\* The current spheres are spheres of their frames.
SpheresExist ==
  stage \in {"ready"} \cup Running =>
    /\ sphere \in [Workers -> [Slots -> Nat]]
    /\ \A w \in Workers, slot \in Slots : sphere[w][slot] \in 0 .. SlotSpheres(file, slot) - 1

IInv == TypeOK /\ CacheFilled /\ SpheresExist /\ NeverRecedes

LEMMA SlotsHaveSpheres ==
  ASSUME NEW f \in Files, NEW slot \in 1 .. SixDof + Len(f.terrain)
  PROVE  SlotSpheres(f, slot) \in 1 .. MostSpheres
<1>1. f.terrain \in Seq(Names) /\ SphereNumber \in [Names -> 1 .. MostSpheres]
  BY ProblemAssumption
<1>2. SixDofNames \in Seq(Names) /\ Len(SixDofNames) = SixDof /\ SixDof \in Nat
  BY NamesAssumption, SizesAssumption
<1>3. Len(f.terrain) \in Nat /\ slot \in Nat /\ slot >= 1  BY <1>1, <1>2
<1>4. CASE slot <= SixDof
  <2>1. SlotName(f, slot) = SixDofNames[slot] /\ slot \in 1 .. Len(SixDofNames)
    BY <1>2, <1>3, <1>4 DEF SlotName
  <2>2. SlotName(f, slot) \in Names  BY <1>2, <2>1
  <2> QED BY <1>1, <2>2 DEF SlotSpheres
<1>5. CASE ~(slot <= SixDof)
  <2>1. SlotName(f, slot) = f.terrain[slot - SixDof] /\ slot - SixDof \in 1 .. Len(f.terrain)
    BY <1>2, <1>3, <1>5 DEF SlotName
  <2>2. SlotName(f, slot) \in Names  BY <1>1, <2>1
  <2> QED BY <1>1, <2>2 DEF SlotSpheres
<1> QED BY <1>4, <1>5

\* A search ends at a sphere of the frame that is no farther from the terrain.
LEMMA SearchDescends ==
  ASSUME file \in Files, Accepted(file), NEW slot \in Slots,
         NEW from \in 0 .. SlotSpheres(file, slot) - 1, NEW clearance \in Clearances,
         NEW to \in Found(slot, from, clearance)
  PROVE  to \in 0 .. SlotSpheres(file, slot) - 1 /\ clearance[to] <= clearance[from]
<1>1. SlotSpheres(file, slot) \in 1 .. MostSpheres /\ MostSpheres \in Nat
  BY SlotsHaveSpheres, ProblemAssumption DEF Slots
<1>2. file.neighbours \in Nat \ {0}
  BY ProblemAssumption DEF Accepted, SizesAccepted
<1>3. PICK kept \in NeighbourSets(from, SlotSpheres(file, slot), file.neighbours) :
        to \in Descents(kept, clearance)
  BY DEF Found
<1>4. from \in kept /\ kept \subseteq 0 .. SlotSpheres(file, slot) - 1
  BY <1>1, <1>2, <1>3, NeighbourOfItself
<1> QED BY <1>3, <1>4 DEF Descents

LEMMA Initially == Init => IInv
<1> SUFFICES ASSUME Init PROVE IInv  OBVIOUS
<1>1. TypeOK
  <2>1. stage = "start" /\ receded = FALSE /\ sent = 0 /\ buffered = 0 /\ disturbance = 0
    BY DEF Init
  <2>2. request = [w \in Workers |-> NoRequest]  BY DEF Init
  <2>3. request \in [Workers -> [node : Nodes, flags : Requests] \cup {NoRequest}]  BY <2>2
  <2>4. cache \in [Workers -> [Kinds -> Nodes \cup {Older}]]  BY DEF Init
  <2>5. sent \in 0 .. MaxDisturbances /\ buffered \in 0 .. sent /\ disturbance \in 0 .. sent
    BY <2>1, ProblemAssumption
  <2>6. /\ stage \in {"start", "refused", "ready"} \cup Running
        /\ stage \notin {"ready"} \cup Running
        /\ stage \notin Running
    BY <2>1 DEF Running
  <2>7. receded \in BOOLEAN  BY <2>1
  <2> HIDE DEF Init
  <2> QED BY <2>2, <2>3, <2>4, <2>5, <2>6, <2>7 DEF TypeOK
<1>2. CacheFilled  BY DEF Init, CacheFilled
<1>3. SpheresExist  BY DEF Init, SpheresExist, Running
<1> QED BY <1>1, <1>2, <1>3 DEF IInv, Init, NeverRecedes

LEMMA Inductive == IInv /\ [Next]_vars => IInv'
<1> SUFFICES ASSUME IInv, [Next]_vars PROVE IInv'  OBVIOUS
<1> USE ProblemAssumption DEF Running
<1>1. ASSUME NEW f \in Files, NEW names \in SettingsSets, NEW numbers \in Numbers,
             Refuse(f, names, numbers)
      PROVE  IInv'
  <2>1. TypeOK'  BY <1>1 DEF IInv, TypeOK, Refuse, wrench
  <2>2. CacheFilled'  BY <1>1 DEF IInv, CacheFilled, Refuse
  <2>3. SpheresExist' /\ NeverRecedes'  BY <1>1 DEF IInv, SpheresExist, NeverRecedes, Refuse
  <2> QED BY <2>1, <2>2, <2>3 DEF IInv
<1>2. ASSUME NEW f \in Files, NEW names \in SettingsSets, NEW numbers \in Numbers,
             Construct(f, names, numbers)
      PROVE  IInv'
  <2>1. TypeOK'  BY <1>2 DEF IInv, TypeOK, Construct, wrench
  <2>2. CacheFilled'  BY <1>2 DEF IInv, CacheFilled, Construct
  <2>3. SpheresExist'
    <3>1. PICK chosen \in [1 .. SixDof + Len(f.terrain) -> 0 .. MostSpheres - 1] :
            /\ \A slot \in DOMAIN chosen : chosen[slot] < SlotSpheres(f, slot)
            /\ sphere' = [w \in Workers |-> chosen]
      BY <1>2 DEF Construct
    <3>2. file' = f /\ Slots' = 1 .. SixDof + Len(f.terrain)  BY <1>2 DEF Construct, Slots
    <3>3. \A slot \in Slots' : /\ chosen[slot] \in Nat
                               /\ chosen[slot] < SlotSpheres(f, slot)
                               /\ SlotSpheres(f, slot) \in Nat
      <4> TAKE slot \in Slots'
      <4>1. slot \in 1 .. SixDof + Len(f.terrain)  BY <3>2
      <4>2. SlotSpheres(f, slot) \in 1 .. MostSpheres  BY <4>1, SlotsHaveSpheres
      <4>3. chosen[slot] \in 0 .. MostSpheres - 1 /\ chosen[slot] < SlotSpheres(f, slot)  BY <3>1, <4>1
      <4> QED BY <4>2, <4>3
    <3>4. \A w \in Workers, slot \in Slots' : sphere'[w][slot] \in 0 .. SlotSpheres(f, slot) - 1
      BY <3>1, <3>3
    <3>5. sphere' \in [Workers -> [Slots' -> Nat]]  BY <3>1, <3>2
    <3>6. \A slot : SlotSpheres(f, slot) = SlotSpheres(f, slot)'
      BY DEF SlotSpheres, SlotName
    <3> QED BY <3>2, <3>4, <3>5, <3>6 DEF SpheresExist, SlotSpheres, SlotName
  <2>4. NeverRecedes'  BY <1>2 DEF IInv, NeverRecedes, Construct
  <2> QED BY <2>1, <2>2, <2>3, <2>4 DEF IInv
<1>3. ASSUME UpdateDisturbance PROVE IInv'
  <2>1. TypeOK'  BY <1>3 DEF IInv, TypeOK, UpdateDisturbance, Buffered, problem, work
  <2>2. CacheFilled'  BY <1>3 DEF IInv, CacheFilled, UpdateDisturbance, work
  <2>3. SpheresExist' /\ NeverRecedes'
    BY <1>3 DEF IInv, SpheresExist, NeverRecedes, UpdateDisturbance, problem, work, Slots, SlotSpheres, SlotName
  <2> QED BY <2>1, <2>2, <2>3 DEF IInv
<1>4. ASSUME NEW references \in Horizons, BeginRun(references) PROVE IInv'
  <2>1. TypeOK'  BY <1>4 DEF IInv, TypeOK, BeginRun, TakenOver
  <2>2. CacheFilled'  BY <1>4 DEF IInv, CacheFilled, BeginRun
  <2>3. SpheresExist' /\ NeverRecedes'
    BY <1>4 DEF IInv, SpheresExist, NeverRecedes, BeginRun, Slots, SlotSpheres, SlotName
  <2> QED BY <2>1, <2>2, <2>3 DEF IInv
<1>5. ASSUME NEW w \in Workers, NEW node \in Nodes, NEW flags \in Requests, Request(w, node, flags)
      PROVE IInv'
  <2>1. TypeOK'
    <3>1. request' \in [Workers -> [node : Nodes, flags : Requests] \cup {NoRequest}]
      BY <1>5 DEF IInv, TypeOK, Request
    <3>2. cache' \in [Workers -> [Kinds -> Nodes \cup {Older}]]
      BY <1>5 DEF IInv, TypeOK, Request, OwnCache
    <3>3. stage' \in Running  BY <1>5 DEF Request, problem
    <3> QED BY <1>5, <3>1, <3>2, <3>3 DEF IInv, TypeOK, Request, problem, wrench
  <2>2. CacheFilled'
    <3>1. Computed(flags) \subseteq Kinds
      BY DEF Computed, MotionKinds, ReferenceKinds, TorqueKindsOf, AngularKinds, CollisionKinds,
         CompensationKinds, WithDerivative, Kinds, LegKinds, SixDofKinds, LinkKinds, TorqueKinds
    <3>2. \A kind \in Computed(flags) : cache'[w][kind] = node
      BY <1>5, <3>1 DEF IInv, TypeOK, Request, OwnCache
    <3>3. request'[w].node = node /\ request'[w].flags = flags
      BY <1>5 DEF IInv, TypeOK, Request
    <3>4. \A other \in Workers \ {w} : request'[other] = request[other] /\ cache'[other] = cache[other]
      BY <1>5 DEF IInv, TypeOK, Request, OwnCache
    <3> QED BY <3>2, <3>3, <3>4 DEF IInv, CacheFilled
  <2>3. SpheresExist' /\ NeverRecedes'
    BY <1>5 DEF IInv, SpheresExist, NeverRecedes, Request, problem, Slots, SlotSpheres, SlotName
  <2> QED BY <2>1, <2>2, <2>3 DEF IInv
<1>6. ASSUME NEW w \in Workers, Evaluate(w) PROVE IInv'
  <2>0. stage \in Running /\ file \in Files /\ Accepted(file) /\ stage' = stage /\ file' = file
    BY <1>6 DEF IInv, TypeOK, Evaluate
  <2>1. CASE UNCHANGED <<sphere, receded>>
    <3>1. request' \in [Workers -> [node : Nodes, flags : Requests] \cup {NoRequest}]
      BY <1>6 DEF IInv, TypeOK, Evaluate
    <3>2. TypeOK'  BY <1>6, <2>0, <2>1, <3>1 DEF IInv, TypeOK, Evaluate, wrench
    <3>3. CacheFilled'  BY <1>6 DEF IInv, TypeOK, CacheFilled, Evaluate
    <3>4. SpheresExist' /\ NeverRecedes'
      BY <2>0, <2>1 DEF IInv, SpheresExist, NeverRecedes, Slots, SlotSpheres, SlotName
    <3> QED BY <3>2, <3>3, <3>4 DEF IInv
  <2>2. ASSUME NEW clearance \in Clearances, Search(w, horizon[request[w].node], clearance) PROVE IInv'
    <3>1. PICK next \in [Slots -> 0 .. MostSpheres - 1] :
            /\ \A slot \in Slots :
                 \/ next[slot] \in Found(slot, sphere[w][slot], clearance)
                 \/ next[slot] = sphere[w][slot]
            /\ sphere' = [sphere EXCEPT ![w] = next]
            /\ receded' = \/ receded
                          \/ \E slot \in Slots : clearance[next[slot]] > clearance[sphere[w][slot]]
      BY <2>2 DEF Search
    <3>2. /\ sphere \in [Workers -> [Slots -> Nat]]
          /\ \A v \in Workers, slot \in Slots : sphere[v][slot] \in 0 .. SlotSpheres(file, slot) - 1
      BY <2>0 DEF IInv, SpheresExist
    <3>3. \A slot \in Slots : /\ SlotSpheres(file, slot) \in 1 .. MostSpheres
                              /\ sphere[w][slot] \in 0 .. MostSpheres - 1
                              /\ clearance[sphere[w][slot]] \in Int
                              /\ clearance[next[slot]] \in Int
      <4> TAKE slot \in Slots
      <4>1. SlotSpheres(file, slot) \in 1 .. MostSpheres  BY <2>0, SlotsHaveSpheres DEF Slots
      <4>2. sphere[w][slot] \in 0 .. MostSpheres - 1  BY <3>2, <4>1
      <4>3. next[slot] \in 0 .. MostSpheres - 1  BY <3>1
      <4>4. clearance \in [0 .. MostSpheres - 1 -> Int]  OBVIOUS
      <4> QED BY <4>1, <4>2, <4>3, <4>4
    <3>4. \A slot \in Slots : /\ next[slot] \in 0 .. SlotSpheres(file, slot) - 1
                              /\ clearance[next[slot]] <= clearance[sphere[w][slot]]
      BY <2>0, <3>1, <3>2, <3>3, SearchDescends
    <3>5. NeverRecedes'
      BY <3>1, <3>3, <3>4 DEF IInv, NeverRecedes
    <3>6. Slots' = Slots /\ \A slot : SlotSpheres(file, slot)' = SlotSpheres(file, slot)
      BY <2>0 DEF Slots, SlotSpheres, SlotName
    <3>7. SpheresExist'
      <4>1. sphere' \in [Workers -> [Slots -> Nat]]  BY <3>1, <3>2
      <4>2. \A v \in Workers, slot \in Slots : sphere'[v][slot] \in 0 .. SlotSpheres(file, slot) - 1
        BY <3>1, <3>2, <3>4
      <4> QED BY <4>1, <4>2, <3>6, <2>0 DEF SpheresExist, SlotSpheres, SlotName
    <3>8. request' \in [Workers -> [node : Nodes, flags : Requests] \cup {NoRequest}]
      BY <1>6 DEF IInv, TypeOK, Evaluate
    <3>9. receded' \in BOOLEAN
      <4>1. receded \in BOOLEAN  BY DEF IInv, TypeOK
      <4> QED BY <3>1, <4>1
    <3>10. TypeOK'  BY <1>6, <2>0, <3>8, <3>9 DEF IInv, TypeOK, Evaluate, wrench
    <3>11. CacheFilled'  BY <1>6 DEF IInv, TypeOK, CacheFilled, Evaluate
    <3> QED BY <3>5, <3>7, <3>10, <3>11 DEF IInv
  <2> QED BY <1>6, <2>1, <2>2 DEF Evaluate
<1>7. ASSUME StopIterating PROVE IInv'
  <2>1. TypeOK'  BY <1>7 DEF IInv, TypeOK, StopIterating, work, wrench
  <2>2. CacheFilled'  BY <1>7 DEF IInv, CacheFilled, StopIterating, work
  <2>3. SpheresExist' /\ NeverRecedes'
    BY <1>7 DEF IInv, SpheresExist, NeverRecedes, StopIterating, work, Slots, SlotSpheres, SlotName
  <2> QED BY <2>1, <2>2, <2>3 DEF IInv
<1>8. ASSUME EndRun PROVE IInv'
  <2>1. request = [w \in Workers |-> NoRequest]  BY <1>8 DEF IInv, TypeOK, EndRun, AllIdle
  <2>2. TypeOK'  BY <1>8, <2>1 DEF IInv, TypeOK, EndRun, work, wrench
  <2>3. CacheFilled'  BY <1>8 DEF IInv, CacheFilled, EndRun, work
  <2>4. SpheresExist' /\ NeverRecedes'
    BY <1>8 DEF IInv, SpheresExist, NeverRecedes, EndRun, work, Slots, SlotSpheres, SlotName
  <2> QED BY <2>2, <2>3, <2>4 DEF IInv
<1>9. ASSUME UNCHANGED vars PROVE IInv'
  <2>1. TypeOK'  BY <1>9 DEF IInv, TypeOK, vars
  <2>2. CacheFilled'  BY <1>9 DEF IInv, CacheFilled, vars
  <2>3. SpheresExist' /\ NeverRecedes'
    BY <1>9 DEF IInv, SpheresExist, NeverRecedes, vars, Slots, SlotSpheres, SlotName
  <2> QED BY <2>1, <2>2, <2>3 DEF IInv
<1> QED BY <1>1, <1>2, <1>3, <1>4, <1>5, <1>6, <1>7, <1>8, <1>9 DEF Next

LEMMA Invariance == Spec => []IInv
BY Initially, Inductive, PTL DEF Spec

-----------------------------------------------------------------------------
(* The state and the vectors of the kinematics.                            *)

\* What a getter returns is of the body it is asked for.
LEMMA BodiesMatch ==
  ASSUME NEW n, NEW kind, NEW i \in Held(kind, n)
  PROVE  SameBody(kind, i)
<1> USE SizesAssumption
<1> USE DEF LegKinds, SixDofKinds, LinkKinds
<1>1. CASE kind \in {"position", "positionD", "velocity", "velocityD"}
  <2>1. PositionCut(LegPlace(i)) = PositionRow(i)  BY DEF PositionCut, LegPlace, PositionRow
  <2>2. VelocityCut(LegPlace(i)) = VelocityRow(i)  BY DEF VelocityCut, LegPlace, VelocityRow
  <2> QED BY <1>1, <2>1, <2>2 DEF SameBody
<1>2. CASE kind \in SixDofKinds
  <2>1. i \in SixDofLegs  BY <1>2, HeldIndices
  <2>2. OrientationCut(SolePlace(i)) = OrientationRow(i)
    BY <2>1 DEF SixDofLegs, OrientationCut, SolePlace, OrientationRow
  <2>3. AngularVelocityCut(SolePlace(i)) = AngularVelocityRow(i)
    BY <2>1 DEF SixDofLegs, AngularVelocityCut, SolePlace, AngularVelocityRow
  <2> QED BY <1>2, <2>2, <2>3 DEF SameBody
<1>3. CASE kind \in LinkKinds
  <2>1. LinkCut(LinkPlace(i)) = LinkRow(i)  BY DEF LinkCut, LinkPlace, LinkRow
  <2> QED BY <1>3, <2>1 DEF SameBody
<1>4. ASSUME kind \notin {"position", "positionD", "velocity", "velocityD"},
             kind \notin SixDofKinds, kind \notin LinkKinds
      PROVE  SameBody(kind, i)
  BY <1>4 DEF SameBody
<1> QED BY <1>1, <1>2, <1>3, <1>4

\* Every part of the state is written where it is read.
LEMMA StateInPlace ==
  ASSUME NEW term, NEW part \in (Flow \cup StateParts(term)) \ {MisreadAngularVelocity}
  PROVE  part[1] = part[2]
<1> USE SizesAssumption
<1>1. BasePosition = Block(6, 3) /\ BaseOrientation = Block(9, 3) /\ BaseLinearVelocity = Block(0, 3)
  BY DEF BasePosition, BaseOrientation, BaseLinearVelocity, Block
<1>2. Configuration = 6 .. StateDim - 1
  BY DEF Configuration, BasePosition, BaseOrientation, JointPositions, StateDim, GeneralizedNum
<1>3. Motion = 0 .. StateDim - 1
  BY <1>2 DEF Motion, BaseVelocity, StateDim, GeneralizedNum
<1>4. Configuration = Block(StateDim - (StateDim - 6), StateDim - 6)
  BY <1>2 DEF Block, StateDim, GeneralizedNum
<1>5. Configuration = Block(6, GeneralizedNum)
  BY <1>2 DEF Block, StateDim, GeneralizedNum
<1>6. Motion = Block(0, StateDim)
  BY <1>3 DEF Block, StateDim, GeneralizedNum
<1>7. JointVelocities = Block(InputDim - Actuated, Actuated)
  BY DEF JointVelocities, Block, InputDim
<1>8. JointPositions = Block(12, Actuated)
  BY DEF JointPositions, Block
<1>9. part \in (TrackedBase \ {MisreadAngularVelocity})
                 \cup (TrackedEffectors \cup (TrackedJoints \cup (TorqueState
                 \cup (NormalState \cup (LimitedState \cup Flow)))))
  BY DEF StateParts, TrackedState
<1>10. CASE part \in TrackedBase \ {MisreadAngularVelocity}
  BY <1>1, <1>10 DEF TrackedBase
<1>11. CASE part \in TrackedEffectors
  BY <1>4, <1>6, <1>7, <1>11 DEF TrackedEffectors
<1>12. CASE part \in TrackedJoints \cup LimitedState
  BY <1>8, <1>12 DEF TrackedJoints, LimitedState
<1>13. CASE part \in TorqueState \cup NormalState
  BY <1>5, <1>13 DEF TorqueState, NormalState, Torque
<1>14. CASE part \in Flow
  <2>1. BaseVelocity = Block(0, 6)  BY DEF BaseVelocity, Block
  <2> QED BY <1>1, <1>8, <1>14, <2>1 DEF Flow
<1> QED BY <1>9, <1>10, <1>11, <1>12, <1>13, <1>14

-----------------------------------------------------------------------------
(* The cone of the sole. Its edges are numbered by four signs: of the      *)
(* tangential forces, and of the corner in x and in y.                     *)

Choices == Signs \X Signs \X Signs \X Signs

Edge(u, x, y, e) ==
  <<e[1] * u, e[2] * u, One, e[4] * y * One, -(e[3] * x * One),
    e[3] * x * (e[2] * u) - e[4] * y * (e[1] * u)>>

LEMMA ChoiceOfSigns ==
  /\ \A a, b, c, d \in Signs : <<a, b, c, d>> \in Choices
  /\ \A e \in Choices : /\ e[1] \in Signs /\ e[2] \in Signs /\ e[3] \in Signs /\ e[4] \in Signs
                        /\ e = <<e[1], e[2], e[3], e[4]>>
  /\ Signs \in SUBSET Int /\ -1 \in Signs /\ 1 \in Signs
BY DEF Choices, Signs

LEMMA EdgesOfSole ==
  ASSUME NEW u \in Nat, NEW x \in Nat, NEW y \in Nat
  PROVE  Edges(u, x, y) = {Edge(u, x, y, e) : e \in Choices}
<1>1. ASSUME NEW a \in Signs, NEW b \in Signs, NEW c \in Signs, NEW d \in Signs
      PROVE  Wrench(<<a * u, b * u, One>>, c * x, d * y) = Edge(u, x, y, <<a, b, c, d>>)
  <2>1. a \in Int /\ b \in Int /\ c \in Int /\ d \in Int /\ One \in Int
    BY OneAssumption DEF Signs
  <2>2. -(c * x) * One = -(c * x * One)
    BY <2>1
  <2> QED
    BY <2>1, <2>2 DEF Wrench, Edge
<1>2. ASSUME NEW e \in Choices PROVE Edge(u, x, y, e) \in Edges(u, x, y)
  <2>1. PICK a \in Signs, b \in Signs, c \in Signs, d \in Signs : e = <<a, b, c, d>>
    BY ChoiceOfSigns
  <2>2. Wrench(<<a * u, b * u, One>>, c * x, d * y) \in Edges(u, x, y)
    BY DEF Edges
  <2>3. Wrench(<<a * u, b * u, One>>, c * x, d * y) = Edge(u, x, y, e)
    BY <1>1, <2>1
  <2> QED
    BY <2>2, <2>3
<1>3. ASSUME NEW edge \in Edges(u, x, y)
      PROVE  \E e \in Choices : edge = Edge(u, x, y, e)
  <2>1. PICK a \in Signs, b \in Signs, c \in Signs, d \in Signs :
               edge = Wrench(<<a * u, b * u, One>>, c * x, d * y)
    BY DEF Edges
  <2> QED
    <3>1. edge = Edge(u, x, y, <<a, b, c, d>>)
      BY <1>1, <2>1
    <3>2. <<a, b, c, d>> \in Choices
      BY ChoiceOfSigns
    <3> QED
      BY <3>1, <3>2
<1> QED
  BY <1>2, <1>3

\* The signs of an edge can be read off it, if the sole has some length both ways.
SignOf(n) == IF n > 0 THEN 1 ELSE -1
SignsOf(edge) == <<SignOf(edge[1]), SignOf(edge[2]), SignOf(0 - edge[5]), SignOf(edge[4])>>

LEMMA SignsOfEdge ==
  ASSUME NEW u \in Nat \ {0}, NEW x \in Nat \ {0}, NEW y \in Nat \ {0}, NEW e \in Choices
  PROVE  SignsOf(Edge(u, x, y, e)) = e
<1>1. \A s \in Signs, n \in Nat \ {0} : SignOf(s * n) = s
  BY DEF SignOf, Signs
<1>2. x * One \in Nat \ {0} /\ y * One \in Nat \ {0}
  <2>1. x * One # 0 /\ y * One # 0 /\ x * One \in Nat /\ y * One \in Nat
    BY OneAssumption
  <2> QED
    BY <2>1
<1>3. e[1] \in Signs /\ e[2] \in Signs /\ e[3] \in Signs /\ e[4] \in Signs
  BY ChoiceOfSigns
<1>4. /\ e[3] * x * One = e[3] * (x * One) /\ e[4] * y * One = e[4] * (y * One)
      /\ e[3] * x * One \in Int
  BY <1>3, OneAssumption DEF Signs
<1>5. \A n \in Int : 0 - (-n) = n
  OBVIOUS
<1>6. /\ Edge(u, x, y, e)[1] = e[1] * u
      /\ Edge(u, x, y, e)[2] = e[2] * u
      /\ Edge(u, x, y, e)[4] = e[4] * y * One
      /\ Edge(u, x, y, e)[5] = -(e[3] * x * One)
  BY DEF Edge
<1>7. e[1] = SignOf(e[1] * u) /\ e[2] = SignOf(e[2] * u)
  BY <1>1, <1>3
<1>8. e[3] = SignOf(e[3] * x * One) /\ e[4] = SignOf(e[4] * y * One)
  BY <1>1, <1>2, <1>3, <1>4
<1>9. 0 - Edge(u, x, y, e)[5] = e[3] * x * One
  BY <1>4, <1>5, <1>6
<1>10. e = <<e[1], e[2], e[3], e[4]>>
  BY ChoiceOfSigns
<1> QED
  BY <1>6, <1>7, <1>8, <1>9, <1>10 DEF SignsOf

LEMMA EdgesDiffer ==
  ASSUME NEW u \in Nat \ {0}, NEW x \in Nat \ {0}, NEW y \in Nat \ {0},
         NEW e \in Choices, NEW f \in Choices, Edge(u, x, y, e) = Edge(u, x, y, f)
  PROVE  e = f
<1>1. SignsOf(Edge(u, x, y, e)) = e
  BY SignsOfEdge
<1>2. SignsOf(Edge(u, x, y, f)) = f
  BY SignsOfEdge
<1> QED
  BY <1>1, <1>2

LEMMA EdgesFinite ==
  ASSUME NEW u \in Nat, NEW x \in Nat, NEW y \in Nat
  PROVE  IsFiniteSet(Edges(u, x, y))
<1> DEFINE Pairs == (Signs \X Signs) \X (Signs \X Signs)
           edge == [q \in Pairs |-> Edge(u, x, y, <<q[1][1], q[1][2], q[2][1], q[2][2]>>)]
           T == Edges(u, x, y)
<1>1. IsFiniteSet(Signs)
  <2>1. -1 \in Int /\ 1 \in Int
    OBVIOUS
  <2>2. IsFiniteSet(-1 .. 1)
    BY <2>1, FS_Interval
  <2>3. Signs \in SUBSET (-1 .. 1)
    BY DEF Signs
  <2> QED
    BY <2>2, <2>3, FS_Subset
<1>2. IsFiniteSet(Pairs)
  BY <1>1, FS_Product
<1>3. edge \in Surjection(Pairs, T)
  <2>1. \A q \in Pairs : edge[q] \in T
    BY EdgesOfSole, ChoiceOfSigns
  <2>2. \A t \in T : \E q \in Pairs : edge[q] = t
    <3> SUFFICES ASSUME NEW t \in T PROVE \E q \in Pairs : edge[q] = t
      OBVIOUS
    <3>1. PICK e \in Choices : t = Edge(u, x, y, e)
      BY EdgesOfSole
    <3>2. <<<<e[1], e[2]>>, <<e[3], e[4]>>>> \in Pairs
          /\ edge[<<<<e[1], e[2]>>, <<e[3], e[4]>>>>] = t
      BY <3>1, ChoiceOfSigns
    <3> QED
      BY <3>2
  <2> QED
    BY <2>1, <2>2 DEF Surjection
<1> HIDE DEF Pairs, edge, T
<1>4. IsFiniteSet(T)
  BY <1>2, <1>3, FS_Surjection
<1> QED
  BY <1>4 DEF T

\* Five of something.
LEMMA FiveElements ==
  ASSUME NEW S, IsFiniteSet(S), NEW p \in S, NEW q \in S, NEW r \in S, NEW s \in S, NEW t \in S,
         p \notin {q, r, s, t}, q \notin {r, s, t}, r \notin {s, t}, s # t
  PROVE  Cardinality(S) >= 5
<1>0. \A T, z : IsFiniteSet(T) /\ z \notin T =>
        IsFiniteSet(T \cup {z}) /\ Cardinality(T \cup {z}) = Cardinality(T) + 1
  BY FS_AddElement
<1>1. IsFiniteSet({t}) /\ Cardinality({t}) = 1
  BY FS_Singleton
<1>2. IsFiniteSet({t} \cup {s}) /\ Cardinality({t} \cup {s}) = 1 + 1
  <2>1. s \notin {t}
    OBVIOUS
  <2> QED
    BY <1>0, <1>1, <2>1
<1>3. IsFiniteSet({t} \cup {s} \cup {r}) /\ Cardinality({t} \cup {s} \cup {r}) = 1 + 1 + 1
  <2>1. r \notin {t} \cup {s}
    OBVIOUS
  <2> QED
    BY <1>0, <1>2, <2>1
<1>4. IsFiniteSet({t} \cup {s} \cup {r} \cup {q}) /\ Cardinality({t} \cup {s} \cup {r} \cup {q}) = 1 + 1 + 1 + 1
  <2>1. q \notin {t} \cup {s} \cup {r}
    OBVIOUS
  <2> QED
    BY <1>0, <1>3, <2>1
<1>5. Cardinality({t} \cup {s} \cup {r} \cup {q} \cup {p}) = 1 + 1 + 1 + 1 + 1
  <2>1. p \notin {t} \cup {s} \cup {r} \cup {q}
    OBVIOUS
  <2> QED
    BY <1>0, <1>4, <2>1
<1>6. {t} \cup {s} \cup {r} \cup {q} \cup {p} \in SUBSET S
  OBVIOUS
<1>7. Cardinality(S) \in Nat
  BY FS_CardinalityType
<1> QED
  BY <1>5, <1>6, <1>7, FS_Subset

\* The value of a row at an edge.
Value(u, x, y, row, e) == Slack(ConeRow(u, x, y, row), Edge(u, x, y, e))

LEMMA FiveEdges ==
  ASSUME NEW u \in Nat \ {0}, NEW x \in Nat \ {0}, NEW y \in Nat \ {0}, NEW row,
         NEW e \in Choices, NEW f \in Choices, NEW g \in Choices, NEW h \in Choices, NEW i \in Choices,
         e \notin {f, g, h, i}, f \notin {g, h, i}, g \notin {h, i}, h # i,
         \A choice \in {e, f, g, h, i} : Value(u, x, y, row, choice) = 0
  PROVE  Facet(u, x, y, row)
<1> DEFINE On == {edge \in Edges(u, x, y) : Slack(ConeRow(u, x, y, row), edge) = 0}
           EdgeOf(q) == Edge(u, x, y, q)
<1>1. \A q \in {e, f, g, h, i} : EdgeOf(q) \in On
  BY EdgesOfSole DEF Value
<1>2. \A q, r \in Choices : EdgeOf(q) = EdgeOf(r) => q = r
  BY EdgesDiffer
<1>3. IsFiniteSet(On)
  <2>1. On \in SUBSET Edges(u, x, y)
    OBVIOUS
  <2> QED
    BY <2>1, EdgesFinite, FS_Subset
<1> HIDE DEF On, EdgeOf
<1>4. /\ EdgeOf(e) \notin {EdgeOf(f), EdgeOf(g), EdgeOf(h), EdgeOf(i)}
      /\ EdgeOf(f) \notin {EdgeOf(g), EdgeOf(h), EdgeOf(i)}
      /\ EdgeOf(g) \notin {EdgeOf(h), EdgeOf(i)}
      /\ EdgeOf(h) # EdgeOf(i)
  BY <1>2
<1>5. EdgeOf(e) \in On /\ EdgeOf(f) \in On /\ EdgeOf(g) \in On /\ EdgeOf(h) \in On /\ EdgeOf(i) \in On
  BY <1>1
<1>6. Cardinality(On) >= 5
  BY <1>3, <1>4, <1>5, FiveElements
<1> QED
  BY <1>6 DEF Facet, On

\* A row that vanishes where one sign is fixed is a facet.
LEMMA OneSignFixed ==
  ASSUME NEW u \in Nat \ {0}, NEW x \in Nat \ {0}, NEW y \in Nat \ {0}, NEW row,
         NEW k \in 1 .. 4, NEW s \in Signs,
         \A e \in Choices : e[k] = s => Value(u, x, y, row, e) = 0
  PROVE  Facet(u, x, y, row)
<1>1. \E e, f, g, h, i \in {e \in Choices : e[k] = s} :
        e \notin {f, g, h, i} /\ f \notin {g, h, i} /\ g \notin {h, i} /\ h # i
  <2>1. CASE k = 1
    <3> DEFINE e == <<s, 1, 1, 1>>  f == <<s, 1, 1, -1>>  g == <<s, 1, -1, 1>>
               h == <<s, -1, 1, 1>>  i == <<s, -1, -1, 1>>
    <3>1. e \in Choices /\ f \in Choices /\ g \in Choices /\ h \in Choices /\ i \in Choices
      BY ChoiceOfSigns
    <3>2. e \notin {f, g, h, i} /\ f \notin {g, h, i} /\ g \notin {h, i} /\ h # i
      OBVIOUS
    <3>3. e[k] = s /\ f[k] = s /\ g[k] = s /\ h[k] = s /\ i[k] = s
      BY <2>1
    <3> HIDE DEF e, f, g, h, i
    <3> QED
      BY <3>1, <3>2, <3>3
  <2>2. CASE k = 2
    <3> DEFINE e == <<1, s, 1, 1>>  f == <<1, s, 1, -1>>  g == <<1, s, -1, 1>>
               h == <<-1, s, 1, 1>>  i == <<-1, s, -1, 1>>
    <3>1. e \in Choices /\ f \in Choices /\ g \in Choices /\ h \in Choices /\ i \in Choices
      BY ChoiceOfSigns
    <3>2. e \notin {f, g, h, i} /\ f \notin {g, h, i} /\ g \notin {h, i} /\ h # i
      OBVIOUS
    <3>3. e[k] = s /\ f[k] = s /\ g[k] = s /\ h[k] = s /\ i[k] = s
      BY <2>2
    <3> HIDE DEF e, f, g, h, i
    <3> QED
      BY <3>1, <3>2, <3>3
  <2>3. CASE k = 3
    <3> DEFINE e == <<1, 1, s, 1>>  f == <<1, 1, s, -1>>  g == <<1, -1, s, 1>>
               h == <<-1, 1, s, 1>>  i == <<-1, -1, s, 1>>
    <3>1. e \in Choices /\ f \in Choices /\ g \in Choices /\ h \in Choices /\ i \in Choices
      BY ChoiceOfSigns
    <3>2. e \notin {f, g, h, i} /\ f \notin {g, h, i} /\ g \notin {h, i} /\ h # i
      OBVIOUS
    <3>3. e[k] = s /\ f[k] = s /\ g[k] = s /\ h[k] = s /\ i[k] = s
      BY <2>3
    <3> HIDE DEF e, f, g, h, i
    <3> QED
      BY <3>1, <3>2, <3>3
  <2>4. CASE k = 4
    <3> DEFINE e == <<1, 1, 1, s>>  f == <<1, 1, -1, s>>  g == <<1, -1, 1, s>>
               h == <<-1, 1, 1, s>>  i == <<-1, -1, 1, s>>
    <3>1. e \in Choices /\ f \in Choices /\ g \in Choices /\ h \in Choices /\ i \in Choices
      BY ChoiceOfSigns
    <3>2. e \notin {f, g, h, i} /\ f \notin {g, h, i} /\ g \notin {h, i} /\ h # i
      OBVIOUS
    <3>3. e[k] = s /\ f[k] = s /\ g[k] = s /\ h[k] = s /\ i[k] = s
      BY <2>4
    <3> HIDE DEF e, f, g, h, i
    <3> QED
      BY <3>1, <3>2, <3>3
  <2> QED
    BY <2>1, <2>2, <2>3, <2>4
<1>2. PICK e \in Choices, f \in Choices, g \in Choices, h \in Choices, i \in Choices :
        /\ e[k] = s /\ f[k] = s /\ g[k] = s /\ h[k] = s /\ i[k] = s
        /\ e \notin {f, g, h, i} /\ f \notin {g, h, i} /\ g \notin {h, i} /\ h # i
  BY <1>1
<1>3. \A choice \in {e, f, g, h, i} : Value(u, x, y, row, choice) = 0
  BY <1>2
<1> QED
  BY <1>2, <1>3, FiveEdges

\* No edge is outside of a row that is negative at none.
LEMMA InsideOfEdges ==
  ASSUME NEW u \in Nat, NEW x \in Nat, NEW y \in Nat, NEW row,
         \A e \in Choices : Value(u, x, y, row, e) >= 0
  PROVE  Inside(u, x, y, row)
BY EdgesOfSole DEF Inside, Value

\* What the rows make of an edge, as a product of what may vanish.
LEMMA TangentialSlack ==
  ASSUME NEW u \in Nat, NEW x \in Nat, NEW y \in Nat, NEW e \in Choices
  PROVE  /\ Value(u, x, y, 0, e) = u * One * (1 + e[1])
         /\ Value(u, x, y, 1, e) = u * One * (1 - e[1])
         /\ Value(u, x, y, 2, e) = u * One * (1 + e[2])
         /\ Value(u, x, y, 3, e) = u * One * (1 - e[2])
<1> DEFINE a == e[1]  b == e[2]  c == e[3]  d == e[4]
<1>1. Edge(u, x, y, e)
        = <<a * u, b * u, One, d * y * One, -(c * x * One), c * x * (b * u) - d * y * (a * u)>>
  BY DEF Edge
<1>2. a \in Int /\ b \in Int /\ c \in Int /\ d \in Int /\ One \in Int
  BY OneAssumption, ChoiceOfSigns
<1> HIDE DEF a, b, c, d
<1>3. /\ ConeRow(u, x, y, 0) = <<One, 0, u, 0, 0, 0>>
      /\ ConeRow(u, x, y, 1) = <<-One, 0, u, 0, 0, 0>>
      /\ ConeRow(u, x, y, 2) = <<0, One, u, 0, 0, 0>>
      /\ ConeRow(u, x, y, 3) = <<0, -One, u, 0, 0, 0>>
  BY DEF ConeRow, TangentialRow
<1>4. /\ One * (a * u) + u * One = u * One * (1 + a)
      /\ (-One) * (a * u) + u * One = u * One * (1 - a)
      /\ One * (b * u) + u * One = u * One * (1 + b)
      /\ (-One) * (b * u) + u * One = u * One * (1 - b)
  BY <1>2
<1>5. /\ Value(u, x, y, 0, e) = u * One * (1 + a)
      /\ Value(u, x, y, 1, e) = u * One * (1 - a)
      /\ Value(u, x, y, 2, e) = u * One * (1 + b)
      /\ Value(u, x, y, 3, e) = u * One * (1 - b)
  BY <1>1, <1>2, <1>3, <1>4 DEF Value, Slack
<1> QED
  BY <1>5 DEF a, b

LEMMA TorqueSlack ==
  ASSUME NEW u \in Nat, NEW x \in Nat, NEW y \in Nat, NEW e \in Choices
  PROVE  /\ Value(u, x, y, 4, e) = y * One * (One + e[4] * u)
         /\ Value(u, x, y, 5, e) = y * One * (One - e[4] * u)
         /\ Value(u, x, y, 6, e) = x * One * One
         /\ Value(u, x, y, 7, e) = x * One * (One + e[3] * u)
<1> DEFINE a == e[1]  b == e[2]  c == e[3]  d == e[4]
<1>1. Edge(u, x, y, e)
        = <<a * u, b * u, One, d * y * One, -(c * x * One), c * x * (b * u) - d * y * (a * u)>>
  BY DEF Edge
<1>2. a \in Int /\ b \in Int /\ c \in Int /\ d \in Int /\ One \in Int
  BY OneAssumption, ChoiceOfSigns
<1> HIDE DEF a, b, c, d
<1>3. /\ ConeRow(u, x, y, 4) = <<0, 0, y * One, u, 0, 0>>
      /\ ConeRow(u, x, y, 5) = <<0, 0, y * One, -u, 0, 0>>
      /\ ConeRow(u, x, y, 6) = <<0, 0, x * One, 0, 0, 0>>
      /\ ConeRow(u, x, y, 7) = <<0, 0, x * One, 0, -u, 0>>
  BY DEF ConeRow, TorqueRow
<1>4. /\ y * One * One + u * (d * y * One) = y * One * (One + d * u)
      /\ y * One * One + (-u) * (d * y * One) = y * One * (One - d * u)
      /\ x * One * One + (-u) * (-(c * x * One)) = x * One * (One + c * u)
  BY <1>2
<1>5. /\ Value(u, x, y, 4, e) = y * One * (One + d * u)
      /\ Value(u, x, y, 5, e) = y * One * (One - d * u)
      /\ Value(u, x, y, 6, e) = x * One * One
      /\ Value(u, x, y, 7, e) = x * One * (One + c * u)
  BY <1>1, <1>2, <1>3, <1>4 DEF Value, Slack
<1> QED
  BY <1>5 DEF c, d

\* What the torque about the normal leaves to an edge, for the lengths in y and in x.
Turn(row, e) ==
  LET signs == YawSigns[row - 7]
  IN  (1 + signs[1] * e[1]) * (1 - signs[3] * signs[1] * e[4])
Tilt(row, e) ==
  LET signs == YawSigns[row - 7]
  IN  (1 + signs[2] * e[2]) * (1 + signs[3] * signs[2] * e[3])
YawValue(u, x, y, row, e) == u * One * (y * Turn(row, e) + x * Tilt(row, e))

LEMMA YawSlack ==
  ASSUME NEW u \in Nat, NEW x \in Nat, NEW y \in Nat, NEW e \in Choices, NEW row \in 8 .. 15
  PROVE  Value(u, x, y, row, e) = YawValue(u, x, y, row, e)
<1> DEFINE a == e[1]  b == e[2]  c == e[3]  d == e[4]
           p == YawSigns[row - 7][1]  q == YawSigns[row - 7][2]  r == YawSigns[row - 7][3]
<1>1. /\ a \in Signs /\ b \in Signs /\ c \in Signs /\ d \in Signs
      /\ p \in Signs /\ q \in Signs /\ r \in Signs
  BY ChoiceOfSigns DEF YawSigns, Signs
<1>2. ConeRow(u, x, y, row)
        = <<p * y * One, q * x * One, (x + y) * u, -r * p * u, -r * q * u, r * One>>
  BY DEF ConeRow, YawRow
<1>3. Edge(u, x, y, e)
        = <<a * u, b * u, One, d * y * One, -(c * x * One), c * x * (b * u) - d * y * (a * u)>>
  BY DEF Edge
<1>4. /\ Turn(row, e) = (1 + p * a) * (1 - r * p * d)
      /\ Tilt(row, e) = (1 + q * b) * (1 + r * q * c)
  BY DEF Turn, Tilt
<1> HIDE DEF a, b, c, d, p, q, r
<1>5. /\ a \in Int /\ b \in Int /\ c \in Int /\ d \in Int /\ One \in Int
      /\ p \in Int /\ q \in Int /\ r \in Int
  BY <1>1, OneAssumption DEF Signs
<1>6. Value(u, x, y, row, e)
        = p * y * One * (a * u) + q * x * One * (b * u) + (x + y) * u * One
            + (-r * p * u) * (d * y * One) + (-r * q * u) * (-(c * x * One))
            + r * One * (c * x * (b * u) - d * y * (a * u))
  BY <1>2, <1>3 DEF Value, Slack
<1>7. /\ p * y * One * (a * u) = u * One * y * (p * a)
      /\ q * x * One * (b * u) = u * One * x * (q * b)
      /\ (-r * p * u) * (d * y * One) = -(u * One * y * (r * p * d))
      /\ (-r * q * u) * (-(c * x * One)) = u * One * x * (r * q * c)
      /\ r * One * (c * x * (b * u) - d * y * (a * u))
           = u * One * x * (r * b * c) - u * One * y * (r * a * d)
      /\ (x + y) * u * One = u * One * x + u * One * y
  BY <1>5
<1>8. /\ (1 + p * a) * (1 - r * p * d) = 1 + p * a - r * p * d - r * a * d
      /\ (1 + q * b) * (1 + r * q * c) = 1 + q * b + r * q * c + r * b * c
  BY <1>1 DEF Signs
<1> QED
  BY <1>4, <1>5, <1>6, <1>7, <1>8 DEF YawValue
\* Rows 0 to 3: the edges with one tangential force at its bound.
LEMMA TangentialRows ==
  ASSUME NEW u \in 1 .. One, NEW x \in Nat \ {0}, NEW y \in Nat \ {0}, NEW row \in 0 .. 3
  PROVE  Inside(u, x, y, row) /\ Facet(u, x, y, row)
<1>1. One \in Nat /\ u \in Nat \ {0}
  BY OneAssumption
<1>2. \A s \in Signs : u * One * (1 + s) >= 0 /\ u * One * (1 - s) >= 0
  BY <1>1 DEF Signs
<1>3. u * One * (1 + (-1)) = 0 /\ u * One * (1 - 1) = 0
  BY <1>1
<1>4. CASE row = 0
  <2>1. \A e \in Choices : Value(u, x, y, row, e) = u * One * (1 + e[1])
    BY <1>1, <1>4, TangentialSlack
  <2>2. \A e \in Choices : Value(u, x, y, row, e) >= 0
    BY <1>2, <2>1, ChoiceOfSigns
  <2>3. \A e \in Choices : e[1] = -1 => Value(u, x, y, row, e) = 0
    BY <1>3, <2>1
  <2> QED
    BY <1>1, <2>2, <2>3, InsideOfEdges, OneSignFixed, ChoiceOfSigns
<1>5. CASE row = 1
  <2>1. \A e \in Choices : Value(u, x, y, row, e) = u * One * (1 - e[1])
    BY <1>1, <1>5, TangentialSlack
  <2>2. \A e \in Choices : Value(u, x, y, row, e) >= 0
    BY <1>2, <2>1, ChoiceOfSigns
  <2>3. \A e \in Choices : e[1] = 1 => Value(u, x, y, row, e) = 0
    BY <1>3, <2>1
  <2> QED
    BY <1>1, <2>2, <2>3, InsideOfEdges, OneSignFixed, ChoiceOfSigns
<1>6. CASE row = 2
  <2>1. \A e \in Choices : Value(u, x, y, row, e) = u * One * (1 + e[2])
    BY <1>1, <1>6, TangentialSlack
  <2>2. \A e \in Choices : Value(u, x, y, row, e) >= 0
    BY <1>2, <2>1, ChoiceOfSigns
  <2>3. \A e \in Choices : e[2] = -1 => Value(u, x, y, row, e) = 0
    BY <1>3, <2>1
  <2> QED
    BY <1>1, <2>2, <2>3, InsideOfEdges, OneSignFixed, ChoiceOfSigns
<1>7. CASE row = 3
  <2>1. \A e \in Choices : Value(u, x, y, row, e) = u * One * (1 - e[2])
    BY <1>1, <1>7, TangentialSlack
  <2>2. \A e \in Choices : Value(u, x, y, row, e) >= 0
    BY <1>2, <2>1, ChoiceOfSigns
  <2>3. \A e \in Choices : e[2] = 1 => Value(u, x, y, row, e) = 0
    BY <1>3, <2>1
  <2> QED
    BY <1>1, <2>2, <2>3, InsideOfEdges, OneSignFixed, ChoiceOfSigns
<1> QED
  BY <1>4, <1>5, <1>6, <1>7

\* Rows 4 to 7: the edges on one side of the sole, when the friction is one.
LEMMA RowsOfTorques ==
  ASSUME NEW u \in 1 .. One, NEW x \in Nat \ {0}, NEW y \in Nat \ {0}, NEW row \in 4 .. 7
  PROVE  Inside(u, x, y, row) /\ (~Loose(u, row) => Facet(u, x, y, row))
<1>1. One \in Nat /\ u \in Nat \ {0} /\ u <= One /\ (u < One \/ u = One)
  BY OneAssumption
<1>2. \A s \in Signs, n \in Nat : n * One * (One + s * u) >= 0 /\ n * One * (One - s * u) >= 0
  <2> SUFFICES ASSUME NEW s \in Signs, NEW n \in Nat
               PROVE  n * One * (One + s * u) >= 0 /\ n * One * (One - s * u) >= 0
    OBVIOUS
  <2>1. n * One \in Nat /\ One + s * u \in Nat /\ One - s * u \in Nat
    BY <1>1 DEF Signs
  <2>2. \A p, q \in Nat : p * q >= 0
    OBVIOUS
  <2> QED
    BY <2>1, <2>2
<1>3. u = One => \A n \in Nat : n * One * (One + (-1) * u) = 0 /\ n * One * (One - 1 * u) = 0
  BY <1>1
<1>4. CASE row = 4
  <2>1. \A e \in Choices : Value(u, x, y, row, e) = y * One * (One + e[4] * u)
    BY <1>1, <1>4, TorqueSlack
  <2>2. \A e \in Choices : Value(u, x, y, row, e) >= 0
    BY <1>2, <2>1, ChoiceOfSigns
  <2>3. Inside(u, x, y, row)
    BY <1>1, <2>2, InsideOfEdges
  <2>4. ASSUME u = One PROVE Facet(u, x, y, row)
    <3>1. \A e \in Choices : e[4] = -1 => Value(u, x, y, row, e) = 0
      BY <1>3, <2>1, <2>4
    <3> QED
      BY <1>1, <3>1, OneSignFixed, ChoiceOfSigns
  <2> QED
    BY <1>1, <1>4, <2>3, <2>4 DEF Loose
<1>5. CASE row = 5
  <2>1. \A e \in Choices : Value(u, x, y, row, e) = y * One * (One - e[4] * u)
    BY <1>1, <1>5, TorqueSlack
  <2>2. \A e \in Choices : Value(u, x, y, row, e) >= 0
    BY <1>2, <2>1, ChoiceOfSigns
  <2>3. Inside(u, x, y, row)
    BY <1>1, <2>2, InsideOfEdges
  <2>4. ASSUME u = One PROVE Facet(u, x, y, row)
    <3>1. \A e \in Choices : e[4] = 1 => Value(u, x, y, row, e) = 0
      BY <1>3, <2>1, <2>4
    <3> QED
      BY <1>1, <3>1, OneSignFixed, ChoiceOfSigns
  <2> QED
    BY <1>1, <1>5, <2>3, <2>4 DEF Loose
<1>6. CASE row = 6
  <2>1. \A e \in Choices : Value(u, x, y, row, e) = x * One * One
    BY <1>1, <1>6, TorqueSlack
  <2>2. x * One * One >= 0
    BY <1>1
  <2> QED
    BY <1>1, <1>6, <2>1, <2>2, InsideOfEdges DEF Loose
<1>7. CASE row = 7
  <2>1. \A e \in Choices : Value(u, x, y, row, e) = x * One * (One + e[3] * u)
    BY <1>1, <1>7, TorqueSlack
  <2>2. \A e \in Choices : Value(u, x, y, row, e) >= 0
    BY <1>2, <2>1, ChoiceOfSigns
  <2>3. Inside(u, x, y, row)
    BY <1>1, <2>2, InsideOfEdges
  <2>4. ASSUME u = One PROVE Facet(u, x, y, row)
    <3>1. \A e \in Choices : e[3] = -1 => Value(u, x, y, row, e) = 0
      BY <1>3, <2>1, <2>4
    <3> QED
      BY <1>1, <3>1, OneSignFixed, ChoiceOfSigns
  <2> QED
    BY <1>1, <1>7, <2>3, <2>4 DEF Loose
<1> QED
  BY <1>4, <1>5, <1>6, <1>7

\* Rows 8 to 15: the edges whose forces turn the sole one way.
LEMMA YawRows ==
  ASSUME NEW u \in 1 .. One, NEW x \in Nat \ {0}, NEW y \in Nat \ {0}, NEW row \in 8 .. 15
  PROVE  Inside(u, x, y, row) /\ Facet(u, x, y, row)
<1> DEFINE p == YawSigns[row - 7][1]  q == YawSigns[row - 7][2]  r == YawSigns[row - 7][3]
<1>1. One \in Nat /\ u \in Nat \ {0} /\ u \in Nat /\ x \in Nat /\ y \in Nat
  BY OneAssumption
<1>2. p \in Signs /\ q \in Signs /\ r \in Signs
  BY DEF YawSigns, Signs
<1>3. \A e \in Choices :
        Value(u, x, y, row, e) = u * One * (y * Turn(row, e) + x * Tilt(row, e))
  <2>1. \A e \in Choices : Value(u, x, y, row, e) = YawValue(u, x, y, row, e)
    BY <1>1, YawSlack
  <2> QED
    BY <2>1 DEF YawValue
<1>4. \A e \in Choices : /\ Turn(row, e) = (1 + p * e[1]) * (1 - r * p * e[4])
                         /\ Tilt(row, e) = (1 + q * e[2]) * (1 + r * q * e[3])
  BY DEF Turn, Tilt
<1> HIDE DEF p, q, r
<1>5. \A e \in Choices : Turn(row, e) \in Nat /\ Tilt(row, e) \in Nat
  <2> SUFFICES ASSUME NEW e \in Choices PROVE Turn(row, e) \in Nat /\ Tilt(row, e) \in Nat
    OBVIOUS
  <2>1. \A s, t, v, w \in Signs : (1 + s * t) * (1 - v * s * w) \in Nat /\ (1 + s * t) * (1 + v * s * w) \in Nat
    BY DEF Signs
  <2>2. e[1] \in Signs /\ e[2] \in Signs /\ e[3] \in Signs /\ e[4] \in Signs
    BY ChoiceOfSigns
  <2> QED
    BY <1>2, <1>4, <2>1, <2>2
<1>6. ASSUME NEW e \in Choices, e[2] = -q, e[1] = -p \/ (e[1] = p /\ e[4] = r * p)
      PROVE  Turn(row, e) = 0 /\ Tilt(row, e) = 0
  BY <1>2, <1>4, <1>6, ChoiceOfSigns DEF Signs
<1>7. ASSUME NEW e \in Choices PROVE Value(u, x, y, row, e) >= 0
  <2>1. \A m, n \in Nat : u * One * (y * m + x * n) >= 0
    <3>1. \A m, n \in Nat : y * m + x * n \in Nat
      BY <1>1
    <3>2. u * One \in Nat /\ \A k, l \in Nat : k * l >= 0
      BY <1>1
    <3> QED
      BY <3>1, <3>2
  <2> QED
    BY <1>3, <1>5, <2>1
<1>8. Inside(u, x, y, row)
  BY <1>1, <1>7, InsideOfEdges
<1>9. u * One * (y * 0 + x * 0) = 0
  BY <1>1
<1> DEFINE e == <<-p, -q, 1, 1>>  f == <<-p, -q, 1, -1>>  g == <<-p, -q, -1, 1>>
           h == <<-p, -q, -1, -1>>  i == <<p, -q, 1, r * p>>
<1>10. -p \in Signs /\ -q \in Signs /\ r * p \in Signs /\ p # -p
  BY <1>2 DEF Signs
<1>11. e \in Choices /\ f \in Choices /\ g \in Choices /\ h \in Choices /\ i \in Choices
  BY <1>2, <1>10, ChoiceOfSigns
<1>12. e \notin {f, g, h, i} /\ f \notin {g, h, i} /\ g \notin {h, i} /\ h # i
  BY <1>10
<1>13. \A choice \in {e, f, g, h, i} :
         choice[2] = -q /\ (choice[1] = -p \/ (choice[1] = p /\ choice[4] = r * p))
  OBVIOUS
<1> HIDE DEF e, f, g, h, i
<1>14. \A choice \in {e, f, g, h, i} : Value(u, x, y, row, choice) = 0
  <2> SUFFICES ASSUME NEW choice \in {e, f, g, h, i} PROVE Value(u, x, y, row, choice) = 0
    OBVIOUS
  <2>1. choice \in Choices
    BY <1>11
  <2>2. Turn(row, choice) = 0 /\ Tilt(row, choice) = 0
    BY <1>6, <1>13, <2>1
  <2> QED
    BY <1>3, <1>9, <2>1, <2>2
<1>15. Facet(u, x, y, row)
  BY <1>1, <1>11, <1>12, <1>14, FiveEdges
<1> QED
  BY <1>8, <1>15

\* No row refuses what the corners of the sole can give, and none but the loose ones lets
\* more through than it has to.
LEMMA ConeOfSole ==
  ASSUME NEW u \in 1 .. One, NEW x \in SoleLengths \ {0}, NEW y \in SoleLengths \ {0},
         NEW row \in Rows
  PROVE  Inside(u, x, y, row) /\ (~Loose(u, row) => Facet(u, x, y, row))
<1>1. x \in Nat \ {0} /\ y \in Nat \ {0}
  BY SoleAssumption
<1>2. row \in 0 .. 3 \/ row \in 4 .. 7 \/ row \in 8 .. 15
  BY DEF Rows
<1> QED
  BY <1>1, <1>2, TangentialRows, RowsOfTorques, YawRows

-----------------------------------------------------------------------------
\* The variables have their types.
THEOREM TypeCorrect == Spec => []TypeOK
<1>1. IInv => TypeOK  BY DEF IInv
<1> QED BY <1>1, Invariance, PTL

\* Every evaluation reads what its own request computed, for any number of threads.
THEOREM NothingStaleRead == Spec => []FreshReads
<1>1. IInv => FreshReads
  <2> SUFFICES ASSUME IInv, NEW w \in Workers, request[w] # NoRequest, NEW term \in Due(w),
                      NEW read \in ReadBy(w, term)
               PROVE  cache[OwnCache(w)][read[1]] = request[w].node
    BY DEF FreshReads
  <2>1. /\ request[w] \in [node : Nodes, flags : Requests]
        /\ stage \in Running
        /\ settings \in SettingsSets
    BY DEF IInv, TypeOK, Running
  <2>2. request[w].flags \in SUBSET Flags /\ settings \in SUBSET EveryTerm
    BY <2>1, ProblemAssumption
  <2>3. PICK category \in request[w].flags \cap Categories : term \in TermsOf(category, settings)
    BY DEF Due
  <2>4. read[1] \in Computed(request[w].flags)
    BY <2>2, <2>3, ReadsComputed DEF ReadBy
  <2> QED BY <2>4 DEF IInv, CacheFilled, OwnCache
<1> QED BY <1>1, Invariance, PTL

\* Every getter is called with an index it holds, whatever the settings file; of the
\* misaddressed reads nothing is said.
THEOREM ReadsWithinBounds == Spec => []ReadsInRange
<1>1. IInv => ReadsInRange
  <2> SUFFICES ASSUME IInv, NEW w \in Workers, request[w] # NoRequest, NEW term \in Due(w),
                      NEW read \in ReadBy(w, term) \ Misplaced(term, file, "Approximation" \in request[w].flags)
               PROVE  read[2] \in Held(read[1], LinkNumber(file)) /\ SameBody(read[1], read[2])
    BY DEF ReadsInRange
  <2>1. /\ request[w] \in [node : Nodes, flags : Requests]
        /\ stage \in Running
        /\ file \in Files /\ Accepted(file) /\ horizon \in Horizons
    BY DEF IInv, TypeOK, Running
  <2>2. horizon[request[w].node].stance \subseteq Legs
    BY <2>1, ProblemAssumption
  <2>3. PICK category \in request[w].flags \cap Categories : term \in TermsOf(category, settings)
    BY DEF Due
  <2>4. category \in Categories /\ ("Approximation" \in request[w].flags) \in BOOLEAN  BY <2>3
  <2>5. read \in Reads(term, file, horizon[request[w].node], "Approximation" \in request[w].flags)
                 \ Misplaced(term, file, "Approximation" \in request[w].flags)
    BY DEF ReadBy
  <2>6. read[2] \in Held(read[1], LinkNumber(file))
    BY <2>1, <2>2, <2>3, <2>4, <2>5, ReadsHeld
  <2>7. SameBody(read[1], read[2])  BY <2>6, BodiesMatch
  <2> QED BY <2>6, <2>7
<1> QED BY <1>1, Invariance, PTL

\* Every derivative by the input is in the rows its value reads, for any number of legs.
THEOREM DerivativesAligned == Spec => []DerivativesInPlace
<1>1. DerivativesInPlace  BY InPlace, StateInPlace DEF DerivativesInPlace, Due
<1> QED BY <1>1, PTL

\* The constraints fix the forces of the swinging legs and no others.
THEOREM OnlySwingForcesVanish == Spec => []SwingForcesVanish
<1>1. SwingForcesVanish  BY ConstraintRows DEF SwingForcesVanish
<1> QED BY <1>1, PTL

\* The search over the spheres never goes away from the terrain.
THEOREM SearchNeverRecedes == Spec => []NeverRecedes
<1>1. IInv => NeverRecedes  BY DEF IInv
<1> QED BY <1>1, Invariance, PTL

\* Whatever numbers a settings file has and whatever feet the robot has, the loaders let
\* through exactly what is named.
THEOREM LoadersLetThrough == Spec => []AcceptedSettingsServe
<1>1. AcceptedSettingsServe
  BY ProblemAssumption, AcceptedServeUnlessNamed DEF AcceptedSettingsServe
<1> QED BY <1>1, PTL

\* The rows of the friction cone are the cone of the sole, for every unit, friction up to
\* one and length of the foot: each is a facet of the wrenches that the four corners can
\* give, but for the loose rows, which contain them all the same.
THEOREM ConeIsOfSole == Spec => []ConeFitsSole
<1>1. ConeFitsSole  BY ConeOfSole DEF ConeFitsSole
<1> QED BY <1>1, PTL
=============================================================================
