---------------------------- MODULE SettingsFile ----------------------------
(***************************************************************************)
(* The numbers of a model settings file: what each loader refuses, and     *)
(* what the planners, costs and soft constraints that work with a number   *)
(* need of it. A file gives every key a sequence of numbers, of length one *)
(* where there is one; a key that is missing counts with the number that   *)
(* the struct of the loader had. One is the number one in the unit of the  *)
(* numbers, and two numbers that almost_eq takes for equal are equal.      *)
(*                                                                         *)
(* Definitions named Faulty... are what the definition that follows them   *)
(* would be with a plausible mistake; they are not part of the model.      *)
(***************************************************************************)
EXTENDS InputLayout, WrenchCone, Sequences

CONSTANT ShortestMode  \* MIN_TIME_BETWEEN_CHANGES

ASSUME ShortestAssumption == ShortestMode \in Nat \ {0}

\* The keys of the penalties: a weight and a width of the relaxation each.
Weights == {"forceConeMu", "wrenchConeMu", "placementMu", "jointMu", "torqueMu", "terrainMu",
            "pairMu", "orientationMu"}
Widths == {"forceConeDelta", "wrenchConeDelta", "placementDelta", "jointDelta", "torqueDelta",
           "terrainDelta", "pairDelta"}

Keys ==
  UNION {
    {"liftOffVelocity", "touchDownVelocity", "errorGain", "swingTimeScale",
     "previousFootholdFactor", "previousFootholdDeadzone", "previousFootholdTimeDeadzone",
     "referenceExtensionAfterHorizon", "maxSwingHeightAdaptation"},
    {"swingHeights", "phases", "tangentialProgresses", "tangentialVelocityFactors"},
    {"initPhase", "maximumSteppingFrequency", "minimumSteppingFrequency", "touchdownWindow"},
    {"steppingFrequency", "swingRatio", "phaseOffsets"},
    {"deltaTime", "minimumBaseHeight", "maximumBaseHeight", "maximumVelocities",
     "nominalBaseWidths"},
    {"nominalLegExtension", "legOverExtensionWeight", "inverseSolver"},
    {"maximumReferenceSampleInterval", "gaitUpdateOffset"},
    {"baseWeights", "jointWeights", "endEffectorWeights", "contactTorqueWeights",
     "jointTorqueWeights", "safetyRadiuses"},
    {"frictionCoefficients", "regularization", "hessianDiagonalShift", "footLengths"},
    Weights, Widths}

\* The keys with exactly one number.
Single ==
  {"touchDownVelocity", "minimumSteppingFrequency", "maximumSteppingFrequency",
   "steppingFrequency", "swingRatio", "deltaTime", "minimumBaseHeight", "maximumBaseHeight",
   "maximumReferenceSampleInterval"}

Settings == {s \in [Keys -> Seq(Int)] : \A key \in Single : Len(s[key]) = 1}

The(s, key) == s[key][1]

NonNegative(s, keys) == \A key \in keys : \A i \in DOMAIN s[key] : s[key][i] >= 0
Positive(s, keys) == \A key \in keys : \A i \in DOMAIN s[key] : s[key][i] > 0
AtMostOne(s, keys) == \A key \in keys : \A i \in DOMAIN s[key] : s[key][i] <= One
BelowOne(s, keys) == \A key \in keys : \A i \in DOMAIN s[key] : s[key][i] < One
OnePerLeg(s, keys) == \A key \in keys : Len(s[key]) = ThreeDof + SixDof

-----------------------------------------------------------------------------
(* The planners: createReferenceManager loads all of these.                *)

SwingStaticAccepted(s) ==
  /\ NonNegative(s, {"liftOffVelocity", "errorGain", "swingTimeScale", "previousFootholdFactor",
                     "previousFootholdDeadzone", "previousFootholdTimeDeadzone",
                     "referenceExtensionAfterHorizon", "maxSwingHeightAdaptation"})
  /\ The(s, "touchDownVelocity") <= 0
  /\ AtMostOne(s, {"previousFootholdFactor"})

\* A phase may be one, although the message of the loader leaves it out.
SwingDynamicAccepted(s) ==
  /\ OnePerLeg(s, {"swingHeights", "phases", "tangentialProgresses", "tangentialVelocityFactors"})
  /\ NonNegative(s, {"swingHeights", "phases", "tangentialProgresses",
                     "tangentialVelocityFactors"})
  /\ AtMostOne(s, {"phases", "tangentialProgresses"})

GaitStaticAccepted(s) ==
  /\ NonNegative(s, {"initPhase", "minimumSteppingFrequency"})
  /\ BelowOne(s, {"initPhase"})
  /\ Positive(s, {"maximumSteppingFrequency", "touchdownWindow"})
  /\ The(s, "minimumSteppingFrequency") < The(s, "maximumSteppingFrequency")

\* The ratio and the offsets may be one, although the messages leave it out.
GaitDynamicAccepted(s) ==
  /\ The(s, "minimumSteppingFrequency") <= The(s, "steppingFrequency")
  /\ The(s, "steppingFrequency") <= The(s, "maximumSteppingFrequency")
  /\ NonNegative(s, {"steppingFrequency", "swingRatio", "phaseOffsets"})
  /\ AtMostOne(s, {"swingRatio", "phaseOffsets"})
  /\ Len(s["phaseOffsets"]) = ThreeDof + SixDof - 1

BaseStaticAccepted(s) ==
  /\ NonNegative(s, {"deltaTime", "minimumBaseHeight", "maximumBaseHeight", "maximumVelocities",
                     "nominalBaseWidths"})
  /\ The(s, "minimumBaseHeight") <= The(s, "maximumBaseHeight")

OverExtensionAccepted(s) == NonNegative(s, {"nominalLegExtension", "legOverExtensionWeight"})
InverseSolverAccepted(s) == NonNegative(s, {"inverseSolver"})
ReferenceManagerAccepted(s) ==
  NonNegative(s, {"maximumReferenceSampleInterval", "gaitUpdateOffset"})

PlannersAccepted(s) ==
  /\ GaitStaticAccepted(s) /\ GaitDynamicAccepted(s)
  /\ BaseStaticAccepted(s) /\ InverseSolverAccepted(s)
  /\ SwingStaticAccepted(s) /\ SwingDynamicAccepted(s) /\ OverExtensionAccepted(s)
  /\ ReferenceManagerAccepted(s)

-----------------------------------------------------------------------------
(* The costs and soft constraints: createOptimalProblem loads the settings *)
(* of the friction cones always, the others for the terms it adds.         *)

BaseWeightsAccepted(s) == NonNegative(s, {"baseWeights"})
JointWeightsAccepted(s) == NonNegative(s, {"jointWeights"})

FaultyEndEffectorWeightsAccepted(s) == TRUE

\* Where the weights of the contact torques are read, those of the forces are looked at
\* once more.
EndEffectorWeightsAccepted(s) == NonNegative(s, {"endEffectorWeights"})

TrackingAccepted(s) ==
  BaseWeightsAccepted(s) /\ JointWeightsAccepted(s) /\ EndEffectorWeightsAccepted(s)

JointTorqueAccepted(s) == NonNegative(s, {"jointTorqueWeights"})

ForceConeAccepted(s) ==
  NonNegative(s, {"frictionCoefficients", "regularization", "hessianDiagonalShift",
                  "forceConeMu", "forceConeDelta"})
WrenchConeAccepted(s) ==
  NonNegative(s, {"frictionCoefficients", "footLengths", "wrenchConeMu", "wrenchConeDelta"})

PlacementAccepted(s) == NonNegative(s, {"safetyRadiuses", "placementMu", "placementDelta"})
JointLimitsAccepted(s) == NonNegative(s, {"jointMu", "jointDelta"})
TorqueLimitsAccepted(s) == NonNegative(s, {"torqueMu", "torqueDelta"})
TerrainAvoidanceAccepted(s) == NonNegative(s, {"terrainMu", "terrainDelta"})
SelfCollisionAccepted(s) == NonNegative(s, {"pairMu", "pairDelta"})
NormalOrientationAccepted(s) == NonNegative(s, {"orientationMu"})

TermsAccepted(s, names) ==
  /\ "TrajectoryTracking" \in names => TrackingAccepted(s)
  /\ "JointTorqueCost" \in names => JointTorqueAccepted(s)
  /\ ForceConeAccepted(s)
  /\ WrenchConeAccepted(s)
  /\ "EndEffectorPlacement" \in names => PlacementAccepted(s)
  /\ "JointLimits" \in names => JointLimitsAccepted(s)
  /\ "JointTorqueLimits" \in names => TorqueLimitsAccepted(s)
  /\ "TerrainAvoidance" \in names => TerrainAvoidanceAccepted(s)
  /\ "SelfCollisionAvoidance" \in names => SelfCollisionAccepted(s)
  /\ "NormalOrientation" \in names /\ SixDof > 0 => NormalOrientationAccepted(s)

SettingsAccepted(s, names) == PlannersAccepted(s) /\ TermsAccepted(s, names)

-----------------------------------------------------------------------------
(* What the code that works with the numbers needs.                        *)

\* The base planner divides by the time step, and clamps between two limits.
BaseServed(s) ==
  /\ The(s, "deltaTime") > 0
  /\ The(s, "minimumBaseHeight") <= The(s, "maximumBaseHeight")
  /\ \A i \in DOMAIN s["maximumVelocities"] :
       -s["maximumVelocities"][i] <= s["maximumVelocities"][i]

\* updateSwingMotions throws when the height of the base is not positive.
PendulumServed(s) == The(s, "minimumBaseHeight") > 0

\* subsampleReferenceTrajectory, where it is called, steps by the interval.
SubsamplingServed(s) ==
  The(s, "maximumReferenceSampleInterval") < The(s, "deltaTime") =>
    The(s, "maximumReferenceSampleInterval") > 0

\* QuinticSwing asserts that the times of its nodes increase: the midpoint of a swing is
\* neither its start nor its end.
SwingServed(s) == \A leg \in Legs : 0 < s["phases"][leg + 1] /\ s["phases"][leg + 1] < One

\* A gait that moves divides by its frequency. A foot that changes has its next change a
\* swing or a stance later, and changes again at once when that is too soon: when both are,
\* the loop does not end.
Moves(s) == The(s, "minimumSteppingFrequency") < The(s, "steppingFrequency")
LastsLongEnough(s, share) == share * One >= ShortestMode * The(s, "steppingFrequency")
GaitServed(s) ==
  Moves(s) =>
    /\ The(s, "steppingFrequency") > 0
    /\ \E share \in {The(s, "swingRatio"), One - The(s, "swingRatio")} : LastsLongEnough(s, share)

\* A cost is convex.
Convex(s, keys) == NonNegative(s, keys)
CostsServed(s, names) ==
  /\ "TrajectoryTracking" \in names =>
       Convex(s, {"baseWeights", "jointWeights", "endEffectorWeights", "contactTorqueWeights"})
  /\ "JointTorqueCost" \in names => Convex(s, {"jointTorqueWeights"})

\* The relaxation of a penalty divides by its width, the cone by its regularization.
PenaltiesServed(s, names) ==
  /\ "ForceFrictionCone" \in names /\ ThreeDof > 0 =>
       Convex(s, {"forceConeMu"}) /\ Positive(s, {"forceConeDelta", "regularization"})
  /\ "WrenchFrictionCone" \in names /\ SixDof > 0 =>
       Convex(s, {"wrenchConeMu"}) /\ Positive(s, {"wrenchConeDelta"})
  /\ "EndEffectorPlacement" \in names =>
       Convex(s, {"placementMu"}) /\ Positive(s, {"placementDelta"})
  /\ "JointLimits" \in names => Convex(s, {"jointMu"}) /\ Positive(s, {"jointDelta"})
  /\ "JointTorqueLimits" \in names => Convex(s, {"torqueMu"}) /\ Positive(s, {"torqueDelta"})
  /\ "TerrainAvoidance" \in names => Convex(s, {"terrainMu"}) /\ Positive(s, {"terrainDelta"})
  /\ "SelfCollisionAvoidance" \in names => Convex(s, {"pairMu"}) /\ Positive(s, {"pairDelta"})
  /\ "NormalOrientation" \in names /\ SixDof > 0 => Convex(s, {"orientationMu"})

\* Where there is a foot with 6 degrees of freedom, the loader writes the weights of the
\* contact torques of every foot to the vector with those of these feet.
TorqueWeightIndices == IF SixDof > 0 THEN {leg - ThreeDof : leg \in Legs} ELSE {}
WeightsHeld(names) == "TrajectoryTracking" \in names => TorqueWeightIndices \subseteq 0 .. SixDof - 1

-----------------------------------------------------------------------------
(* What no loader refuses and no user can work with.                       *)

UsedWidths(names) ==
  UNION {
    IF "ForceFrictionCone" \in names /\ ThreeDof > 0
      THEN {"forceConeDelta", "regularization"} ELSE {},
    IF "WrenchFrictionCone" \in names /\ SixDof > 0 THEN {"wrenchConeDelta"} ELSE {},
    IF "EndEffectorPlacement" \in names THEN {"placementDelta"} ELSE {},
    IF "JointLimits" \in names THEN {"jointDelta"} ELSE {},
    IF "JointTorqueLimits" \in names THEN {"torqueDelta"} ELSE {},
    IF "TerrainAvoidance" \in names THEN {"terrainDelta"} ELSE {},
    IF "SelfCollisionAvoidance" \in names THEN {"pairDelta"} ELSE {}}

HasAny(s, key, numbers) == \E i \in DOMAIN s[key] : s[key][i] \in numbers

ZeroSlipsThrough(s, names) ==
  \E key \in {"deltaTime", "minimumBaseHeight", "maximumReferenceSampleInterval"}
                 \cup UsedWidths(names) : HasAny(s, key, {0})

BoundarySlipsThrough(s) == HasAny(s, "phases", {0, One})

FastSlipsThrough(s) ==
  /\ Moves(s)
  /\ ~LastsLongEnough(s, The(s, "swingRatio"))
  /\ ~LastsLongEnough(s, One - The(s, "swingRatio"))

SignSlipsThrough(s, names) ==
  "TrajectoryTracking" \in names /\ ~NonNegative(s, {"contactTorqueWeights"})

MixedFeetSlipThrough(names) == "TrajectoryTracking" \in names /\ ThreeDof > 0 /\ SixDof > 0

ServesUnlessNamed(s, names) ==
  /\ BaseServed(s) /\ PendulumServed(s) /\ SubsamplingServed(s) /\ PenaltiesServed(s, names)
       <=> ~ZeroSlipsThrough(s, names)
  /\ SwingServed(s) <=> ~BoundarySlipsThrough(s)
  /\ GaitServed(s) <=> ~FastSlipsThrough(s)
  /\ CostsServed(s, names) <=> ~SignSlipsThrough(s, names)
  /\ WeightsHeld(names) <=> ~MixedFeetSlipThrough(names)
=============================================================================
