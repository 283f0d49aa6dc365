----------------------- MODULE ReferenceTrajectories -----------------------
(***************************************************************************)
(* The rest of a generation: the base planner lays the samples of the      *)
(* reference in time, the joint planner follows the feet of the swing      *)
(* planner sample by sample, the reference is subsampled, and the force    *)
(* planner gives each sample the forces of its mode. The solver then reads *)
(* what the reference manager published, at times of its own. Of a sample  *)
(* the model keeps its time, the legs whose reference foot stands on the   *)
(* ground and the legs whose reference force carries the robot.            *)
(*                                                                         *)
(* Definitions named Faulty... are what the definition that follows them   *)
(* would be with a plausible mistake; they are not part of the model.      *)
(***************************************************************************)
EXTENDS SwingTrajectoryPlanner

CONSTANTS
  DeltaTime,          \* BaseTrajectoryPlanner::StaticSettings::deltaTime
  SampleInterval,     \* Settings::maximumReferenceSampleInterval
  SixDofContacts      \* modelInfo_.numSixDofContacts

ASSUME SamplingAssumption ==
  /\ {DeltaTime, SampleInterval} \subseteq Nat \ {0}
  /\ SixDofContacts \in 0 .. EndEffectors
  /\ DeltaTime <= Horizon

VARIABLE reference    \* the target trajectories and the end effector trajectories

-----------------------------------------------------------------------------
(* The samples.                                                            *)

\* BaseTrajectoryPlanner::updateTargetTrajectory: one every deltaTime, as many
\* as fit into the horizon.
BaseTimes(start, final) ==
  [i \in 1 .. ((final - start) \div DeltaTime) + 1 |-> start + (i - 1) * DeltaTime]

\* subsampleReferenceTrajectory: before each sample after the start come the
\* final time, if it is the first one behind it, and as many as the interval asks.
AddSample(times, time, final) ==
  LET base == IF Last(times) <= final /\ time > final THEN Append(times, final) ELSE times
      missing == (time - Last(base) - 1) \div SampleInterval
  IN  base \o [k \in 1 .. missing |-> Last(base) + k * SampleInterval] \o <<time>>

\* The samples after the first n of the reference.
Subsampled(times, start, final) ==
  LET after[n \in 0 .. Len(times)] ==
        IF n = 0 THEN <<start>>
        ELSE IF times[n] <= start THEN after[n - 1] ELSE AddSample(after[n - 1], times[n], final)
  IN  after

-----------------------------------------------------------------------------
(* Feet and forces, sample by sample.                                      *)

\* SwingTrajectoryPlanner::getEndEffectorTrajectories.
StandingFeet(times) ==
  [i \in DOMAIN times |-> {leg \in Legs : FootPhase(footPlans'[leg], times[i]).contact}]

\* PinocchioWeightCompensator::appendInput on an input without forces.
WeightCompensation(flags) == flags

\* ContactForceWrenchTrajectoryPlanner::updateTargetTrajectory: a sample in the
\* mode of the one before it takes its forces.
Forces(times) ==
  LET mode == [i \in DOMAIN times |-> IndexInTimes(events', times[i]) + 1]
      forces[i \in DOMAIN times] ==
        IF i > 1 /\ mode[i] = mode[i - 1] /\ SixDofContacts = 0 THEN forces[i - 1]
        ELSE WeightCompensation(modes'[mode[i]])
  IN  forces

\* JointTrajectoryPlanner::updateTrajectory: the inverse kinematics of a sample
\* start at the joints of the one before it and reach for the feet at its time;
\* the first sample is the measured state.
JointGoals(times, feet) == [i \in DOMAIN times |-> IF i = 1 THEN Legs ELSE feet[i]]

\* generateNewTargetTrajectories, from the schedule to the publication: the end
\* effectors are looked up again when the reference is subsampled.
FaultyPublished(times, start, final) ==
  LET feet == StandingFeet(times)
      sampled == IF SampleInterval < DeltaTime THEN Subsampled(times, start, final)[Len(times)] ELSE times
  IN  [times |-> sampled, feet |-> feet, forces |-> Forces(sampled),
       joints |-> JointGoals(times, feet)]
PublishedReference(times, start, final) ==
  LET feet == StandingFeet(times)
      sampled == IF SampleInterval < DeltaTime THEN Subsampled(times, start, final)[Len(times)] ELSE times
  IN  [times |-> sampled, feet |-> StandingFeet(sampled), forces |-> Forces(sampled),
       joints |-> JointGoals(times, feet)]

PlanReference(start, final) ==
  reference' = PublishedReference(BaseTimes(start, final), start, final)

-----------------------------------------------------------------------------
ReferenceInit ==
  /\ SwingInit
  /\ reference = [times |-> <<>>, feet |-> <<>>, forces |-> <<>>, joints |-> <<>>]

Generate == ScheduleAndSwing /\ PlanReference(clock, clock + Horizon)

ReferenceNext ==
  \/ ChangeGait /\ UNCHANGED <<swingVars, reference>>
  \/ KeepGait /\ UNCHANGED <<swingVars, reference>>
  \/ Generate

ReferenceSpec == ReferenceInit /\ [][ReferenceNext]_<<vars, swingVars, reference>>
-----------------------------------------------------------------------------
(* What the solver reads.                                                  *)

\* LinearInterpolation::timeSegment: the sample a time is at or behind, never
\* the last one of several.
Segment(times, time) ==
  LET before == IndexInTimes(times, time)
  IN  IF before = 0 THEN 1 ELSE Min({before, Max({Len(times) - 1, 1})})

\* getEndEffectorTrajectoryPoint interpolates between two samples of the feet.
PointReads(time) ==
  LET index == Segment(reference.times, time)
      first == IF index > 1 /\ reference.times[index] > time THEN index - 1 ELSE index
  IN  {first, first + 1}

\* The planners of one generation tell the solver one story: the samples of the
\* reference increase from the initial time, at most SampleInterval or DeltaTime
\* apart and with less than one DeltaTime missing at the end; in each of them the
\* legs that carry the robot are those whose foot stands and those the mode of
\* that time has in contact, whichever planner computed it and from which list;
\* and the getters of the feet find two samples for every time of the horizon.
ReferencesAgree ==
  Published =>
    LET times == reference.times
    IN  /\ times[1] = startTime /\ Last(times) > FinalTime - DeltaTime
        /\ \A i \in 2 .. Len(times) :
             times[i] - times[i - 1] \in 1 .. Min({DeltaTime, SampleInterval})
        /\ DOMAIN reference.feet = DOMAIN times
        /\ \A i \in DOMAIN times :
             reference.feet[i] = ModeAt(times[i]) /\ reference.forces[i] = ModeAt(times[i])
        /\ \A i \in 2 .. Len(reference.joints) :
             reference.joints[i] = ModeAt(startTime + (i - 1) * DeltaTime)
        /\ \A time \in HorizonTimes : PointReads(time) \subseteq DOMAIN reference.feet
=============================================================================
