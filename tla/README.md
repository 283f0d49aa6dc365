# Verification of the legged locomotion controller

TLA+ models of the parts of this repository whose correctness is a matter of control and of
bookkeeping: threads, buffers, lifecycle transitions, plans that are cut and continued, indexes and
rows that many places compute by an arithmetic of their own, numbers that one place checks and
another divides by. TLC checks them on small instances, TLAPS proves the main results for every value
of the constants. Paths below are relative to `src/`.

## 1. The system

Two ROS 2 lifecycle nodes and the libraries below them.

    sensors, command, gait, swing, terrain, wrench             joint, IMU, contact
              |                                                        |
    LeggedLocomotionMpcControllerNode                      LeggedStateEstimatorNode
      |  executor thread   |  MPC thread                               |
      |  (callbacks)       |  advanceMpc -> preSolverRun         LeggedStateEstimator
      |                    v                                           |
      |             solver threads of ocs2: request, evaluate        InEKF
      v                    |         |
    LeggedReferenceManager |    costs, constraints --- LeggedPrecomputation
      |  std::async task   |
      v                    v
    Gait -> Swing -> Base -> Joint -> Force planners   LeggedInterface (settings, terms)

| Component | State | Operations | What makes it hard |
|---|---|---|---|
| `LeggedReferenceManager` | five buffered inputs, four buffered outputs, a copy of the terrain, a future | setters, `initialize`, `preSolverRun`, `generateNewTargetTrajectories`, destructor | three threads and no lock but those of single buffers; exceptions lost in the future |
| `GaitPlanner`, `GaitDynamicPhaseController`, mode template | mode schedule, list of gait changes with cached phases | change the gait, get the schedule of a horizon | a plan that is cut and continued at every generation; values exactly at a switch |
| `SwingTrajectoryPlanner`, `SingleLegLogic`, `FootPhase`, swing splines | last contacts, phases and events of each leg | update the motions from a mode schedule | four lists that end by different conditions and are read at one another's indexes |
| base, joint and force planners | terrain pointer, last trajectory | update a trajectory | the same reference sampled three times; index arithmetic, geometry |
| `LeggedInterface` | none after construction | load the settings, build the problem | numbers checked in one place and divided by in another |
| `LeggedPrecomputation`, kinematics, collision interface | one cache per solver thread | request, getters | three numberings of the bodies; values of older iterates |
| costs, constraints, soft constraints | the current spheres of the terrain avoidance | values and approximations | rows computed by hand in every term |
| synchronized modules | one buffered value | set, pre-solver update | messages during a run |
| controller node | lifecycle state, MPC thread, `controllerRunning_`, publisher, interface, manager pointer, terrain, observation | transitions, callbacks, the MPC loop | a thread that asks for the transition that joins it; flags read before they are set; topics polled one by one |
| estimator node | readiness flags, last sensor values | transitions, timer | flags that outlive the data they stand for |
| `LeggedStateEstimator` | low-pass filters, last estimates | `init`, `update`, getters | what a second `init` leaves behind |
| `InEKF` | matrix X, covariance P, biases, maps from contacts and landmarks to columns | indicate contacts, correct with kinematics or landmarks, remove, keep, clear, set the state | every removal moves the indexes of all that follow, in two maps and in the list of removals |
| terrain model, dynamics, visualizer, messages | none that changes | functions | numerics, output |

`PROJECT.json` lists every component with its sources and, under `hazards`, what is hard to test in
each at its line, with the property that covers it.

What makes each component correct:

- reference manager: the solver reads one finished plan, whole, never an older one, on the terrain
  it was planned on; nothing it reads changes during a run; every input reaches it; a command
  moves the robot once;
- gait planner: the schedule is well formed and covers the horizon; schedule and contact flags
  agree; no legal sequence of gait changes trips an assertion;
- swing, base, joint and force planners: feet, forces and joints do what the schedule says at every
  time the solver may ask for; a foothold about to be stepped on stays;
- interface, terms and precomputation: an accepted file serves, or is one of a named few; what a term reads was computed for
  its own node, for the body it means; what it writes is where its value reads;
- filter: each estimated point owns exactly one column, the map names it, the covariance and the
  biases have the same order; a foot in stance keeps its column;
- estimator: a measurement is used once, nothing is used that never came, nothing published comes
  from an earlier start;
- controller node: a solver is never replaced under a running thread; a deactivation ends; a failed
  solver does not stay in an active node, and its thread ends; time does not go back; an active
  node plans, and on the map it was given.

## 2. Modules

| Module | Models |
|---|---|
| `ReferenceSnapshot` | abstract: a solver that adopts finished plans atomically, between its runs |
| `LeggedReferenceManager` | `locomotion_mpc/src/reference_manager/LeggedReferenceManager.cpp` |
| `GaitPhases` | gait parameters, phases of legs, `GaitDynamicPhaseController` as operators on its list |
| `ModeTemplate` | `getDynamicModeSequenceTemplate` |
| `GaitPlanner` | `GaitPlanner.cpp`, driven as `generateNewTargetTrajectories` drives it |
| `SwingTrajectoryPlanner` | extends `GaitPlanner` by `SwingTrajectoryPlanner.cpp`, `SingleLegLogic`, `FootPhase`, the nodes of `QuinticSwing` |
| `ReferenceTrajectories` | extends that by the base, joint and force planners, the subsampling and the getters of the solver |
| `InputLayout`, `StateLayout` | the accessors of `floating_base_model` and the rows each term and library computes by itself |
| `CollisionModel` | collision settings, the numbering of frames, links and pairs, the graph of the spheres |
| `PrecomputationCache` | `LeggedPrecomputation`: what a request computes, what a getter holds |
| `OptimalTerms` | costs, constraints and soft constraints: when active, what they read and write |
| `WrenchCone` | the sixteen rows of `generateConeConstraintMatrix` and the cone of a sole |
| `SettingsFile` | what the loaders accept and what the users of the numbers need |
| `OptimalProblem` | composes these six: `LeggedInterface`, solver threads, the disturbance |
| `AnchorSet` | abstract: the set of points the filter estimates |
| `InEKF` | the columns, rows, indexes and contacts of `legged_state_estimator/src/inekf/inekf.cpp` |
| `LeggedStateEstimator` | the memory of `legged_state_estimator.cpp`: from what each quantity was computed |
| `EstimatorNode` | `LeggedStateEstimatorNode.cpp` on top of it |
| `ControllerNode` | `LeggedLocomotionMpcControllerNode.cpp` with the transition rules of `rclcpp_lifecycle` |
| `ControllerObservation` | extends it by `updateCurrentObservation`, its topics and the time the solver is given |
| `MC...` | the constants of the instances TLC checks |
| `..._proofs` | theorems and proofs about the module of that name and those it extends |
| `GaitFollowing_proofs` | theorems about `GaitPlanner` and its phase controller, most where no switch is merged |

A definition named `Faulty...` is a plausible mistake in place of the definition after it, kept to
show that a property would notice; no specification uses one.

### LeggedReferenceManager

Inputs are version numbers, a plan is the tag of its generation with the version of every input it
used: the data that the properties tell apart. The MPC thread is the program counter `solver`, the
generation is `task`, with one action per access to shared state, in the order of the code
(`TaskAfter`, `SwapAfter`). Without threads the same actions run one after the other. Setters may
come between any two steps. `Take` is `BufferedValue::updateFromBuffer`. `PlanMotion` stands for
the planners; it may throw, which ends a threaded generation silently and lets a sequential one out
of `preSolverRun`. `initialize` with its own wait, and the destructor, are actions too.
The atomic snapshot changes at the last of the four swaps, which is the refinement mapping
(`SnapshotView`).

Setters are assumed to come after `initialize`, as in the node, which calls them only when
`controllerRunning_` is set, and never beside the destructor.

### GaitPlanner, SwingTrajectoryPlanner, ReferenceTrajectories

Time is in ticks, the phase in units of a cycle, and `SCALAR_EPSILON` is smaller than either: a
value minus it is "just before". A mode is the set of legs in stance. Every
generation first may change the gait, `GaitUpdateOffset` after its initial time, then asks for the
schedule of its horizon, and the clock moves on by a member of `Steps`. The clamp is modelled as
it runs: its inner loop advances the outer index. The switch that is read behind the cut end of the
vector (`GaitPlanner.cpp:222`) is the old value, which the vector still holds, or either outcome
when there never was one. `SteppableAssumption` excludes gaits for which the merging loop of the
template does not end (`ModeDynamicSequenceTemplate.cpp:96`). `updateCurrentContacts` changes
nothing and has no action.

The other planners of a generation are part of the same step as the schedule they follow
(`ScheduleAndSwing`, `Generate`), for the task calls them in a row and publishes after the last.
A foothold is the generation that chose it and whether a boundary constrains it; a swing is its two
times, whose splines start and end at the nodes `SwingNodes`, in parts of a tick. What a plan may
read past the end of the selected footholds is `NoFoothold`, which `LegsFollowSchedule` then forbids
to meet. A sample of the reference is its time, the feet on the ground and the feet that carry.
The settings `MidPhase` and `DeltaTime` exclude what the loaders wrongly accept (section 3).

Every loop of these planners is a recursive function over its passes, whose last value is the result
(`StanceRuns`, `WithContacts`, `Subsampled`, the rounds of `Tile`, the template). A loop that only
its condition ends has as many passes as it can need: each pass adds a tick.

### OptimalProblem and its parts

`Refuse` and `Construct` are the constructor of the interface on a collision file, a choice of terms
and the numbers of a settings file. A solver thread requests a node with flags and then evaluates
the terms due; its precomputation holds, for each kind of quantity, the node it was computed for, or
`Older`. The properties compare, at every pending evaluation, the reads and writes of each term
(`Reads`, `ValueRows`, `DerivativeRows`, `StateParts`) with the cache and the accessors. Of the
numbers of the robot only those of the terrain search are kept: which sphere of a body is current.
Distances to the terrain are any of a set of functions, at every evaluation anew.

Every file, pair, list of frames and excess keeps the order and the index arithmetic of the code. Reads
and parts that the code addresses wrongly are modelled as the code has them and named (`Misplaced`,
`MisreadAngularVelocity`, `Loose`), so that the properties say what holds besides.

Feet of both kinds are accepted by the loader of their weights, which then writes outside of a vector:
an unsigned index underflows (`TrajectoryTrackingCost.cpp:716`; `WeightsHeld`). Such a write is
undefined: the program may end there (`Refuse`) or go on (`Construct`), and what other data it changes is
left out. Whether a gait can be worked with (`GaitServed`) includes that the loop that merges close
changes ends (`ModeDynamicSequenceTemplate.cpp:96`): it does when a swing or a stance lasts
MIN_TIME_BETWEEN_CHANGES (`ShortestMode`). The maximum frequency is accepted at any height and the clamp
to it (54-57) not used.

### InEKF

A column of X and the rows of a point in P, in the matrices of the filter and before the biases are
named by the point they hold. The loops that remove and add points take one action per point, in
any order, after the lists are made (`removing`, `adding`); the calls of the estimator are
sequential, so a call starts only when the lists are empty. `SetState` is
`LeggedStateEstimator::init`. `MayReset` says whether it may be called while points are estimated:
the node does so when it is activated again, and the properties hold only without.

### LeggedStateEstimator, EstimatorNode

Of a number the estimator keeps the model keeps where it comes from: data before the last `init`,
the pose of the `init`, data since. The filters of contacts are taken with their dynamic estimation,
which mixes strictly more. The node polls its three subscriptions, each a queue of one message; a
message may be whole, of a wrong size, name unknown joints or frames, or name a joint twice. The
vectors are resized without being filled, so that their elements are "garbage" until named.

### ControllerNode, ControllerObservation

The executor serves one callback at a time: all subscriptions, the timer and the services of the
lifecycle are in the default callback group of the node, which is mutually exclusive even with the
`MultiThreadedExecutor` of `main.cpp`. The MPC thread runs beside it; its handler of exceptions
clears `controllerRunning_` and asks for the deactivation itself, which runs `on_deactivate` in the
thread, where the join of itself throws and the node is finalized. A configuration may fail before the
subscriptions are made or after them (196). An interface is the
number of the setup that built it, so that a stale pointer is a smaller number. `controllerRunning_`
and `referenceManagerPtr_` have no initial value in the header: `Init` allows any.

A poll is what each topic gives at that moment: nothing, an invalid message, a whole one with a
stamp, or one with an unknown joint, which throws. Assumed: the stamps of a topic do not decrease,
and all use the clock of the node. The observation is the time it carries and where that is from.
Contact flags, which do not go into the observation, are left out.

## 3. Runs

| Run | Instance | Shows |
|---|---|---|
| `reference_manager` | a change of gait, two of the terrain, two commands, 4 tags, planners may throw, both modes | consistency, exclusive swaps, terrain, commands, monotony, refinement |
| `reference_manager_live` | a change of the terrain, two commands, 3 tags, fair | every input reaches the solver |
| `gait_planner` | 3 legs, 4 gaits, cycle of 16 units, horizon of 20 ticks, steps of 4 and 6, time to 26 | schedules that agree with the phases; feet, footholds, splines and references that agree with the schedules |
| `optimal_problem` | 2 + 2 legs, 3 joints, 2 links, 11 files, 2 threads, 2 nodes, 2 disturbances, fair | accepted files that do not serve, fresh reads in range, derivatives in place, forces, the cone, the search, the disturbance |
| `inekf` | 3 contacts, 2 landmarks, no reset | indexes, columns, rows, stance feet, refinement |
| `estimator_node` | 2 joints, 1 foot, messages whole and partial, fair | measurements used once and only when received; estimates of this start, and no end of them |
| `controller_node` | 2 activations, 2 topics, clock to 2, fair | transitions, the MPC thread and its end, time in order |
| `gait_held` | as `gait_planner` without feet, gaits of frequency 0, time to 32 | violated, finding 1 |
| `gait_paused` | as `gait_planner` without feet, steps of 0 and 4, time to 32 | violated, finding 2 |
| `inekf_reset` | 3 contacts, resets allowed | violated, finding 3 |
| `controller_thread` | 3 activations, no topics | violated, finding 4 |
| `controller_map` | 3 activations, no topics | violated, finding 5 |

Why the bounds are enough.

- *Reference manager.* Two generations can be alive in its state at once (one published, one in
  work), and a third is adopted; four tags keep them apart. A second version of an input is what can
  be lost or mixed up with the first.
- *Planners.* Three legs give modes of one, two and three legs, two offsets for the clamp and switches
  that coincide or come within `MinTime`; the horizon is longer than a cycle of the fast gaits and
  shorter than two of the slow one. Time to 26 passes the first horizon (20) and the offset of a
  change (6), so that a plan is cut and continued in its own tiled part, by four generations and
  more, each with a change. `TimeDeadzone` is 9 ticks, so that a deadzone spans a swing and
  stances begin inside, at and outside its end. `MidPhase` 6 of 16 differs from the middle;
  `DeltaTime` 3 does not divide the horizon, nor `SampleInterval` 2 the `DeltaTime`, so that every
  case of the subsampling occurs.
- *Optimal problem.* Two legs of each kind make every arithmetic of rows depend on both numbers; two
  links make all six lists of pairs nonempty. There is a file for each reason to refuse one, and a
  setting deviates in one number or one length, over -1 .. 4 with `One` = 2: below, at and above each limit.
  Gaits at the highest frequency have each ratio: with `ShortestMode` 1, a half of the real unit, one
  of them is too fast and the others are not. Two
  threads and nodes show a cache of another thread or node. `SoleLengths` 1, 2 and 5 make feet longer,
  wider and square; friction is a half or one. The proofs of section 4 take the instance away.
- *Filter.* Three contacts allow two removals in one call with a column behind both, landmarks in
  between.
- *Estimator.* A queue, a value and a flag per sensor have no counter: the instance is all
  of it for one foot and two joints, one named and one not.
- *Controller node.* A second activation finds what the first one left; the runs of findings 4 and 5
  have a third. The clock to 2 gives a stamp of the past, one of the present, and a poll between two
  ticks. The base twist is polled and stamped like the transform, so that two topics stand for three.

Gaps between ticks are not seen: MIN_TIME_BETWEEN_CHANGES is 2 ticks, offsets and ratios are whole
units, so that events of real time between two ticks are those of the next one. Every gait of the
instances moves the phase by 0, 1 or 2 units a tick.

Deadlock is not checked for the reference manager and the two nodes (a destroyed, finalized or crashed one
stops), for a refused settings file, and for the planners, which stop at `MaxTime`; the filter is checked for it.

Fairness. `FairSpec` of the reference manager: the MPC thread calls `preSolverRun` at its period
and the operating system schedules the task. No setter is owed. `ObservationSpec` of the controller
node: a callback that has begun goes on, `advanceMpc` returns or throws, and the thread goes on; no
message, request or failure is owed. `FairSpec` of the optimal problem: the MPC loop starts runs, a
run ends after finitely many iterations, its threads evaluate what they requested. `Spec` of the
estimator node: the timer fires, the sensors go on publishing right messages; the property claims
nothing unless only right ones come in the end. The liveness of the reference manager is checked for
planners that do not throw: a generation that throws loses the command it took.

### Findings

1. *A held gait.* With frequency 0 a new offset can put a leg exactly at its switch. The template
   takes it as in its new mode, the contact flags as in its old one, until the next change.
2. *A paused clock.* Two generations with the same initial time, each with a new gait, trip an
   assertion: the second change is at the time of the first (`GaitDynamicPhaseController.cpp:145`), or
   before it where the first was moved by MIN_TIME_BETWEEN_CHANGES (`GaitPlanner.cpp:153`).
3. *A second init.* The filter gets a state without points and keeps the map of them.
4. *A thread that ends at once.* `runMpc` starts the loop before the flag it tests is set.
5. *A map used once.* After a deactivation the next activation plans on the plane.

Met while modelling and not runs of their own. Where a property had to step around one, it names it.
Files are in `locomotion_mpc/src` unless another package is named.

- *Gait.* A new gait is compared with the next planned switch only (`GaitPlanner.cpp:222`), so that two
  modes may be closer than MIN_TIME_BETWEEN_CHANGES after a change; the maximum frequency is never
  applied (`ModeDynamicSequenceTemplate.cpp:54-64`).
- *Swing.* A leg can be planned with a first swing of length zero, on which the assert of `QuinticSwing`
  fails: when the template has merged its landing into an earlier switch, the last plan has it standing,
  with a lift-off to come, and a change of gait that plans anew from the phases has it land at the very
  start. TLC finds it with a gait whose three legs switch a tick apart and a `MinTime` of 3; the instance
  of `gait_planner` has no such gait, and `FollowWhileSwingsLast` (section 4) excludes it by name.
  A leg that starts in stance never gets the offset of its first foothold; a foothold kept at
  the new middle of a contact may be that of another stance (`SwingTrajectoryPlanner.cpp:547`);
  an event past the end is read, and not used, at line 699; the middle node of half a swing is
  at twice the swing height (`FootPhase.cpp:216-245`).
- *Base and joints.* The reference height runs ahead of the plan (`BaseTrajectoryPlanner.cpp:160`), a
  yaw is unwrapped by one turn only; two limits of the inverse kinematics are swapped
  (`JointTrajectoryPlanner.cpp:47-48`) and a lambda returns nothing for a velocity within its limits (279-283). The
  weight compensation uses the force of leg 0 for every leg (`PinocchioWeightCompensator.cpp:56-77`).
- *Settings.* `phases`, `swingRatio` and `phaseOffsets` may be 1, which the messages of the loaders
  exclude; zeros of `deltaTime`, the minimum height, the sample interval, widths and the
  regularization pass and are divided by or asserted on; the signs of the weights of contact torques
  are never looked at; a gait whose swing and stance are both shorter than MIN_TIME_BETWEEN_CHANGES passes,
  and its template never ends; a frequency equal to a minimum that is not zero stands in the template and
  goes on in the phase controller; a missing key leaves a number uninitialised. That `deltaTime` be shorter than
  the horizon, which is in another file, nobody checks (`BaseTrajectoryPlanner.cpp:228`).
- *Collision.* A pair and its reverse are both accepted; a search limited to two neighbours may stop at a
  sphere that is not the nearest; an unknown frame has an index past the last one, which the test `<= 0`
  lets through (`PinocchioForwardCollisionKinematicsCppAd.cpp:30`); a frame may have no sphere at all; `TerrainAvoidanceSoftConstraint.cpp:157`
  gives the place in the list for the index of the link; `SelfCollisionAvoidanceSoftConstraint.cpp:833`
  the link for the end effector; its second derivatives multiply matrices that do not conform (484, 565, 671,
  753, 855, 958).
- *Cone.* Row 6 loses its torque to row 7 (`WrenchFrictionConeSoftConstraint.cpp:233`), rows 4 to 7
  multiply torques by the friction, some comments of rows 8 to 15 give other signs, and a length of
  the foot is used as half of one.
- *Tracking.* The error of a velocity is weighted as one of a position
  (`TrajectoryTrackingCost.cpp:290`); the angular velocity is read with the getter of the linear
  one (181-195, 326-340); the weights of mixed feet underflow an index (716).
- *Torques.* The torque approximation leaves out its error term (`PinocchioTorqueApproximationCppAd.cpp:93`);
  `computeSpatialForces` overwrites the force of a joint with two contacts. The cost of
  `LeggedLoopshapingInterface` is approximated with a precomputation that was never filled.
- *Filter* (`legged_state_estimator`). Biases and their correlation are erased at every
  right-invariant correction; the branch of prior landmarks dereferences an end (`inekf.cpp:667`).
- *Estimator.* The first update after a second `init` turns its measurements with the rotation and
  the rates of before; `ContactEstimator::reset` is empty; the contact position noise of the settings is
  not used; a probability that is not a number counts as no contact.
- *Estimator node.* With `use_contact_estimator` it never estimates; readiness outlives the data of an
  activation, so that the next one may be finalized or crash on vectors of a wrong size.
- *Controller node.* `setupMpc` takes the clock for the time of the first run, the next one takes
  the newest stamp, which may be older: the solver is asked to go back once, which `GaitPlanner.cpp:51` asserts
  never happens. A poll that ends early keeps the old time with a newer state; joint velocities are
  dropped (475); an unknown contact frame writes to foot 0 (504); a node activated before any message
  observes zeros. A missing first policy says "try again later" and finalizes the node; a
  shutdown of an active node leaves the thread and the commands running. The destructor of a threaded
  manager that was never initialized waits on a future without state (`LeggedReferenceManager.cpp:364`).

## 4. Proofs

| Theorem | Statement | Assumptions |
|---|---|---|
| `TypeCorrect`, `SnapshotIsConsistent`, `SwapExclusive` | `TypeOK`, `SnapshotConsistent`, `SwapIsExclusive` (reference manager) | those of the constants |
| `ImplementsSnapshot` | `Spec => Snapshot!Spec` | |
| `TerrainIsOfSnapshot`, `PlannersSeeTerrain` | `TerrainOfSnapshot`, `PlannerTerrainAlive` | |
| `SnapshotMonotonic`, `CommandMovesOnce` | `SnapshotNeverGoesBack`, `CommandUsedOnce` | |
| `TypeCorrect`, `IndexesCorrect`, `ColumnsCorrect`, `CovarianceCorrect` | every point owns its column and rows, every column has its owner | no reset |
| `StanceKept` | a foot in stance keeps its column | no reset |
| `FilterImplementsAnchorSet` | `Spec => Abstract!Spec` | no reset |
| `TransitionsExclusive`, `SetupIsAlone`, `InactiveIsSilent` | `TypeOK`, `SetupAlone`, `SilentUnlessActive` | |
| `SolverTimeInOrder`, `ObservingNodeCorrect` | `ObservationInOrder`; the observing node is a `ControllerNode` | stamps of a topic do not decrease, one clock |
| `TypeCorrect`, `MeasurementsUsedOnce`, `FirstActivationSafe`, `EstimatesOnlyActive`, `PublishesOnlyThisStart` | the invariants of the estimator node | |
| `AcceptedServeUnlessNamed`, `LoadersLetThrough` | of all accepted settings, for all feet, each need fails exactly for the named ones | |
| `TypeCorrect`, `NothingStaleRead`, `ReadsWithinBounds`, `DerivativesAligned`, `OnlySwingForcesVanish`, `SearchNeverRecedes` | the invariants of the optimal problem | |
| `ConeIsOfSole` | `ConeFitsSole`: all but the loose rows are facets of what the corners can give, none cuts it | friction up to one |
| `TemplateCovers` | the template of modes covers the horizon, its loop ends | a steppable gait |
| `ScheduleWellFormed`, `ReferenceWellFormed` | `WellFormedSchedule`, of the planner and of the whole generation | |
| `SpacedChangesInOrder`, `AssertsNeverFail` | `ChangesInOrder`; `SpecUnasserted => Spec` | `Spaced`: steps longer than `MinTime` |
| `TemplatePlays` | the template plays its gait tick by tick, from any phase | a gait that is held, has no swing or is `Regular` |
| `ModesAlwaysFollowPhases` | `ModesFollowPhases` | `NothingMerged`: regular gaits, soon due; see below |
| `PhaseNeverJumps` | `[][PhasesKept]_vars`: up to the newest change, no phase or contact flag changes once known | |
| `FeetAlwaysFollow` | `FeetFollowSchedule`: `LegsFollowSchedule`, a swing that was over at the start without its length | |
| `FollowWhileSwingsLast` | `LegsFollowSchedule` | `[]LandedSwingsLast`: such a swing has a length |
| `FootholdsStay` | `KeepsFootholds` | `Advances`: no step of 0, or an extension |
| `ReferencesAlwaysAgree` | `ReferencesAgree` | |

*Reference manager.* `SnapshotConsistent` is not inductive: during the four swaps the active values
are mixed. `SnapshotInv` says in four parts which thread owns what: the control states that can
meet (`ControlInv`), what a generation in progress has already published (`BufferInv`), which of
the active values are already swapped (`ActiveInv`), and that a plan exists unless planners throw
(`PlannedInv`). Every action keeps them; the refinement maps the last publication to
`Offer`, the last swap to `Adopt`, and all other steps to stutters or to the borders of a run.

*Versions of the inputs.* `VersionInv`, over the same actions: a pending version is newer than the
active one (`OrderInv`), both planners refer to the active terrain (`TerrainInv`), a generation uses
the active version of what it has consumed (`WorkInv`), a buffered plan is no older than the one
it will replace (`PlansInv`), the targets of a generation that ended well are on their way to the
solver (`LatestInv`), and the copied terrain fits the targets whenever the solver is not
between the swaps and the copy (`CopyInv`). That the order of swaps and copy leaves no setter in
between is `ControlInv` again: no generation runs then, and only a generation consumes.

*Filter.* `FilterInv` adds to the properties that the list of removals names the columns the
map names (`ListInv`): that is what `Moved` on the list keeps, and without it the second removal
takes the column of another foot. The lemmas `WithoutValue`, `MovedValue` and `WithRowsValue` say what
a column, an index and the rows become. Injectivity of the index follows from columns naming their
owner.

*Controller node.* `NodeInv` adds where the thread can be in each state (`ThreadInv`) and what a
transition in progress implies for the publisher and the setups left (`TransitionInv`).

*Observation.* An observation with a time of the sensors may replace a newer one only if no stamp
vouches for the latter. `ClockInv` says that the time observed is that of the clock or not above
some stamp (`Backed`), and the time solved not above the one observed unless it is of the clock
(`Behind`). The newest of up to three stamps (`NewestStamp`) is then at least the time observed, because
no stamp decreases. A step of the observing node is one of the node without observation
(`StepOfNode`), so its theorems carry over.

*Estimator node.* `NodeInv` says what every poll keeps (`SensorsInv`, lemma `Poll`) and, of the
memory, that as long as no column was lost a quantity with data of before has none of since
(`MemoryInv`); each of the updates of the estimator keeps it (`UpdatedMemory`).

*Optimal problem.* `IInv` adds that a pending request has its kinds in the cache of its own thread
(`CacheFilled`) and that every current sphere exists (`SpheresExist`). What is left is a statement
about data, proved for every accepted file and stance: each term reads what its category computes
(`ReadsComputed`), at indexes that the numbering of the collision settings gives (`IndexInRange`, `ReadsHeld`),
and writes rows by an arithmetic equal to that of the accessors (`InPlace`, `StateInPlace`).

*Settings.* `ServesUnlessNamed` pairs each need with what lets it down: no division by zero and no
exception of a planner or a penalty with the zeros (`ZeroSlipsThrough`), the assertion on the nodes of a swing with a
midpoint at its end (`BoundarySlipsThrough`), a loop that ends with a gait not too fast
(`FastSlipsThrough`), convex costs with signs (`SignSlipsThrough`), a write within the vector with feet
of one kind (`MixedFeetSlipThrough`). Each user gets a lemma that compares what the loader let through
with what it needs (`PlannersServe`, `PenaltiesServe`, `CostsServe`, `WeightsServe`).

*Cone.* The corners of a sole give sixteen edges, numbered by four signs (`EdgesOfSole`, `EdgesDiffer`):
two for the corner, two for the edge of its friction pyramid. What a row gives on an edge is a product of
factors that are nonnegative for every sign (`TangentialSlack`, `TorqueSlack`, `YawSlack`), so no edge is
refused, and each row that is not `Loose` vanishes on five of them (`FiveEdges`), which makes it a facet.

*Loops.* No induction theorem of the library can be used here, for its predicate is an
operator. `GaitPlanner_proofs` proves induction over a set (`SetInduction`) from well-foundedness, that the
equations of a loop have a solution (`LoopDefined`), and that its states stay in a set closed under a
pass (`LoopStates`). Every loop of the planners is treated alike: it exists, its states satisfy
an invariant of the pass, the last state is the result.

*Gait planner.* `PlannerInv` has three parts. `ScheduleInv`: the schedule has increasing events, one
mode more, and reaches the horizon when published. `GaitInv`: the changes are increasing, their
last one is that of the gait in force, which is steppable. `ClockInv`: times are numbers. For a
generation, the template covers what is left of the horizon (`TemplateCovers`, with an
invariant of its loop that bounds the switches still to come), tiling adds pieces of a tick at least
(`TileReaches`), and cutting keeps a prefix (`KeptPlan`). `ChangesInOrder` needs more: a change
may be put off by `MinTime`, so the next one is behind it only when the generations are spaced;
finding 2 shows that it fails else. `OrderInv` says by how much the change may be ahead of the clock.

*Modes and phases.* The mode schedule is never computed from the phase controller: a template adds
up durations, a generation tiles it behind what it keeps, a change cuts it. `ModesFollowPhases` says
that the outcome is nevertheless that of the controller. The proof is from one tick to the next.
`TickAfter`: a leg whose next switch is more than a tick away stays in its mode and gets a tick closer,
and at the switch the duration that `Duration` computes is the time to the one after. So the queue of
the template loop holds the true next switches at every pass (`InStep`, `NextInStep`), its pieces
play the gait tick by tick (`TemplatePlays`), and so does what is tiled (`TileGoesOn`). The phase of the
controller is that of the last change plus the ticks since (`PhaseSinceLast`, with `Chained`:
each change takes over the phase), forgetting old changes alters nothing from then on (`RemovalKeeps`),
nor does a new one until its time (`AdditionKeeps`). These two alone make `PhasesKept` an action
property of every planner, whatever its gaits (`PhaseNeverJumps`).

`FollowInv` has four parts. `FollowsGait`: behind the change to the gait in force the plan shows it at
every tick. `AgreesBefore`: before it, the plan shows the flags but at a switch, at the start and near
a change. `GaitKnown`: the last change is the gait, which is unmerged. `PlanReaches`: the plan reaches
the change, and the change is due. The hard case is a generation whose tiling begins before the
change: its phase is then that of another gait, extrapolated. `TilingAfterGait` shows that this
only happens to a gait without swing, as any other one has a switch, and so an event, between its
beginning and the end of the horizon.

`NothingMerged` is what this needs, and each part of it is needed:

- every gait has no swing, or modes of whole ticks, `MinTime` of them at least, and switches that coincide
  or are `MinTime` apart (`Regular`). Otherwise merging moves switches, three of them in a row further than
  `Transition` allows, and rounding to ticks lets the template drift from the phase;
- with swing, a switch comes before the horizon ends whenever the gait is asked for (`Prompt`).
  Otherwise a generation may find no event behind the change and tile the gait from a phase the old
  one has;
- a held gait (`rate = 0`) is not asked for and is not held at a switch: finding 1 refutes
  `ModesFollowPhases` otherwise. The demos begin with one, which the theorem allows;
- a generation begins within the plan of the last one, so that what a change cuts is still planned.

`MCGaitPlanner` has TLC confirm that a set of gaits meets all this (`UnmergedGaitsExist`). The instance of
the run goes beyond it: of its gaits `Walk`, `Trot` and `Hop` are not `Unmerged`, and there TLC alone
answers for the property.

*Feet.* The three lists of `updateSwingMotions` are related one by one. The runs read from the modes
are maximal, so a leg is in stance at a time exactly when one of its contacts is in force then
(`RunsRead`, `ContactsOfSchedule`). A plan is described by roles: phase by phase, the stance of a
contact or the swing to it (`Roles`, `Fits`), each after the last one, up to one that lasts
beyond the horizon (`PlanOfContacts`); every role within the horizon has a foothold, though those
end by another condition (`FootholdSelected`, `FootholdsChosen`). The event before a time then finds
the role whose contact is in force (`RoleDuring`). `FeetInv` keeps this for the plan handed over, for
its last contacts (a swing in progress lifted off before the horizon) and for its constraints.
What is left of `LegsFollowSchedule` is the length of a swing. A swing between two contacts has
one, and a first swing that is not over at the start too; one that is over may have none
(section 3, *Swing*), which `LandedSwingsLast` names. `NothingMerged` cannot stand in its place: a
change put off by `MinTime` because of a switch close by, followed by one to a stand, plans such a
swing with gaits none of whose switches is merged. TLC checks the whole of it on the instance.

*Footholds.* A contact whose start the last plan had, and whose end it had or did not know, is
looked up there at its middle, which is after its start (`ContactEnd` is later: by the order of the
contacts, or because the horizon has moved on, which is `LaterInv` with `Advances`) and not
after the end the last plan gave it: so in that stance (`MiddleInStance`). Were a generation
repeated at the same time with no extension, the middle of a contact at the end of the horizon
would be its start, before which there is a swing.

*References.* The base samples are start plus multiples of `DeltaTime`; the loop of the subsampling
keeps samples increasing and no further apart than the interval, and ends each pass at a base sample
(`SampleAdded`, `SamplesTaken`). At each sample the feet are those of its mode by
`FeetFollowSchedule`; forces copied from the sample before are those of the same mode
(`ForcesOfModes`).

Only model-checked:

- all liveness, which the prover cannot state: `InputsReachSolver`, `CommandReachesSolver`,
  `DeactivationEnds`, `FailureEndsActive`, `FailedThreadEnds`, `EstimatesFlow`, `DisturbanceReachesSolver`;
- `ModesFollowPhases` for gaits whose switches may be merged: `ModesAlwaysFollowPhases` covers the others.
  No theorem can cover all, for finding 1 refutes the property for held gaits, and where more than two
  switches come within `MinTime` of one another merging moves them further than `Transition` allows.

## 5. Not modelled

Values of matrices and trajectories, geometry, polynomials, dynamics, penalties, second derivatives
and the terminal cost: numerics over the reals. The terrain model is geometry without state; the
visualizer, the demos and the messages are output, examples and data. Of the filter: prior landmarks and the
position and magnetometer corrections, which change no bookkeeping. Of the controller node: the
values of the state and the contact flags of a message. Of the interface: building the robot model,
generating code, loop shaping. `GaitSynchronizedModule` is not used. What happens inside ocs2,
rclcpp and Pinocchio is assumed from how the code uses it and marked external in the map.

## 6. Plan

Done: reference manager, planners, filter, estimator and its node, controller node with its
observation, the optimal problem with its settings. What would come next:

1. Composition of the controller node with the reference manager over a deactivation: a task that is
   alive when the interface is replaced (destructor, setters).
2. `ModesFollowPhases` for gaits with merged switches, with a `Transition` that grows with the number of
   switches merged in a row.
3. The joint limits of the inverse kinematics, the heights of the base planner over overlapping
   generations, the contact flags of a message.
