----------------------- MODULE SwingTrajectoryPlanner -----------------------
(***************************************************************************)
(* The second planner of a generation: updateSwingMotions splits the mode  *)
(* schedule of the gait planner into the contacts of each leg              *)
(* (SingleLegLogic), gives each contact a foothold, and plans the stance   *)
(* and swing phases (FootPhase) the references and the constraints of the  *)
(* feet are read from. A foothold is the generation that chose it: what    *)
(* matters is whether a plan keeps the one of the last plan.               *)
(*                                                                         *)
(* Definitions named Faulty... are what the definition that follows them   *)
(* would be with a plausible mistake; they are not part of the model.      *)
(***************************************************************************)
EXTENDS GaitPlanner

CONSTANTS
  TimeDeadzone,   \* StaticSettings::previousFootholdTimeDeadzone
  Extension,      \* StaticSettings::referenceExtensionAfterHorizon
  MidPhase        \* DynamicSettings::phases of a leg, in units of a cycle

\* The settings may put the midpoint of a swing at its ends (SettingsFile).
ASSUME SwingSettingsAssumption ==
  {TimeDeadzone, Extension} \subseteq Nat /\ MidPhase \in 1 .. Cycle - 1

VARIABLES
  lastContacts,   \* lastContacts_: when each leg lifts off, and from where
  footPlans,      \* feetNormalTrajectoriesEvents_ and feetNormalTrajectories_
  constraints     \* the constraints of each leg, mode by mode

swingVars == <<lastContacts, footPlans, constraints>>

-----------------------------------------------------------------------------
(* SingleLegLogic.                                                         *)

NoTime == -1       \* timingNaN()
HasStart(contact) == contact.start # NoTime
HasEnd(contact) == contact.end # NoTime

\* extractContactTimings: a contact is a longest run of modes the leg is in stance.
ReadMode(runs, i) ==
  IF runs # <<>> /\ Last(runs).last = i - 1
  THEN Append(Front(runs), [first |-> Last(runs).first, last |-> i])
  ELSE Append(runs, [first |-> i, last |-> i])

\* The contacts found after the first n modes.
StanceRuns(leg, sequence) ==
  LET after[n \in 0 .. Len(sequence)] ==
        IF n = 0 THEN <<>>
        ELSE IF leg \in sequence[n] THEN ReadMode(after[n - 1], n) ELSE after[n - 1]
  IN  after

\* What begins the schedule has no start, what ends it no end.
StartOf(run, times) == IF run.first = 1 THEN NoTime ELSE times[run.first - 1]
FaultyEndOf(run, times, modeCount) ==
  IF run.last = modeCount THEN NoTime ELSE times[run.first]
EndOf(run, times, modeCount) ==
  IF run.last = modeCount THEN NoTime ELSE times[run.last]

ContactTimings(leg, times, sequence) ==
  LET runs == StanceRuns(leg, sequence)[Len(sequence)]
  IN  [c \in DOMAIN runs |-> [start |-> StartOf(runs[c], times),
                              end |-> EndOf(runs[c], times, Len(sequence))]]

StartsWithSwing(contacts) == contacts = <<>> \/ HasStart(contacts[1])

-----------------------------------------------------------------------------
(* Footholds. A bounded one has the boundary a constraint is made from.    *)

Foothold(time, bounded) == [chosen |-> time, bounded |-> bounded]
NoFoothold == Foothold(NoTime, FALSE)

\* nominalFootholdsPerLeg_[leg][index], which a plan may read past its end.
FootholdAt(footholds, index) ==
  IF index \in DOMAIN footholds THEN footholds[index] ELSE NoFoothold

StancePhase(foothold) == [contact |-> TRUE, foothold |-> foothold, liftOff |-> NoTime, touchDown |-> NoTime]
SwingPhase(liftOff, touchDown, foothold) ==
  [contact |-> FALSE, foothold |-> foothold, liftOff |-> liftOff, touchDown |-> touchDown]

\* The nodes of a swing, in parts of a tick: getDynamicSwingProfile gives the motion of
\* the foot one midpoint, the clearance over the terrain has one at half the swing.
SwingProfile == <<MidPhase>>
ClearanceProfile == <<Cycle \div 2>>

SwingNodes(phase, profile) ==
  LET duration == phase.touchDown - phase.liftOff
  IN  <<Cycle * phase.liftOff>>
      \o [i \in DOMAIN profile |-> Cycle * phase.liftOff + profile[i] * duration]
      \o <<Cycle * phase.touchDown>>

\* QuinticSwing: a spline from each node to the next, and the one a time is read from.
Splines(nodes) == [s \in 1 .. Len(nodes) - 1 |-> [start |-> nodes[s], end |-> nodes[s + 1]]]

SplineAt(nodes, time) ==
  Splines(nodes)[IndexInTimes(SubSeq(nodes, 2, Len(nodes) - 1), Cycle * time) + 1]

\* getFootPhase; the time in half ticks, for the middle of a contact.
PhaseAtHalf(plan, twice) ==
  plan.phases[Cardinality({i \in DOMAIN plan.events : 2 * plan.events[i] < twice}) + 1]
FootPhase(plan, time) == PhaseAtHalf(plan, 2 * time)

\* updateSwingMotions: where the leg stands, or stood last, and when it
\* lifts off; a lift-off still to come becomes one at the initial time.
LastContact(last, contacts, start, final) ==
  LET first == contacts[1]
  IN  IF contacts = <<>> THEN last
      ELSE IF StartsWithSwing(contacts)
           THEN IF last.time > start THEN [time |-> start, measured |-> start] ELSE last
      ELSE [time |-> IF HasEnd(first) THEN first.end ELSE final, measured |-> start]

ContactEnd(contact, final) ==
  IF HasEnd(contact) THEN contact.end ELSE Max({final + Extension, contact.start})

\* selectHeuristicFootholds and selectNominalFootholdTerrain both stop at the
\* first contact they plan that ends after the horizon.
Selected(contacts, final) ==
  1 .. Min({c \in DOMAIN contacts :
              HasStart(contacts[c]) /\ ContactEnd(contacts[c], final) > final}
           \cup {Len(contacts)})

\* One heuristic for each of them, where the leg stands or the reference leads it.
Heuristics(contacts, final) == [c \in Selected(contacts, final) |-> contacts[c].start]

\* A contact closer than the deadzone keeps the foothold the last plan has at the
\* middle of it; any other one takes that of the terrain at its heuristic.
FaultyTerrainFoothold(plan, contact, known, start, final) ==
  LET before == PhaseAtHalf(plan, 2 * contact.start)
  IN  IF plan.phases # <<>> /\ contact.start - start < TimeDeadzone /\ before.contact
      THEN before.foothold
      ELSE IF known THEN Foothold(start, contact.start < final) ELSE NoFoothold
TerrainFoothold(plan, contact, known, start, final) ==
  LET before == PhaseAtHalf(plan, ContactEnd(contact, final) + contact.start)
  IN  IF plan.phases # <<>> /\ contact.start - start < TimeDeadzone /\ before.contact
      THEN before.foothold
      ELSE IF known THEN Foothold(start, contact.start < final) ELSE NoFoothold

\* One foothold for each of them; a leg in stance keeps the place it stands on.
NominalFootholds(plan, contacts, last, start, final) ==
  LET heuristics == Heuristics(contacts, final)
  IN  [c \in Selected(contacts, final) |->
         IF HasStart(contacts[c])
         THEN TerrainFoothold(plan, contacts[c], c \in DOMAIN heuristics, start, final)
         ELSE Foothold(last.measured, FALSE)]

\* generateSwingTrajectories. The contacts that begin within the horizon are
\* planned, each with the swing after it if that begins there too.
TouchDown(contacts, footholds, index, liftOff, final) ==
  IF index \in DOMAIN contacts
  THEN SwingPhase(liftOff, contacts[index].start, FootholdAt(footholds, index))
  ELSE SwingPhase(liftOff, final + Extension, Foothold(liftOff, FALSE))

SwingFollows(contact, final) == HasEnd(contact) /\ contact.end <= final

AddContact(plan, contacts, footholds, index, final) ==
  LET contact == contacts[index]
      landed == IF HasStart(contact) THEN Append(plan.events, contact.start) ELSE plan.events
      standing == Append(plan.phases, StancePhase(FootholdAt(footholds, index)))
  IN  IF contact.start > final THEN plan
      ELSE IF SwingFollows(contact, final)
      THEN [events |-> Append(landed, contact.end),
            phases |-> Append(standing,
                         TouchDown(contacts, footholds, index + 1, contact.end, final))]
      ELSE [events |-> landed, phases |-> standing]

\* The plan after the first n contacts; a contact that begins after the horizon, and
\* with it all that follow, adds nothing.
WithContacts(contacts, footholds, last, final) ==
  LET first == IF StartsWithSwing(contacts)
               THEN <<TouchDown(contacts, footholds, 1, last.time, final)>> ELSE <<>>
      after[n \in 0 .. Len(contacts)] ==
        IF n = 0 THEN [events |-> <<>>, phases |-> first]
        ELSE AddContact(after[n - 1], contacts, footholds, n, final)
  IN  after

SwingTrajectories(contacts, footholds, last, final) ==
  WithContacts(contacts, footholds, last, final)[Len(contacts)]

\* getFootTangentialConstraintTrajectories: none in the first mode, in each
\* other one that of the stance the leg is in when the mode ends, and in the
\* mode after the last event those of the mode before it.
ConstraintIn(plan, leg, mode) ==
  LET phase == FootPhase(plan, events'[mode])
  IN  IF mode > 1 /\ leg \in modes'[mode] /\ phase.contact /\ phase.foothold.bounded
      THEN phase.foothold ELSE NoFoothold

\* updateSwingMotions, after the schedule of this generation is known.
UpdateSwingMotions(start, final) ==
  LET contacts == [leg \in Legs |-> ContactTimings(leg, events', modes')]
      Last_(leg) == LastContact(lastContacts[leg], contacts[leg], start, final)
      Footholds(leg) ==
        NominalFootholds(footPlans[leg], contacts[leg], Last_(leg), start, final)
  IN  /\ lastContacts' = [leg \in Legs |-> Last_(leg)]
      /\ footPlans' = [leg \in Legs |->
           SwingTrajectories(contacts[leg], Footholds(leg), Last_(leg), final)]
      /\ constraints' = [mode \in DOMAIN modes' |-> [leg \in Legs |->
           ConstraintIn(footPlans'[leg], leg, Min({mode, Len(modes') - 1}))]]

-----------------------------------------------------------------------------
(* A generation plans the schedule, then the feet that follow it.         *)

SwingInit ==
  /\ Init
  /\ lastContacts = [leg \in Legs |-> [time |-> 0, measured |-> NoTime]]
  /\ footPlans = [leg \in Legs |-> [events |-> <<>>, phases |-> <<>>]]
  /\ constraints = <<>>

ScheduleAndSwing == Schedule /\ UpdateSwingMotions(clock, clock + Horizon)

-----------------------------------------------------------------------------
(* Properties.                                                             *)

HorizonTimes == startTime .. FinalTime

Motions(phase) == {SwingNodes(phase, SwingProfile), SwingNodes(phase, ClearanceProfile)}

\* The phases of a leg are one more than its events, none was given a foothold
\* past the end of those selected, and the nodes of every swing increase, as
\* QuinticSwing asserts.
PlanWellFormed(plan) ==
  /\ Len(plan.phases) = Len(plan.events) + 1
  /\ \A p \in DOMAIN plan.phases :
       /\ plan.phases[p].foothold # NoFoothold
       /\ plan.phases[p].contact \/ \A nodes \in Motions(plan.phases[p]) :
            \A s \in DOMAIN Splines(nodes) : Splines(nodes)[s].start < Splines(nodes)[s].end

\* A swing is read where it is defined: the spline a time is read from spans it.
ReadsItsSpline(phase, time) ==
  \A nodes \in Motions(phase) :
    SplineAt(nodes, time).start <= Cycle * time /\ Cycle * time <= SplineAt(nodes, time).end

\* The constraint in force for a leg at a time, found by the events of the schedule.
ConstraintAt(leg, time) == constraints[IndexInTimes(events, time) + 1][leg]

\* The feet do what the mode schedule says, although the contacts, the footholds
\* and the phases of a leg are three lists that stop by different conditions: at
\* every time of the horizon getFootPhase finds a phase, a stance exactly when the
\* mode has the leg in contact, else a swing that has lifted off and not touched down,
\* read from the spline of that time; and the constraint published for the leg is that
\* of this stance, never that of another stance or of a swing.
LegsFollowSchedule ==
  Published =>
    \A leg \in Legs :
      /\ PlanWellFormed(footPlans[leg])
      /\ \A time \in HorizonTimes :
           LET phase == FootPhase(footPlans[leg], time)
           IN  /\ phase.contact <=> leg \in ModeAt(time)
               /\ phase.contact \/ ReadsItsSpline(phase, time)
               /\ ConstraintAt(leg, time) \in {NoFoothold} \cup
                    (IF phase.contact THEN {phase.foothold} ELSE {})

\* The stances a plan begins, and their end if the plan has one.
Stances(plan) ==
  {[start |-> plan.events[p - 1], foothold |-> plan.phases[p].foothold,
    end |-> IF p \in DOMAIN plan.events THEN plan.events[p] ELSE NoTime] :
     p \in {q \in DOMAIN plan.phases : q > 1 /\ plan.phases[q].contact}}

\* A foothold about to be stepped on stays where it is: a stance that begins within
\* the deadzone, and that a new plan does not end elsewhere than the last one did,
\* keeps its foothold through every change of gait after it.
KeepsFootholds ==
  [][stage = "schedule" =>
       \A leg \in Legs :
         \A old \in Stances(footPlans[leg]), new \in Stances(footPlans'[leg]) :
           ( /\ new.start = old.start
             /\ new.start < clock + TimeDeadzone
             /\ old.end \in {NoTime, new.end} )
           => new.foothold = old.foothold]_<<vars, swingVars>>
=============================================================================
