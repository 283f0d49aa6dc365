---------------------------- MODULE GaitPlanner ----------------------------
(***************************************************************************)
(* GaitPlanner as the reference manager drives it: every generation may    *)
(* change the gait from GaitUpdateOffset after its initial time on, then   *)
(* asks for the mode schedule of its horizon (updateDynamicParameters and  *)
(* getModeSchedule in generateNewTargetTrajectories). Its third operation, *)
(* updateCurrentContacts, changes nothing.                                 *)
(*                                                                         *)
(* Definitions named Faulty... are what the definition that follows them   *)
(* would be with a plausible mistake; they are not part of the model.      *)
(***************************************************************************)
EXTENDS ModeTemplate, SequencesExt

CONSTANTS
  Gaits,              \* the gaits the operator may ask for
  InitGait,           \* the gait the planner is built with
  InitPhase,          \* GaitStaticParameters::initPhase
  Horizon,            \* finalTime - initTime of the solver
  GaitUpdateOffset,   \* Settings::gaitUpdateOffset
  Steps,              \* how far the solver may advance between generations
  MaxTime             \* bound on the initial time of a generation

ASSUME GaitsAssumption == Gaits \subseteq Gait /\ InitGait \in Gait
ASSUME SteppableAssumption == \A g \in Gaits \cup {InitGait} : Steppable(g)
ASSUME TimesAssumption ==
  /\ Steps \subseteq Nat /\ MaxTime \in Nat /\ InitPhase \in 0 .. Cycle - 1
  /\ {Horizon, GaitUpdateOffset} \subseteq Nat \ {0}

VARIABLES
  gait,        \* dynamicParams_
  gaitTime,    \* currentDynamicParamsTime_
  startTime,   \* currentStartTime_
  changes,     \* phaseController_
  events,      \* modeSchedule_.eventTimes
  modes,       \* modeSchedule_.modeSequence
  clock,       \* the initial time of the generation in progress
  stage        \* what the generation does next: "gait" or "schedule"

plannerVars == <<gait, gaitTime, startTime, changes, events, modes>>
vars == <<plannerVars, clock, stage>>

Init ==
  /\ gait = InitGait /\ gaitTime = 0 /\ startTime = 0
  /\ changes = <<[time |-> 0, gait |-> InitGait, phase |-> InitPhase]>>
  /\ events = <<0>>
  /\ modes = <<StanceBefore(InitGait, InitPhase), StanceBefore(InitGait, InitPhase)>>
  /\ clock = 0 /\ stage = "schedule"

-----------------------------------------------------------------------------
(* updateDynamicParameters.                                                *)

\* clampGaitDynamicParams: the inner loop advances i, so that every offset
\* is compared with the second one only, which takes the value of one that
\* is less than MinTime away.
Clamp(g) ==
  LET size == EndEffectors - 1
      Near(i) == g.rate # 0 /\ Abs(g.offsets[i] - g.offsets[2]) < MinTime * g.rate
      near == {i \in 1 .. size : size >= 2 /\ i # 2 /\ Near(i)}
  IN  IF near = {} THEN g ELSE [g EXCEPT !.offsets[2] = g.offsets[Max(near)]]

\* The time to the next mode of a leg whose phase is just before phase.
TimeToNextAfter(phase, g) ==
  IF phase \in {0, g.swing} /\ g.rate # 0 THEN 0 ELSE TimeToNextMode(phase, g)

\* The new gait keeps the planned mode: the plan ends at its next switch.
FaultyContinueMode(time, g, index, phase) ==
  LET wait == Min({TimeToNextAfter(LegPhase(g, phase, leg), g) : leg \in Legs})
  IN  /\ gaitTime' = time
      /\ events' = Append(SubSeq(events, 1, index + 1), time + wait)
      /\ modes' = Append(SubSeq(modes, 1, index + 2), Legs)
ContinueMode(time, g, index, phase) ==
  LET wait == Min({TimeToNextAfter(LegPhase(g, phase, leg), g) : leg \in Legs})
  IN  /\ gaitTime' = time
      /\ events' = Append(SubSeq(events, 1, index), time + wait)
      /\ modes' = Append(SubSeq(modes, 1, index + 1), Legs)

\* The new gait is in another mode: the plan ends where the gait begins, at
\* time or MinTime later when a switch was planned so close to time. The
\* switch is read after its erasure; the vector still holds it unless it
\* never had one, and then the outcome of the test is arbitrary.
SwitchClose(time, index) ==
  IF index < Len(events) THEN {Abs(time - events[index + 1]) < MinTime} ELSE BOOLEAN

FaultyChangeTime(time, close, index) == IF close THEN time + MinTime ELSE events[index + 1]
ChangeTime(time, close, index) == IF close THEN time + MinTime ELSE time

ChangeMode(time, g, index, newMode) ==
  \E close \in SwitchClose(time, index) :
    /\ gaitTime' = ChangeTime(time, close, index)
    /\ events' = Append(SubSeq(events, 1, index), gaitTime')
    /\ modes' = Append(SubSeq(modes, 1, index + 1), newMode)

UpdateDynamicParameters(time, g) ==
  LET clamped == Clamp(g)
      phase == PhaseAt(changes, time)
      newMode == StanceBefore(clamped, phase)
      index == IndexInTimes(events, time)
  IN  /\ IF newMode = modes[index + 1]
         THEN ContinueMode(time, clamped, index, phase)
         ELSE ChangeMode(time, clamped, index, newMode)
      /\ changes' = AddChange(changes, gaitTime', clamped)
      /\ gait' = clamped
      /\ UNCHANGED startTime

\* The asserts that time and the new change are not behind the last change;
\* a failed one ends the program.
UpdateTime == clock + GaitUpdateOffset

ChangeGait ==
  /\ stage = "gait"
  /\ UpdateTime >= gaitTime
  /\ \E g \in Gaits \ {gait} : UpdateDynamicParameters(UpdateTime, g)
  /\ gaitTime' > Last(changes).time
  /\ stage' = "schedule"
  /\ UNCHANGED clock

\* No new gait parameters, or the ones in force.
KeepGait ==
  /\ stage = "gait"
  /\ stage' = "schedule"
  /\ UNCHANGED <<plannerVars, clock>>

-----------------------------------------------------------------------------
(* getModeSchedule.                                                        *)

\* A piece of the template extends the last mode or follows it.
AddPiece(plan, piece) ==
  LET end == Last(plan.events) + piece.duration
  IN  IF piece.mode = Last(plan.modes)
      THEN [plan EXCEPT !.events = Append(Front(@), end)]
      ELSE [events |-> Append(plan.events, end), modes |-> Append(plan.modes, piece.mode)]

\* The plan with the first n pieces of the template, after n rounds over it.
WithPieces(plan, template) ==
  LET after[n \in 0 .. Len(template)] ==
        IF n = 0 THEN plan ELSE AddPiece(after[n - 1], template[n])
  IN  after

\* The loop: every round adds a tick at least, and only its end is compared.
Round(template, final, plan) ==
  IF Last(plan.events) >= final THEN plan ELSE WithPieces(plan, template)[Len(template)]

Rounds(plan, template, final) ==
  LET after[n \in 0 .. final - Last(plan.events)] ==
        IF n = 0 THEN plan ELSE Round(template, final, after[n - 1])
  IN  after

Tile(plan, template, final) == Rounds(plan, template, final)[final - Last(plan.events)]

\* What is kept of the plan: its events from start until final and the mode
\* before each; what came after the last event was only the closing stance.
Kept(start, final) ==
  LET first == IndexInTimes(events, start)
      count == IndexInTimes(events, final) - first
  IN  [events |-> SubSeq(events, first + 1, first + count),
       modes |-> SubSeq(modes, first + 1, first + count)]

FaultyTilingPhase(known, tiling, start) == PhaseAt(known, start)
TilingPhase(known, tiling, start) == PhaseAt(known, tiling)

GetModeSchedule(start, final) ==
  LET known == RemoveBefore(changes, start)
      kept == Kept(start, final)
      tiling == IF kept.events = <<>> THEN start ELSE Last(kept.events)
      begin == IF kept.events = <<>>
               THEN [events |-> <<start>>, modes |-> <<ContactFlagsAt(known, start)>>]
               ELSE kept
      template == Template(gait, TilingPhase(known, tiling, start), final - tiling)
      plan == Tile(begin, template, final)
  IN  /\ changes' = known
      /\ events' = plan.events
      /\ modes' = Append(plan.modes, Legs)
      /\ startTime' = start
      /\ UNCHANGED <<gait, gaitTime>>

Schedule ==
  /\ stage = "schedule"
  /\ GetModeSchedule(clock, clock + Horizon)
  /\ stage' = "gait"
  /\ \E step \in Steps :
       /\ clock + step <= MaxTime
       /\ clock' = clock + step

Next == ChangeGait \/ KeepGait \/ Schedule

Spec == Init /\ [][Next]_vars
-----------------------------------------------------------------------------
(* Properties.                                                             *)

\* The variables have their types: times and phases never go below zero, and the
\* controller always knows a gait.
TypeOK ==
  /\ gait \in Gait /\ {gaitTime, startTime, clock} \subseteq Nat
  /\ changes \in Seq([time : Nat, gait : Gait, phase : Nat]) /\ changes # <<>>
  /\ events \in Seq(Nat) /\ modes \in Seq(SUBSET Legs)
  /\ stage \in {"gait", "schedule"}

Published == stage = "gait"
FinalTime == startTime + Horizon

\* With these types, a mode schedule has one mode more than it has events, its
\* events increase, and they reach the end of the horizon it was asked for.
WellFormedSchedule ==
  /\ TypeOK
  /\ Len(modes) = Len(events) + 1
  /\ \A i, j \in DOMAIN events : i < j => events[i] < events[j]
  /\ Published => \A i \in DOMAIN events : events[i] >= FinalTime <=> i = Len(events)

ModeAt(time) == modes[IndexInTimes(events, time) + 1]

\* Closer than MinTime to a switch of the plan, to a change of gait or to the
\* start, where the switch before it is no longer in the plan. A change that was
\* put off had been asked for MinTime before it.
Transition(time) ==
  \/ time - startTime < MinTime
  \/ \E i \in DOMAIN events : Abs(time - events[i]) < MinTime
  \/ \E i \in DOMAIN changes : time - changes[i].time \in -MinTime .. MinTime - 1

\* The mode schedule handed to the solver and the contact flags the phase
\* controller computes, which the swing planner and the gait itself are built
\* from, agree over the whole horizon, away from the switches.
ModesFollowPhases ==
  Published =>
    \A time \in startTime .. FinalTime :
      ModeAt(time) = ContactFlagsAt(changes, time) \/ Transition(time)

\* No sequence of gait changes trips an assert of updateDynamicParameters or of
\* the phase controller's update: a change never comes before the last one, which
\* was moved by MinTime when a switch was close to it.
ChangesInOrder == stage = "gait" => UpdateTime > gaitTime

-----------------------------------------------------------------------------
(* Where ModesFollowPhases is bound to hold: no switch is ever merged.     *)

\* Every mode of a leg lasts whole ticks, MinTime of them at least, and from every
\* phase the next switches of two legs coincide or are MinTime apart.
Regular(g) ==
  /\ g.rate > MinRate /\ g.swing % g.rate = 0 /\ Cycle % g.rate = 0
  /\ \A stance \in BOOLEAN : Duration(g, stance) >= MinTime
  /\ \A phase \in 0 .. Cycle - 1, leg, other \in Legs :
       LET Wait(l) == TimeToNextMode(LegPhase(g, phase, l), g)
       IN  Wait(leg) = Wait(other) \/ Abs(Wait(leg) - Wait(other)) >= MinTime

\* Whenever it is asked for, the first switch of the gait is before the horizon ends.
Prompt(g) ==
  \A stance \in BOOLEAN : GaitUpdateOffset + MinTime + Duration(g, stance) < Horizon

\* A gait without swing needs neither, and a held one, as the demos begin with, may
\* not be held at a switch.
Unmerged(g) == g.swing = 0 \/ (Regular(g) /\ Prompt(g))

NothingMerged ==
  /\ \A g \in Gaits : Unmerged(Clamp(g))
  /\ \/ Unmerged(InitGait)
     \/ InitGait.rate = 0 /\ Stance(InitGait, InitPhase) = StanceBefore(InitGait, InitPhase)
  /\ GaitUpdateOffset + MinTime < Horizon
  /\ \A step \in Steps : step + GaitUpdateOffset <= Horizon
=============================================================================
