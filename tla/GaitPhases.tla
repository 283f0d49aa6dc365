---------------------------- MODULE GaitPhases ----------------------------
(***************************************************************************)
(* Gait parameters, the phase of each leg (GaitCommon, GaitParameters) and *)
(* GaitDynamicPhaseController, as operators on its list of changes.        *)
(*                                                                         *)
(* Time is counted in ticks and the phase in units of which Cycle make one *)
(* step cycle. SCALAR_EPSILON is smaller than any tick: subtracting it     *)
(* from a time or a phase means the value just before.                     *)
(*                                                                         *)
(* Definitions named Faulty... are what the definition that follows them   *)
(* would be with a plausible mistake; they are not part of the model.      *)
(***************************************************************************)
EXTENDS Integers, Sequences, FiniteSets

CONSTANTS
  EndEffectors,   \* endEffectorNumber
  Cycle           \* phase units in one cycle

ASSUME EndEffectorsAssumption == EndEffectors \in Nat /\ EndEffectors >= 2
ASSUME CycleAssumption == Cycle \in Nat \ {0}

Abs(n) == IF n < 0 THEN -n ELSE n

Legs == 0 .. EndEffectors - 1

\* A gait: phase units per tick, the part of the cycle spent in swing, and
\* the phase offset of every leg but the first.
Gait == [rate : Nat, swing : 0 .. Cycle - 1, offsets : [1 .. EndEffectors - 1 -> 0 .. Cycle - 1]]

OffsetOf(g, leg) == IF leg = 0 THEN 0 ELSE g.offsets[leg]
LegPhase(g, phase, leg) == (phase + OffsetOf(g, leg)) % Cycle

\* The legs in stance when the phase of the first leg is phase, and those
\* in stance just before.
Stance(g, phase) == {leg \in Legs : LegPhase(g, phase, leg) >= g.swing}
StanceBefore(g, phase) ==
  {leg \in Legs : LegPhase(g, phase, leg) = 0 \/ LegPhase(g, phase, leg) > g.swing}

\* Never: what a division by a stepping frequency of 0 gives.
Never == 1000000
Ticks(phase, g) == IF g.rate = 0 THEN Never ELSE phase \div g.rate

\* getTimeToNextMode, from a normalized phase: the switch is seen at the first
\* tick that does not come before it.
TimeToNextMode(phase, g) ==
  LET left == IF phase < g.swing THEN g.swing - phase ELSE Cycle - phase
  IN  Ticks(left + g.rate - 1, g)

-----------------------------------------------------------------------------
(* GaitDynamicPhaseController: the list of [time, gait, phase], where phase *)
(* is the phase of the first leg when the gait begins at that time.         *)

\* utils::findIndexInTimeArray: how many of the times are before time.
IndexInTimes(times, time) == Cardinality({i \in DOMAIN times : times[i] < time})

ChangeTimes(changes) == [i \in DOMAIN changes |-> changes[i].time]

\* The change in force just before time, the first one at its own time.
ChangeBefore(changes, time) ==
  LET index == IndexInTimes(ChangeTimes(changes), time)
  IN  changes[IF index = 0 THEN 1 ELSE index]

PhaseAt(changes, time) ==
  LET c == ChangeBefore(changes, time) IN c.phase + (time - c.time) * c.gait.rate

ContactFlagsAt(changes, time) ==
  StanceBefore(ChangeBefore(changes, time).gait, PhaseAt(changes, time))

\* remove: forget the changes that are over at time.
RemoveBefore(changes, time) ==
  LET index == IndexInTimes(ChangeTimes(changes), time)
  IN  IF index = 0 THEN changes ELSE SubSeq(changes, index, Len(changes))

\* update: gait g begins at time, at the phase the last gait has then.
FaultyAddChange(changes, time, g) ==
  LET last == changes[Len(changes)]
  IN  Append(changes, [time |-> time, gait |-> g,
                       phase |-> last.phase + (last.time - time) * last.gait.rate])
AddChange(changes, time, g) ==
  LET last == changes[Len(changes)]
  IN  Append(changes, [time |-> time, gait |-> g,
                       phase |-> last.phase + (time - last.time) * last.gait.rate])
=============================================================================
