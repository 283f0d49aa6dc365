--------------------------- MODULE ModeTemplate ---------------------------
(***************************************************************************)
(* getDynamicModeSequenceTemplate: the modes of one gait from a phase on,  *)
(* as a sequence of [mode, duration] that covers a horizon. A mode is the  *)
(* set of legs in stance.                                                  *)
(***************************************************************************)
EXTENDS GaitPhases, FiniteSetsExt

CONSTANTS
  MinRate,   \* minimumSteppingFrequency, in phase units per tick
  MinTime    \* MIN_TIME_BETWEEN_CHANGES, in ticks

ASSUME MinRateAssumption == MinRate \in Nat
ASSUME MinTimeAssumption == MinTime \in Nat \ {0}

\* The time a leg spends in stance, or in swing, in one cycle.
Duration(g, stance) == Ticks(IF stance THEN Cycle - g.swing ELSE g.swing, g)

\* The loop that merges switches ends: a leg stays at least MinTime in stance
\* or in swing.
Steppable(g) ==
  g.rate > MinRate => \E stance \in BOOLEAN : Duration(g, stance) >= MinTime

\* Whether a leg is in stance after a switch: a mode shorter than MinTime is
\* left again in the same switch.
AfterSwitch(g, stance) == IF Duration(g, ~stance) >= MinTime THEN ~stance ELSE stance

\* Where the loop stands: the modes it has left, the legs in stance, since when, and
\* the queue of the time at which each leg switches next.
FirstMode(g, phase) ==
  [pieces |-> <<>>, mode |-> Stance(g, phase), time |-> 0,
   queue |-> {[leg |-> leg, time |-> TimeToNextMode(LegPhase(g, phase, leg), g)] : leg \in Legs}]

\* The legs due within MinTime of the first switch switch at its time, and count
\* their next mode from there.
FirstSwitch(m) == Min({entry.time : entry \in m.queue})
Due(m) == {entry \in m.queue : entry.time - FirstSwitch(m) < MinTime}

Requeued(g, m, entry) ==
  [leg |-> entry.leg,
   time |-> FirstSwitch(m) + Duration(g, AfterSwitch(g, entry.leg \in m.mode))]

NextMode(g, m) ==
  LET due == {entry.leg : entry \in Due(m)}
  IN  [pieces |-> Append(m.pieces, [mode |-> m.mode, duration |-> FirstSwitch(m) - m.time]),
       mode |-> {leg \in Legs : IF leg \in due THEN AfterSwitch(g, leg \in m.mode)
                                                ELSE leg \in m.mode},
       time |-> FirstSwitch(m),
       queue |-> (m.queue \ Due(m)) \cup {Requeued(g, m, entry) : entry \in Due(m)}]

\* The loop: every mode lasts a tick at least, so that horizon of them suffice.
UntilTime(horizon, g, m) == IF m.time >= horizon THEN m ELSE NextMode(g, m)

ModesFrom(g, phase, horizon) ==
  LET after[n \in 0 .. horizon] ==
        IF n = 0 THEN FirstMode(g, phase) ELSE UntilTime(horizon, g, after[n - 1])
  IN  after

\* At or below the minimum frequency the robot stays in its current mode.
Template(g, phase, horizon) ==
  IF g.rate <= MinRate
  THEN <<[mode |-> Stance(g, phase), duration |-> horizon]>>
  ELSE ModesFrom(g, phase, horizon)[horizon].pieces
=============================================================================
