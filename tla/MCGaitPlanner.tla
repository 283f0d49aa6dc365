--------------------------- MODULE MCGaitPlanner ---------------------------
(* Instances of GaitPlanner for TLC: gaits of three legs.                   *)
EXTENDS GaitPlanner

GaitOf(rate, swing, second, third) ==
  [rate |-> rate, swing |-> swing, offsets |-> <<second, third>>]

Idle == GaitOf(0, 4, 0, 0)         \* the gait of the demos at start
Stand == GaitOf(0, 0, 0, 0)        \* a frequency and a swing ratio of 0
Walk == GaitOf(2, 6, 4, 10)        \* every leg by itself
Trot == GaitOf(2, 6, 8, 10)        \* two legs within MinTime: clamped to one offset
Hop == GaitOf(1, 2, 0, 0)          \* a stance longer than the plan after a change

MixedGaits == {Stand, Walk, Trot, Hop}

\* Two legs against the third, at a swing ratio of a half: with this gait and a stand
\* asked for, no switch is ever merged.
HalfTrot == GaitOf(2, 8, 8, 0)
Unmerging == INSTANCE GaitPlanner WITH Gaits <- {Stand, HalfTrot}, InitGait <- Idle

ASSUME UnmergedGaitsExist == Unmerging!NothingMerged

\* A gait that only gives two legs a new offset, at a frequency of 0.
HeldGaits == {Stand, GaitOf(0, 4, 8, 8)}
=============================================================================
