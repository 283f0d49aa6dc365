------------------------ MODULE GaitFollowing_proofs ------------------------
(***************************************************************************)
(* The mode schedule and the phase controller of GaitPlanner agree         *)
(* (ModesFollowPhases) for every number of legs, every horizon and every   *)
(* set of gaits whose switches are never merged (NothingMerged). The mode  *)
(* template plays its gait tick by tick, a generation tiles it from the    *)
(* phase the controller has then, and a change takes over that phase.      *)
(***************************************************************************)
EXTENDS GaitPlanner_proofs

-----------------------------------------------------------------------------
(* One leg from a tick to the next.                                        *)

\* A remainder and a quotient are what they are put together from.
LEMMA RemainderUnique ==
  ASSUME NEW n \in Nat \ {0}, NEW q \in Int, NEW z \in 0 .. n - 1
  PROVE  (q * n + z) % n = z /\ (q * n + z) \div n = q
OBVIOUS

\* Going on by part of a cycle goes around at most once.
LEMMA PhaseAdvances ==
  ASSUME NEW x \in Int, NEW r \in 0 .. Cycle
  PROVE  LET y == x % Cycle
         IN (x + r) % Cycle = IF y + r < Cycle THEN y + r ELSE y + r - Cycle
<1> DEFINE y == x % Cycle
           q == x \div Cycle
<1>1. x = q * Cycle + y /\ y \in 0 .. Cycle - 1 /\ q \in Int
  BY CycleAssumption
<1> HIDE DEF y, q
<1>2. CASE y + r < Cycle
  <2>1. x + r = q * Cycle + (y + r) /\ y + r \in 0 .. Cycle - 1
    BY <1>1, <1>2, CycleAssumption
  <2>2. (q * Cycle + (y + r)) % Cycle = y + r
    BY <1>1, <2>1, CycleAssumption, RemainderUnique
  <2> QED
    BY <1>2, <2>1, <2>2 DEF y
<1>3. CASE ~(y + r < Cycle)
  <2>1. x + r = (q + 1) * Cycle + (y + r - Cycle) /\ y + r - Cycle \in 0 .. Cycle - 1 /\ q + 1 \in Int
    BY <1>1, <1>3, CycleAssumption
  <2>2. ((q + 1) * Cycle + (y + r - Cycle)) % Cycle = y + r - Cycle
    BY <1>1, <2>1, CycleAssumption, RemainderUnique
  <2> QED
    BY <1>3, <2>1, <2>2 DEF y
<1> QED
  BY <1>2, <1>3 DEF y

\* A leg that waits longer than a tick is a tick closer to its switch after it; one that
\* does not, switches, and stays for the whole of its next mode.
LEMMA WaitShrinks ==
  ASSUME NEW r \in Nat \ {0}, NEW left \in Nat \ {0}, NEW k \in Nat
  PROVE  /\ left > r => (left + r - 1) \div r > 1 /\ (left - r + r - 1) \div r = (left + r - 1) \div r - 1
         /\ left <= r => (left + r - 1) \div r = 1 /\ (k * r - (r - left) + r - 1) \div r = k
<1> DEFINE q == (left + r - 1) \div r
           z == (left + r - 1) % r
<1>1. left + r - 1 = q * r + z /\ z \in 0 .. r - 1 /\ q \in Int
  OBVIOUS
<1> HIDE DEF q, z
<1>2. CASE left > r
  <2>1. left - r + r - 1 = (q - 1) * r + z /\ q - 1 \in Int
    BY <1>1
  <2>2. ((q - 1) * r + z) \div r = q - 1
    BY <1>1, <2>1, RemainderUnique
  <2>3. q > 1
    <3> SUFFICES ASSUME q <= 1 PROVE FALSE
      BY <1>1
    <3>1. q * r <= r
      BY <1>1
    <3> QED
      BY <1>1, <1>2, <3>1
  <2> QED
    BY <1>2, <2>1, <2>2, <2>3 DEF q
<1>3. CASE left <= r
  <2>1. left + r - 1 = 1 * r + (left - 1) /\ left - 1 \in 0 .. r - 1 /\ k * r - (r - left) + r - 1 = k * r + (left - 1)
    BY <1>3
  <2>2. (1 * r + (left - 1)) \div r = 1 /\ (k * r + (left - 1)) \div r = k
    BY <2>1, RemainderUnique
  <2> QED
    BY <1>3, <2>1, <2>2
<1> QED
  BY <1>2, <1>3

\* The two modes of a leg of such a gait.
LEMMA RegularModes ==
  ASSUME NEW g \in Gait, Regular(g)
  PROVE  /\ g.rate \in Nat \ {0} /\ g.swing \in Nat /\ Cycle - g.swing \in Nat /\ Cycle \in Nat \ {0}
         /\ Duration(g, FALSE) \in Nat \ {0} /\ g.swing = Duration(g, FALSE) * g.rate
         /\ Duration(g, TRUE) \in Nat \ {0} /\ Cycle - g.swing = Duration(g, TRUE) * g.rate
         /\ g.rate <= g.swing /\ g.rate <= Cycle - g.swing
<1>1. g.rate \in Nat \ {0} /\ g.swing \in 0 .. Cycle - 1
  BY MinRateAssumption DEF Regular, Gait
<1>2. Duration(g, FALSE) = g.swing \div g.rate /\ Duration(g, TRUE) = (Cycle - g.swing) \div g.rate
  BY <1>1 DEF Duration, Ticks
<1>3. Duration(g, FALSE) >= MinTime /\ Duration(g, TRUE) >= MinTime
  BY DEF Regular
<1>4. Duration(g, FALSE) \in Nat /\ Duration(g, TRUE) \in Nat
  BY DurationType
<1>5. Duration(g, FALSE) \in Nat \ {0} /\ Duration(g, TRUE) \in Nat \ {0}
  <2>1. \A d \in Nat : d >= MinTime => d \in Nat \ {0}
    BY MinTimeAssumption
  <2> QED
    BY <1>3, <1>4, <2>1
<1>6. \A n \in Nat, r \in Nat \ {0} : n % r = 0 => n = (n \div r) * r
  OBVIOUS
<1>7. \A n, m \in Nat, r \in Nat \ {0} : m <= n /\ n % r = 0 /\ m % r = 0 => (n - m) % r = 0
  <2> SUFFICES ASSUME NEW n \in Nat, NEW m \in Nat, NEW r \in Nat \ {0}, m <= n, n % r = 0, m % r = 0
               PROVE  (n - m) % r = 0
    OBVIOUS
  <2> DEFINE a == n \div r
             b == m \div r
  <2>1. a \in Int /\ b \in Int /\ n = a * r /\ m = b * r
    BY <1>6
  <2> HIDE DEF a, b
  <2>2. n - m = (a - b) * r + 0 /\ a - b \in Int /\ 0 \in 0 .. r - 1
    BY <2>1
  <2> QED
    BY <2>2, RemainderUnique
<1>8. g.swing % g.rate = 0 /\ Cycle % g.rate = 0
  BY DEF Regular
<1>9. (Cycle - g.swing) % g.rate = 0
  BY <1>1, <1>7, <1>8, CycleAssumption
<1>10. /\ g.swing = Duration(g, FALSE) * g.rate /\ Cycle - g.swing = Duration(g, TRUE) * g.rate
       /\ g.swing \in Nat /\ Cycle - g.swing \in Nat /\ Cycle \in Nat \ {0}
  <2>1. g.swing \in Nat /\ Cycle - g.swing \in Nat /\ Cycle \in Nat \ {0}
    BY <1>1, CycleAssumption
  <2>2. g.swing = (g.swing \div g.rate) * g.rate
    BY <1>1, <1>6, <1>8, <2>1
  <2>3. Cycle - g.swing = ((Cycle - g.swing) \div g.rate) * g.rate
    BY <1>1, <1>6, <1>9, <2>1
  <2> QED
    BY <1>2, <2>1, <2>2, <2>3
<1>11. \A d, r \in Nat \ {0} : r <= d * r
  OBVIOUS
<1>12. g.rate <= g.swing /\ g.rate <= Cycle - g.swing
  BY <1>1, <1>5, <1>10, <1>11
<1> QED
  BY <1>1, <1>5, <1>10, <1>12

\* The legs in stance j ticks after a phase, and how long a leg then waits for its next
\* switch.
StanceAfter(g, phase, j) == Stance(g, phase + j * g.rate)
WaitAfter(g, phase, j, leg) == TimeToNextMode(LegPhase(g, phase + j * g.rate, leg), g)

\* One leg, one tick.
LEMMA LegTicks ==
  ASSUME NEW g \in Gait, Regular(g), NEW x \in 0 .. Cycle - 1
  PROVE  LET y == (x + g.rate) % Cycle
             wait == TimeToNextMode(x, g)
         IN  /\ y \in 0 .. Cycle - 1 /\ wait \in Nat \ {0}
             /\ wait > 1 => /\ y >= g.swing <=> x >= g.swing
                            /\ y = 0 \/ y > g.swing <=> x >= g.swing
                            /\ TimeToNextMode(y, g) = wait - 1
             /\ wait = 1 => /\ y >= g.swing <=> x < g.swing
                            /\ TimeToNextMode(y, g) = Duration(g, y >= g.swing)
<1> DEFINE r == g.rate
           y == (x + r) % Cycle
           left == IF x < g.swing THEN g.swing - x ELSE Cycle - x
           more == IF y < g.swing THEN g.swing - y ELSE Cycle - y
           swings == Duration(g, FALSE)
           stands == Duration(g, TRUE)
           wait == TimeToNextMode(x, g)
<1>1. /\ r \in Nat \ {0} /\ g.swing \in Nat /\ Cycle - g.swing \in Nat /\ Cycle \in Nat \ {0}
      /\ swings \in Nat \ {0} /\ g.swing = swings * r
      /\ stands \in Nat \ {0} /\ Cycle - g.swing = stands * r
      /\ r <= g.swing /\ r <= Cycle - g.swing
  BY RegularModes
<1>2. y = IF x + r < Cycle THEN x + r ELSE x + r - Cycle
  <2>0. r \in Nat /\ g.swing \in Nat /\ Cycle - g.swing \in Nat /\ Cycle \in Nat /\ r <= g.swing
    BY <1>1
  <2>1. x \in Int /\ r \in 0 .. Cycle /\ x = 0 * Cycle + x /\ 0 \in Int
    BY <2>0
  <2>2. x % Cycle = x
    BY <1>1, <2>1, RemainderUnique
  <2> QED
    BY <2>1, <2>2, PhaseAdvances
<1>3. wait = (left + r - 1) \div r /\ TimeToNextMode(y, g) = (more + r - 1) \div r
  BY <1>1 DEF TimeToNextMode, Ticks
<1>4. \A stance \in BOOLEAN : Duration(g, stance) = IF stance THEN stands ELSE swings
  OBVIOUS
<1> HIDE DEF y, wait, stands, swings
<1>5. x \in Nat /\ x < Cycle
  BY <1>1
<1> HIDE DEF r
<1>6. y \in 0 .. Cycle - 1 /\ left \in Nat \ {0}
  BY <1>1, <1>2, <1>5
<1>7. wait \in Nat \ {0} /\ (left > r => wait > 1) /\ (left <= r => wait = 1)
  BY <1>1, <1>3, <1>6, NextModeLater, WaitShrinks DEF wait
<1>8. CASE left > r
  <2>1. /\ y >= g.swing <=> x >= g.swing
        /\ y = 0 \/ y > g.swing <=> x >= g.swing
        /\ more = left - r
    BY <1>1, <1>2, <1>5, <1>8
  <2>2. (left - r + r - 1) \div r = (left + r - 1) \div r - 1
    BY <1>1, <1>6, <1>8, WaitShrinks
  <2>3. TimeToNextMode(y, g) = wait - 1
    BY <1>3, <2>1, <2>2
  <2> QED
    BY <1>6, <1>7, <1>8, <2>1, <2>3 DEF y, wait, r
<1>9. CASE left <= r
  <2>1. y >= g.swing <=> x < g.swing
    BY <1>1, <1>2, <1>5, <1>9
  <2>2. \A k \in Nat : (k * r - (r - left) + r - 1) \div r = k
    BY <1>1, <1>6, <1>9, WaitShrinks
  <2>3. ASSUME x < g.swing PROVE TimeToNextMode(y, g) = Duration(g, y >= g.swing)
    <3>1. more = (Cycle - g.swing) - (r - left)
      BY <1>1, <1>2, <1>5, <1>9, <2>3
    <3>2. more = stands * r - (r - left)
      BY <1>1, <3>1
    <3>3. TimeToNextMode(y, g) = stands
      BY <1>1, <1>3, <2>2, <3>2
    <3>4. (y >= g.swing) = TRUE
      BY <2>1, <2>3
    <3> QED
      BY <3>3, <3>4 DEF stands
  <2>4. ASSUME ~(x < g.swing) PROVE TimeToNextMode(y, g) = Duration(g, y >= g.swing)
    <3>1. more = g.swing - (r - left)
      BY <1>1, <1>2, <1>5, <1>9, <2>4
    <3>2. more = swings * r - (r - left)
      BY <1>1, <3>1
    <3>3. TimeToNextMode(y, g) = swings
      BY <1>1, <1>3, <2>2, <3>2
    <3>4. (y >= g.swing) = FALSE
      BY <2>1, <2>4
    <3> QED
      BY <3>3, <3>4 DEF swings
  <2>5. TimeToNextMode(y, g) = Duration(g, y >= g.swing)
    BY <2>3, <2>4
  <2> QED
    BY <1>6, <1>7, <1>9, <2>1, <2>5 DEF y, wait, r
<1> QED
  BY <1>1, <1>6, <1>8, <1>9

\* Any leg, from any phase.
LEMMA TickAfter ==
  ASSUME NEW g \in Gait, Regular(g), NEW phase \in Int, NEW j \in Int, NEW leg \in Legs
  PROVE  LET wait == WaitAfter(g, phase, j, leg)
             now == leg \in StanceAfter(g, phase, j)
             next == leg \in StanceAfter(g, phase, j + 1)
         IN  /\ wait \in Nat \ {0}
             /\ wait > 1 => /\ next <=> now
                            /\ leg \in StanceBefore(g, phase + (j + 1) * g.rate) <=> now
                            /\ WaitAfter(g, phase, j + 1, leg) = wait - 1
             /\ wait = 1 => /\ next <=> ~now
                            /\ WaitAfter(g, phase, j + 1, leg) = Duration(g, next)
<1> DEFINE here == phase + j * g.rate
           there == phase + (j + 1) * g.rate
           x == LegPhase(g, here, leg)
           y == LegPhase(g, there, leg)
<1>1. g.rate \in Nat /\ g.rate <= Cycle /\ Cycle \in Nat
  <2>1. g.rate \in Nat /\ g.swing \in Nat /\ Cycle - g.swing \in Nat /\ Cycle \in Nat /\ g.rate <= g.swing
    BY RegularModes
  <2> QED
    BY <2>1
<1>2. OffsetOf(g, leg) \in Int
  BY EndEffectorsAssumption, CycleAssumption DEF OffsetOf, Gait, Legs
<1>3. here \in Int /\ there = here + g.rate
  BY <1>1
<1> HIDE DEF here, there
<1>4. x \in 0 .. Cycle - 1
  BY <1>3, PhaseOfLeg
<1>5. y = (x + g.rate) % Cycle
  <2> DEFINE z == here + OffsetOf(g, leg)
  <2>1. z \in Int /\ x = z % Cycle /\ y = (z + g.rate) % Cycle
    BY <1>1, <1>2, <1>3 DEF LegPhase
  <2>2. x % Cycle = x
    <3>1. x = 0 * Cycle + x /\ 0 \in Int
      BY <1>1, <1>4
    <3> QED
      BY <1>4, <3>1, CycleAssumption, RemainderUnique
  <2>0. g.rate \in 0 .. Cycle
    BY <1>1
  <2> HIDE DEF z
  <2>3. (z + g.rate) % Cycle = IF x + g.rate < Cycle THEN x + g.rate ELSE x + g.rate - Cycle
    <3> HIDE DEF x, y
    <3> QED
      BY <2>0, <2>1, PhaseAdvances
  <2>4. (x + g.rate) % Cycle = IF x + g.rate < Cycle THEN x + g.rate ELSE x + g.rate - Cycle
    <3> HIDE DEF x, y
    <3>1. x \in Int
      BY <1>4
    <3> QED
      BY <2>0, <2>2, <3>1, PhaseAdvances
  <2> QED
    BY <2>1, <2>3, <2>4
<1>6. /\ leg \in StanceAfter(g, phase, j) <=> x >= g.swing
      /\ leg \in StanceAfter(g, phase, j + 1) <=> y >= g.swing
      /\ leg \in StanceBefore(g, there) <=> y = 0 \/ y > g.swing
      /\ WaitAfter(g, phase, j, leg) = TimeToNextMode(x, g)
      /\ WaitAfter(g, phase, j + 1, leg) = TimeToNextMode(y, g)
  BY DEF StanceAfter, WaitAfter, Stance, StanceBefore, here, there
<1> HIDE DEF x, y
<1>7. /\ y \in 0 .. Cycle - 1 /\ TimeToNextMode(x, g) \in Nat \ {0}
      /\ TimeToNextMode(x, g) > 1 => /\ y >= g.swing <=> x >= g.swing
                                     /\ y = 0 \/ y > g.swing <=> x >= g.swing
                                     /\ TimeToNextMode(y, g) = TimeToNextMode(x, g) - 1
      /\ TimeToNextMode(x, g) = 1 => /\ y >= g.swing <=> x < g.swing
                                     /\ TimeToNextMode(y, g) = Duration(g, y >= g.swing)
  BY <1>4, <1>5, LegTicks
<1>8. x < g.swing <=> ~(x >= g.swing)
  BY <1>4 DEF Gait
<1>9. (leg \in StanceAfter(g, phase, j + 1)) = (y >= g.swing)
  BY <1>6
<1>10. Duration(g, leg \in StanceAfter(g, phase, j + 1)) = Duration(g, y >= g.swing)
  BY <1>9
<1> QED
  BY <1>6, <1>7, <1>8, <1>10 DEF there

\* A leg keeps its mode for as long as it waits.
LEMMA TicksAfter ==
  ASSUME NEW g \in Gait, Regular(g), NEW phase \in Int, NEW j \in Int, NEW leg \in Legs
  PROVE  LET wait == WaitAfter(g, phase, j, leg)
             now == leg \in StanceAfter(g, phase, j)
         IN  /\ wait \in Nat \ {0}
             /\ \A i \in 0 .. wait - 1 : /\ leg \in StanceAfter(g, phase, j + i) <=> now
                                         /\ WaitAfter(g, phase, j + i, leg) = wait - i
             /\ leg \in StanceAfter(g, phase, j + wait) <=> ~now
             /\ WaitAfter(g, phase, j + wait, leg) = Duration(g, ~now)
<1> DEFINE wait == WaitAfter(g, phase, j, leg)
           now == leg \in StanceAfter(g, phase, j)
           T == {i \in Nat : i < wait => /\ leg \in StanceAfter(g, phase, j + i) <=> now
                                         /\ WaitAfter(g, phase, j + i, leg) = wait - i}
<1>1. wait \in Nat \ {0}
  BY TickAfter
<1>2. 0 \in T
  BY <1>1
<1>3. \A i \in T : i + 1 \in T
  <2> SUFFICES ASSUME NEW i \in Nat, i + 1 < wait, leg \in StanceAfter(g, phase, j + i) <=> now,
                      WaitAfter(g, phase, j + i, leg) = wait - i
               PROVE  /\ leg \in StanceAfter(g, phase, j + (i + 1)) <=> now
                      /\ WaitAfter(g, phase, j + (i + 1), leg) = wait - (i + 1)
    BY <1>1
  <2> HIDE DEF wait, now
  <2>1. j + i \in Int /\ (j + i) + 1 = j + (i + 1) /\ wait - i > 1 /\ (wait - i) - 1 = wait - (i + 1)
    BY <1>1
  <2>2. /\ leg \in StanceAfter(g, phase, (j + i) + 1) <=> leg \in StanceAfter(g, phase, j + i)
        /\ WaitAfter(g, phase, (j + i) + 1, leg) = WaitAfter(g, phase, j + i, leg) - 1
    BY <2>1, TickAfter
  <2> QED
    BY <2>1, <2>2
<1>4. \A i \in Nat : i \in T
  <2> HIDE DEF T
  <2>1. T \in SUBSET Nat
    BY DEF T
  <2> QED
    BY <1>2, <1>3, <2>1, SetInduction
<1> HIDE DEF wait, now
<1>5. \A i \in 0 .. wait - 1 : /\ leg \in StanceAfter(g, phase, j + i) <=> now
                               /\ WaitAfter(g, phase, j + i, leg) = wait - i
  BY <1>1, <1>4
<1> DEFINE i == wait - 1
<1>6. i \in 0 .. wait - 1 /\ j + i \in Int /\ (j + i) + 1 = j + wait /\ wait - i = 1
  BY <1>1
<1> HIDE DEF i
<1>7. /\ leg \in StanceAfter(g, phase, j + i) <=> now
      /\ WaitAfter(g, phase, j + i, leg) = 1
  BY <1>5, <1>6
<1>8. /\ leg \in StanceAfter(g, phase, (j + i) + 1) <=> ~(leg \in StanceAfter(g, phase, j + i))
      /\ WaitAfter(g, phase, (j + i) + 1, leg) = Duration(g, leg \in StanceAfter(g, phase, (j + i) + 1))
  BY <1>6, <1>7, TickAfter
<1>9. (leg \in StanceAfter(g, phase, j + wait)) = ~now
  BY <1>6, <1>7, <1>8 DEF now
<1>10. Duration(g, leg \in StanceAfter(g, phase, j + wait)) = Duration(g, ~now)
  BY <1>9
<1> QED
  BY <1>1, <1>5, <1>6, <1>8, <1>9, <1>10 DEF wait, now

\* Going round the cycle changes no leg.
LEMMA PhaseAround ==
  ASSUME NEW g \in Gait, NEW phase \in Int, NEW leg \in Legs
  PROVE  phase % Cycle \in 0 .. Cycle - 1 /\ LegPhase(g, phase % Cycle, leg) = LegPhase(g, phase, leg)
<1> DEFINE o == OffsetOf(g, leg)
           y == phase % Cycle
           q == phase \div Cycle
           z == (y + o) % Cycle
           p == (y + o) \div Cycle
<1>1. o \in Int
  BY EndEffectorsAssumption, CycleAssumption DEF OffsetOf, Gait, Legs
<1> HIDE DEF o
<1>2. phase = q * Cycle + y /\ y \in 0 .. Cycle - 1 /\ q \in Int
  BY CycleAssumption
<1> HIDE DEF y, q
<1>3. y + o = p * Cycle + z /\ z \in 0 .. Cycle - 1 /\ p \in Int
  BY <1>1, <1>2, CycleAssumption
<1>4. LegPhase(g, y, leg) = z
  BY DEF LegPhase, o
<1> HIDE DEF z, p
<1>5. phase + o = (q + p) * Cycle + z /\ q + p \in Int
  BY <1>1, <1>2, <1>3, CycleAssumption
<1>6. (phase + o) % Cycle = z
  BY <1>3, <1>5, CycleAssumption, RemainderUnique
<1> QED
  BY <1>2, <1>4, <1>6 DEF LegPhase, o, y

\* The next switches of two legs coincide or are MinTime apart, at every tick.
LEMMA WaitsApart ==
  ASSUME NEW g \in Gait, Regular(g), NEW phase \in Int, NEW j \in Int, NEW leg \in Legs, NEW other \in Legs
  PROVE  \/ WaitAfter(g, phase, j, leg) = WaitAfter(g, phase, j, other)
         \/ Abs(WaitAfter(g, phase, j, leg) - WaitAfter(g, phase, j, other)) >= MinTime
<1> DEFINE here == phase + j * g.rate
           x == here % Cycle
<1>1. here \in Int
  BY DEF Gait
<1> HIDE DEF here
<1>2. x \in 0 .. Cycle - 1 /\ \A l \in Legs : LegPhase(g, x, l) = LegPhase(g, here, l)
  BY <1>1, PhaseAround
<1> HIDE DEF x
<1>3. LET Wait(l) == TimeToNextMode(LegPhase(g, x, l), g)
      IN  Wait(leg) = Wait(other) \/ Abs(Wait(leg) - Wait(other)) >= MinTime
  BY <1>2 DEF Regular
<1>4. \A l \in Legs : WaitAfter(g, phase, j, l) = TimeToNextMode(LegPhase(g, x, l), g)
  BY <1>2 DEF WaitAfter, here
<1> QED
  BY <1>3, <1>4

\* A leg waits no longer than its mode lasts.
LEMMA WaitBounded ==
  ASSUME NEW g \in Gait, Regular(g), NEW x \in 0 .. Cycle - 1
  PROVE  \E stance \in BOOLEAN : TimeToNextMode(x, g) <= Duration(g, stance)
<1> DEFINE r == g.rate
           left == IF x < g.swing THEN g.swing - x ELSE Cycle - x
           swings == Duration(g, FALSE)
           stands == Duration(g, TRUE)
<1>1. /\ r \in Nat \ {0} /\ g.swing \in Nat /\ Cycle - g.swing \in Nat /\ Cycle \in Nat \ {0}
      /\ swings \in Nat \ {0} /\ g.swing = swings * r
      /\ stands \in Nat \ {0} /\ Cycle - g.swing = stands * r
  BY RegularModes
<1>2. TimeToNextMode(x, g) = (left + r - 1) \div r
  BY <1>1 DEF TimeToNextMode, Ticks
<1> HIDE DEF r, swings, stands
<1>3. ASSUME NEW d \in Nat, left <= d * r PROVE (left + r - 1) \div r <= d
  <2> DEFINE q == (left + r - 1) \div r
             z == (left + r - 1) % r
  <2>1. left \in Nat
    BY <1>1
  <2>2. left + r - 1 = q * r + z /\ z \in 0 .. r - 1 /\ q \in Int
    BY <1>1, <2>1
  <2> HIDE DEF q, z, left
  <2> SUFFICES ASSUME q >= d + 1 PROVE FALSE
    BY <2>2 DEF q
  <2>3. q * r >= (d + 1) * r /\ (d + 1) * r = d * r + r
    BY <1>1, <2>2
  <2> QED
    BY <1>1, <1>3, <2>1, <2>2, <2>3
<1>4. left <= swings * r \/ left <= stands * r
  BY <1>1
<1>5. TimeToNextMode(x, g) <= swings \/ TimeToNextMode(x, g) <= stands
  BY <1>1, <1>2, <1>3, <1>4
<1> QED
  BY <1>5 DEF swings, stands

-----------------------------------------------------------------------------
(* The template of a gait no switch of which is merged.                    *)

\* The pieces last until end, each of them begins before the horizon, and at every tick
\* the legs in stance are those of the gait.
Plays(g, phase, pieces, end, horizon) ==
  \E at \in [0 .. Len(pieces) -> Nat] :
    /\ at[0] = 0 /\ at[Len(pieces)] = end
    /\ \A i \in 1 .. Len(pieces) : at[i] = at[i - 1] + pieces[i].duration /\ at[i - 1] < horizon
    /\ \A i \in 1 .. Len(pieces) : \A j \in at[i - 1] .. at[i] - 1 : pieces[i].mode = StanceAfter(g, phase, j)

\* A further piece from end to time.
LEMMA PlaysMore ==
  ASSUME NEW g, NEW phase, NEW horizon \in Nat, NEW pieces \in Seq(Pieces), NEW end \in Nat,
         NEW time \in Nat, NEW mode \in SUBSET Legs,
         Plays(g, phase, pieces, end, horizon), end < horizon, time > end,
         \A j \in end .. time - 1 : mode = StanceAfter(g, phase, j)
  PROVE  Plays(g, phase, Append(pieces, [mode |-> mode, duration |-> time - end]), time, horizon)
<1> DEFINE piece == [mode |-> mode, duration |-> time - end]
           n == Len(pieces)
           Played(from, to, p) == \A j \in from .. to - 1 : p.mode = StanceAfter(g, phase, j)
<1>1. PICK at \in [0 .. n -> Nat] :
             /\ at[0] = 0 /\ at[n] = end
             /\ \A i \in 1 .. n : at[i] = at[i - 1] + pieces[i].duration /\ at[i - 1] < horizon
             /\ \A i \in 1 .. n : Played(at[i - 1], at[i], pieces[i])
  BY DEF Plays
<1>2. piece \in Pieces /\ piece.duration = time - end /\ Played(end, time, piece)
  BY DEF Pieces
<1> HIDE DEF piece, Played
<1>3. /\ Append(pieces, piece) \in Seq(Pieces) /\ Len(Append(pieces, piece)) = n + 1 /\ n \in Nat
      /\ \A i \in 1 .. n : Append(pieces, piece)[i] = pieces[i]
      /\ Append(pieces, piece)[n + 1] = piece
  BY <1>2, AppendProperties
<1> DEFINE more == [i \in 0 .. n + 1 |-> IF i <= n THEN at[i] ELSE time]
<1>4. more \in [0 .. n + 1 -> Nat] /\ more[0] = 0 /\ more[n + 1] = time
  BY <1>1, <1>3
<1>5. ASSUME NEW i \in 1 .. n + 1
      PROVE  /\ more[i] = more[i - 1] + Append(pieces, piece)[i].duration /\ more[i - 1] < horizon
             /\ Played(more[i - 1], more[i], Append(pieces, piece)[i])
  <2>1. CASE i <= n
    <3>1. more[i] = at[i] /\ more[i - 1] = at[i - 1] /\ i \in 1 .. n
      BY <1>3, <2>1
    <3> QED
      BY <1>1, <1>3, <3>1
  <2>2. CASE i = n + 1
    <3>1. more[i] = time /\ more[i - 1] = end
      BY <1>1, <1>3, <2>2
    <3> QED
      BY <1>2, <1>3, <2>2, <3>1
  <2> QED
    BY <1>3, <2>1, <2>2
<1> HIDE DEF more
<1>6. Plays(g, phase, Append(pieces, piece), time, horizon)
  BY <1>3, <1>4, <1>5 DEF Plays, Played
<1> QED
  BY <1>6 DEF piece

\* Where the loop stands after that long: each leg is in the mode of the gait and queued
\* for the switch that ends it.
EntryAt(g, phase, time, leg) == [leg |-> leg, time |-> time + WaitAfter(g, phase, time, leg)]
InStep(g, phase, horizon) ==
  {m \in LoopState(horizon) :
     /\ m.mode = StanceAfter(g, phase, m.time)
     /\ m.queue = {EntryAt(g, phase, m.time, leg) : leg \in Legs}
     /\ Plays(g, phase, m.pieces, m.time, horizon)}

\* Nothing is played yet.
LEMMA NothingPlayed ==
  ASSUME NEW g, NEW phase, NEW horizon
  PROVE  Plays(g, phase, <<>>, 0, horizon)
<1> DEFINE at == [i \in 0 .. 0 |-> 0]
<1>1. at \in [0 .. 0 -> Nat] /\ at[0] = 0 /\ Len(<<>>) = 0
  OBVIOUS
<1>2. \A i \in 1 .. 0 : FALSE
  OBVIOUS
<1> HIDE DEF at
<1> QED
  BY <1>1, <1>2 DEF Plays

\* The loop begins in step with the gait.
LEMMA FirstInStep ==
  ASSUME NEW g \in Gait, Regular(g), NEW phase \in Int, NEW horizon \in Nat
  PROVE  FirstMode(g, phase) \in InStep(g, phase, horizon)
<1> DEFINE m == FirstMode(g, phase)
<1>1. m \in LoopState(horizon)
  BY FirstModeState
<1>2. /\ m.queue = {[leg |-> leg, time |-> TimeToNextMode(LegPhase(g, phase, leg), g)] : leg \in Legs}
      /\ m.time = 0 /\ m.pieces = <<>> /\ m.mode = Stance(g, phase)
  BY DEF FirstMode
<1> HIDE DEF m
<1>3. phase + 0 * g.rate = phase
  BY DEF Gait
<1>4. \A leg \in Legs : EntryAt(g, phase, 0, leg) = [leg |-> leg, time |-> TimeToNextMode(LegPhase(g, phase, leg), g)]
  <2> TAKE leg \in Legs
  <2>1. TimeToNextMode(LegPhase(g, phase, leg), g) \in Nat
    BY PhaseOfLeg, NextModeLater
  <2>2. WaitAfter(g, phase, 0, leg) = TimeToNextMode(LegPhase(g, phase, leg), g)
    BY <1>3 DEF WaitAfter
  <2> QED
    BY <2>1, <2>2 DEF EntryAt
<1>5. m.queue = {EntryAt(g, phase, m.time, leg) : leg \in Legs}
  BY <1>2, <1>4
<1>6. m.mode = StanceAfter(g, phase, m.time)
  BY <1>2, <1>3 DEF StanceAfter
<1>7. Plays(g, phase, m.pieces, m.time, horizon)
  BY <1>2, NothingPlayed
<1> QED
  BY <1>1, <1>5, <1>6, <1>7 DEF InStep, m

\* The legs that switch first are those that wait the least.
LEMMA FirstOfWaits ==
  ASSUME NEW g \in Gait, Regular(g), NEW phase \in Int, NEW horizon \in Nat, NEW m \in InStep(g, phase, horizon)
  PROVE  \E early \in Legs :
           LET wait == WaitAfter(g, phase, m.time, early)
           IN  /\ wait \in Nat \ {0} /\ FirstSwitch(m) = m.time + wait
               /\ \A leg \in Legs : wait <= WaitAfter(g, phase, m.time, leg)
               /\ Due(m) = {EntryAt(g, phase, m.time, leg) :
                              leg \in {l \in Legs : WaitAfter(g, phase, m.time, l) = wait}}
<1> DEFINE Wait(leg) == WaitAfter(g, phase, m.time, leg)
           times == {entry.time : entry \in m.queue}
           first == FirstSwitch(m)
<1>1. m.time \in Nat /\ m.queue = {EntryAt(g, phase, m.time, leg) : leg \in Legs}
  BY DEF InStep, LoopState
<1>2. \A leg \in Legs : Wait(leg) \in Nat \ {0}
  BY <1>1, TicksAfter
<1>3. \A leg \in Legs : EntryAt(g, phase, m.time, leg).time = m.time + Wait(leg)
  BY DEF EntryAt
<1>4. \A leg, other \in Legs : Wait(leg) = Wait(other) \/ Abs(Wait(leg) - Wait(other)) >= MinTime
  BY <1>1, WaitsApart
<1> HIDE DEF Wait
<1>5. times = {m.time + Wait(leg) : leg \in Legs}
  BY <1>1, <1>3
<1>6. 0 \in Legs
  BY EndEffectorsAssumption DEF Legs
<1>7. times \in SUBSET Nat /\ times # {}
  BY <1>1, <1>2, <1>5, <1>6
<1>8. first = Min(times)
  BY DEF FirstSwitch
<1> HIDE DEF times, first
<1>9. first \in times /\ \A time \in times : first <= time
  BY <1>7, <1>8, MinOfNumbers
<1>10. PICK early \in Legs : first = m.time + Wait(early)
  BY <1>5, <1>9
<1>11. \A leg \in Legs : Wait(early) <= Wait(leg)
  <2> TAKE leg \in Legs
  <2>1. m.time + Wait(leg) \in times
    BY <1>5
  <2> QED
    BY <1>1, <1>2, <1>9, <1>10, <2>1
<1>12. \A leg \in Legs : EntryAt(g, phase, m.time, leg).time - first < MinTime <=> Wait(leg) = Wait(early)
  <2> TAKE leg \in Legs
  <2>1. EntryAt(g, phase, m.time, leg).time - first = Wait(leg) - Wait(early)
    BY <1>1, <1>2, <1>3, <1>10
  <2>2. Wait(leg) = Wait(early) \/ Wait(leg) - Wait(early) >= MinTime
    BY <1>2, <1>4, <1>11 DEF Abs
  <2> QED
    BY <1>2, <2>1, <2>2, MinTimeAssumption
<1>13. Due(m) = {entry \in m.queue : entry.time - first < MinTime}
  BY DEF Due, first
<1>14. Due(m) = {EntryAt(g, phase, m.time, leg) : leg \in {l \in Legs : Wait(l) = Wait(early)}}
  BY <1>1, <1>12, <1>13
<1> QED
  BY <1>2, <1>10, <1>11, <1>14 DEF Wait, first

\* A pass of the loop stays in step.
LEMMA NextInStep ==
  ASSUME NEW g \in Gait, Regular(g), NEW phase \in Int, NEW horizon \in Nat,
         NEW m \in InStep(g, phase, horizon), m.time < horizon, NextMode(g, m) \in LoopState(horizon)
  PROVE  NextMode(g, m) \in InStep(g, phase, horizon)
<1> DEFINE Wait(leg) == WaitAfter(g, phase, m.time, leg)
           Now(leg) == leg \in StanceAfter(g, phase, m.time)
           next == NextMode(g, m)
           first == FirstSwitch(m)
<1>1. /\ m.time \in Nat /\ m.queue = {EntryAt(g, phase, m.time, leg) : leg \in Legs}
      /\ m.mode = StanceAfter(g, phase, m.time) /\ m.mode \in SUBSET Legs
      /\ m.pieces \in Seq(Pieces) /\ Plays(g, phase, m.pieces, m.time, horizon)
  BY DEF InStep, LoopState
<1>2. PICK early \in Legs :
             /\ Wait(early) \in Nat \ {0} /\ first = m.time + Wait(early)
             /\ \A leg \in Legs : Wait(early) <= Wait(leg)
             /\ Due(m) = {EntryAt(g, phase, m.time, leg) : leg \in {l \in Legs : Wait(l) = Wait(early)}}
  BY FirstOfWaits
<1> DEFINE wait == Wait(early)
<1>3. ASSUME NEW leg \in Legs
      PROVE  /\ Wait(leg) \in Nat \ {0}
             /\ \A i \in 0 .. Wait(leg) - 1 : /\ leg \in StanceAfter(g, phase, m.time + i) <=> Now(leg)
                                              /\ WaitAfter(g, phase, m.time + i, leg) = Wait(leg) - i
             /\ leg \in StanceAfter(g, phase, m.time + Wait(leg)) <=> ~Now(leg)
             /\ WaitAfter(g, phase, m.time + Wait(leg), leg) = Duration(g, ~Now(leg))
  <2>1. m.time \in Int
    BY <1>1
  <2> QED
    BY <2>1, TicksAfter
<1>4. /\ next.pieces = Append(m.pieces, [mode |-> m.mode, duration |-> first - m.time])
      /\ next.time = first
      /\ next.mode = {leg \in Legs : IF leg \in {entry.leg : entry \in Due(m)}
                                     THEN AfterSwitch(g, leg \in m.mode) ELSE leg \in m.mode}
      /\ next.queue = (m.queue \ Due(m)) \cup {Requeued(g, m, entry) : entry \in Due(m)}
  BY DEF NextMode, first
<1>5. \A leg \in Legs : AfterSwitch(g, leg \in m.mode) = ~Now(leg)
  <2> TAKE leg \in Legs
  <2>1. \A stance \in BOOLEAN : AfterSwitch(g, stance) = ~stance
    BY DEF Regular, AfterSwitch
  <2>2. Now(leg) \in BOOLEAN /\ (leg \in m.mode) = Now(leg)
    BY <1>1
  <2> QED
    BY <2>1, <2>2
<1>6. \A leg \in Legs : EntryAt(g, phase, m.time, leg).leg = leg
  BY DEF EntryAt
<1> HIDE DEF next, first, Wait, Now
<1>7. \A leg \in Legs : leg \in {entry.leg : entry \in Due(m)} <=> Wait(leg) = wait
  BY <1>2, <1>6
<1>8. \A leg \in Legs : /\ Wait(leg) # wait => wait \in 0 .. Wait(leg) - 1
                        /\ \A j \in m.time .. first - 1 : j - m.time \in 0 .. Wait(leg) - 1 /\ m.time + (j - m.time) = j
  BY <1>1, <1>2, <1>3
<1>9. next.mode = StanceAfter(g, phase, first)
  <2>1. \A leg \in Legs : leg \in next.mode <=> leg \in StanceAfter(g, phase, first)
    <3> TAKE leg \in Legs
    <3>1. CASE Wait(leg) = wait
      <4>1. leg \in next.mode <=> ~Now(leg)
        BY <1>4, <1>5, <1>7, <3>1
      <4> QED
        BY <1>2, <1>3, <3>1, <4>1
    <3>2. CASE Wait(leg) # wait
      <4>1. leg \in next.mode <=> leg \in m.mode
        BY <1>4, <1>7, <3>2
      <4>2. leg \in StanceAfter(g, phase, m.time + wait) <=> Now(leg)
        BY <1>3, <1>8, <3>2
      <4> QED
        BY <1>1, <1>2, <4>1, <4>2 DEF Now
    <3> QED
      BY <3>1, <3>2
  <2>2. next.mode \in SUBSET Legs /\ StanceAfter(g, phase, first) \in SUBSET Legs
    BY <1>4 DEF StanceAfter, Stance
  <2> QED
    BY <2>1, <2>2
<1>10. next.queue = {EntryAt(g, phase, first, leg) : leg \in Legs}
  <2> DEFINE due == {l \in Legs : Wait(l) = wait}
  <2>1. \A leg \in Legs \ due : EntryAt(g, phase, m.time, leg) = EntryAt(g, phase, first, leg)
    <3> TAKE leg \in Legs \ due
    <3>1. WaitAfter(g, phase, first, leg) = Wait(leg) - wait /\ Wait(leg) \in Nat /\ wait \in Nat
      BY <1>2, <1>3, <1>8
    <3>2. m.time + Wait(leg) = first + WaitAfter(g, phase, first, leg)
      BY <1>1, <1>2, <3>1
    <3> QED
      BY <3>2 DEF EntryAt, Wait
  <2>2. \A leg \in due : Requeued(g, m, EntryAt(g, phase, m.time, leg)) = EntryAt(g, phase, first, leg)
    <3> TAKE leg \in due
    <3>1. WaitAfter(g, phase, first, leg) = Duration(g, ~Now(leg))
      BY <1>2, <1>3
    <3>2. Requeued(g, m, EntryAt(g, phase, m.time, leg)) =
            [leg |-> leg, time |-> first + Duration(g, AfterSwitch(g, leg \in m.mode))]
      BY <1>6 DEF Requeued, first
    <3> QED
      BY <1>5, <3>1, <3>2 DEF EntryAt
  <2>3. m.queue \ Due(m) = {EntryAt(g, phase, m.time, leg) : leg \in Legs \ due}
    <3>1. \A leg, other \in Legs : EntryAt(g, phase, m.time, leg) = EntryAt(g, phase, m.time, other) => leg = other
      BY <1>6
    <3> QED
      BY <1>1, <1>2, <3>1
  <2>4. Due(m) = {EntryAt(g, phase, m.time, leg) : leg \in due}
    BY <1>2
  <2> HIDE DEF due
  <2>5. {Requeued(g, m, entry) : entry \in Due(m)} = {EntryAt(g, phase, first, leg) : leg \in due}
    BY <2>2, <2>4
  <2>6. m.queue \ Due(m) = {EntryAt(g, phase, first, leg) : leg \in Legs \ due}
    BY <2>1, <2>3
  <2>7. due \in SUBSET Legs
    BY DEF due
  <2> QED
    BY <1>4, <2>5, <2>6, <2>7
<1>11. \A j \in m.time .. first - 1 : m.mode = StanceAfter(g, phase, j)
  <2> TAKE j \in m.time .. first - 1
  <2>1. \A leg \in Legs : leg \in StanceAfter(g, phase, j) <=> Now(leg)
    BY <1>3, <1>8
  <2>2. StanceAfter(g, phase, j) \in SUBSET Legs
    BY DEF StanceAfter, Stance
  <2> QED
    BY <1>1, <2>1, <2>2 DEF Now
<1>12. Plays(g, phase, next.pieces, next.time, horizon)
  <2>1. first \in Nat /\ first > m.time
    BY <1>1, <1>2
  <2> QED
    BY <1>1, <1>4, <1>11, <2>1, PlaysMore
<1>13. next.mode = StanceAfter(g, phase, next.time) /\ next.queue = {EntryAt(g, phase, next.time, leg) : leg \in Legs}
  BY <1>4, <1>9, <1>10
<1> QED
  BY <1>12, <1>13 DEF InStep, next

\* A regular gait moves on with every mode.
LEMMA RegularSteps ==
  ASSUME NEW g \in Gait, Regular(g)
  PROVE  Steppable(g) /\ g.rate > MinRate
<1>1. g.rate > MinRate /\ \A stance \in BOOLEAN : Duration(g, stance) >= MinTime
  BY DEF Regular
<1> QED
  BY <1>1 DEF Steppable

\* A gait without swing has every leg in stance.
LEMMA NoSwing ==
  ASSUME NEW g \in Gait, g.swing = 0, NEW phase \in Int
  PROVE  Stance(g, phase) = Legs /\ StanceBefore(g, phase) = Legs
<1>1. \A leg \in Legs : LegPhase(g, phase, leg) \in 0 .. Cycle - 1
  BY PhaseOfLeg
<1>2. \A leg \in Legs : LegPhase(g, phase, leg) >= 0 /\ (LegPhase(g, phase, leg) = 0 \/ LegPhase(g, phase, leg) > 0)
  BY <1>1
<1> QED
  BY <1>2 DEF Stance, StanceBefore

\* The loop over such a gait.
Standing(g, phase, horizon) ==
  {m \in LoopState(horizon) : m.mode = Legs /\ Plays(g, phase, m.pieces, m.time, horizon)}

\* A pass of the loop over a gait without swing adds a stance.
LEMMA NextStands ==
  ASSUME NEW g \in Gait, Steppable(g), g.rate > MinRate, g.swing = 0, NEW phase \in Int, NEW horizon \in Nat,
         NEW m \in Standing(g, phase, horizon), m.time < horizon
  PROVE  NextMode(g, m) \in Standing(g, phase, horizon)
<1> DEFINE next == NextMode(g, m)
           first == FirstSwitch(m)
<1>1. /\ m \in LoopState(horizon) /\ m.time \in Nat /\ m.mode = Legs
      /\ m.pieces \in Seq(Pieces) /\ Plays(g, phase, m.pieces, m.time, horizon)
  BY DEF Standing, LoopState
<1>2. next \in LoopState(horizon) /\ next.time > m.time
  BY <1>1, NextModeState
<1>3. /\ next.pieces = Append(m.pieces, [mode |-> m.mode, duration |-> first - m.time])
      /\ next.time = first
      /\ next.mode = {leg \in Legs : IF leg \in {entry.leg : entry \in Due(m)}
                                     THEN AfterSwitch(g, leg \in m.mode) ELSE leg \in m.mode}
  BY DEF NextMode, first
<1>4. AfterSwitch(g, TRUE) = TRUE
  <2>1. g.rate \in Nat /\ g.rate # 0
    BY MinRateAssumption DEF Gait
  <2>2. \A r \in Nat \ {0} : 0 \div r = 0
    OBVIOUS
  <2>3. Duration(g, FALSE) = 0
    BY <2>1, <2>2 DEF Duration, Ticks
  <2>4. ~(0 >= MinTime)
    BY MinTimeAssumption
  <2>5. ~TRUE = FALSE
    OBVIOUS
  <2> QED
    BY <2>3, <2>4, <2>5, Zenon DEF AfterSwitch
<1>5. next.mode = Legs
  <2>1. \A leg \in Legs : (leg \in m.mode) = TRUE
    BY <1>1
  <2> QED
    BY <1>3, <1>4, <2>1
<1> HIDE DEF next, first
<1>6. \A j \in m.time .. first - 1 : m.mode = StanceAfter(g, phase, j)
  <2> TAKE j \in m.time .. first - 1
  <2>1. phase + j * g.rate \in Int
    BY <1>1 DEF Gait
  <2> QED
    BY <1>1, <2>1, NoSwing DEF StanceAfter
<1>7. first \in Nat /\ first > m.time
  BY <1>1, <1>2, <1>3 DEF LoopState
<1>8. Plays(g, phase, next.pieces, next.time, horizon)
  BY <1>1, <1>3, <1>6, <1>7, PlaysMore
<1> QED
  BY <1>2, <1>5, <1>8 DEF Standing, next

\* That loop begins with a stance.
LEMMA FirstStands ==
  ASSUME NEW g \in Gait, g.swing = 0, NEW phase \in Int, NEW horizon \in Nat
  PROVE  FirstMode(g, phase) \in Standing(g, phase, horizon)
<1> DEFINE m == FirstMode(g, phase)
<1>1. m \in LoopState(horizon)
  BY FirstModeState
<1>2. m.time = 0 /\ m.pieces = <<>> /\ m.mode = Stance(g, phase)
  BY DEF FirstMode
<1> HIDE DEF m
<1>3. m.mode = Legs /\ Plays(g, phase, m.pieces, m.time, horizon)
  BY <1>2, NoSwing, NothingPlayed
<1> QED
  BY <1>1, <1>3 DEF Standing, m

\* The gaits that no switch is merged of: held in one mode, all legs in stance, or
\* regular.
Exact(g) == g.rate = 0 \/ g.swing = 0 \/ Regular(g)

\* From a phase on, the template of such a gait has at every tick the legs in stance
\* that the gait has.
THEOREM TemplatePlays ==
  ASSUME NEW g \in Gait, Steppable(g), Exact(g), NEW phase \in Int, NEW horizon \in Nat \ {0}
  PROVE  \E end \in Nat : end >= horizon /\ Plays(g, phase, Template(g, phase, horizon), end, horizon)
<1>1. CASE g.rate <= MinRate
  <2> DEFINE piece == [mode |-> Stance(g, phase), duration |-> horizon - 0]
  <2>1. \A j \in 0 .. horizon - 1 : Stance(g, phase) = StanceAfter(g, phase, j)
    <3> TAKE j \in 0 .. horizon - 1
    <3>1. ~Regular(g)
      BY <1>1, MinRateAssumption DEF Regular, Gait
    <3>2. CASE g.rate = 0
      BY <3>2 DEF StanceAfter
    <3>3. CASE g.swing = 0
      <4>1. phase + j * g.rate \in Int
        BY DEF Gait
      <4> QED
        BY <3>3, <4>1, NoSwing DEF StanceAfter
    <3> QED
      BY <3>1, <3>2, <3>3 DEF Exact
  <2>2. Stance(g, phase) \in SUBSET Legs /\ <<>> \in Seq(Pieces) /\ 0 \in Nat /\ horizon \in Nat /\ 0 < horizon
    BY DEF Stance
  <2>3. Plays(g, phase, Append(<<>>, piece), horizon, horizon)
    BY <2>1, <2>2, NothingPlayed, PlaysMore
  <2>4. Template(g, phase, horizon) = Append(<<>>, piece)
    BY <1>1 DEF Template
  <2> QED
    BY <2>3, <2>4
<1>2. CASE g.rate > MinRate
  <2> DEFINE after == ModesFrom(g, phase, horizon)
             S == IF g.swing = 0 THEN Standing(g, phase, horizon) ELSE InStep(g, phase, horizon)
  <2>1. g.swing = 0 \/ (g.swing # 0 /\ Regular(g))
    BY <1>2, MinRateAssumption DEF Exact, Gait
  <2>2. S \in SUBSET LoopState(horizon) /\ \A m \in S : Plays(g, phase, m.pieces, m.time, horizon)
    BY DEF Standing, InStep
  <2>3. FirstMode(g, phase) \in S
    BY <2>1, FirstStands, FirstInStep
  <2>4. \A m \in S : m.time < horizon => NextMode(g, m) \in S
    BY <1>2, <2>1, <2>2, NextStands, NextInStep, NextModeState
  <2>5. \A m \in S : UntilTime(horizon, g, m) \in S
    BY <2>2, <2>4 DEF UntilTime, LoopState
  <2>6. after[0] = FirstMode(g, phase) /\ \A n \in 1 .. horizon : after[n] = UntilTime(horizon, g, after[n - 1])
    BY <1>2, LoopOfModes
  <2>7. after[horizon].time >= horizon /\ after[horizon].time \in Nat
    BY <1>2, ModesOfLoop DEF LoopState
  <2>8. Template(g, phase, horizon) = after[horizon].pieces
    BY <1>2, MinRateAssumption DEF Template, Gait
  <2> HIDE DEF S, after
  <2>9. \A n \in 0 .. horizon : after[n] \in S
    BY <2>3, <2>5, <2>6, LoopStates
  <2>10. after[horizon] \in S
    BY <2>9
  <2> QED
    BY <2>2, <2>7, <2>8, <2>10
<1> QED
  BY <1>1, <1>2, MinRateAssumption DEF Gait

-----------------------------------------------------------------------------
(* The modes of a schedule at the ticks.                                   *)

ModeIn(times, sequence, time) == sequence[IndexInTimes(times, time) + 1]

\* Between two times.
LEMMA IndexBetween ==
  ASSUME NEW times \in Seq(Nat), Increasing(times), NEW time \in Int, NEW i \in 0 .. Len(times),
         i # 0 => times[i] < time, i # Len(times) => times[i + 1] >= time
  PROVE  IndexInTimes(times, time) = i
<1> DEFINE index == IndexInTimes(times, time)
<1>1. index \in 0 .. Len(times) /\ \A k \in 1 .. Len(times) : k <= index <=> times[k] < time
  BY IndexOfPrefix
<1>2. Len(times) \in Nat /\ \A k \in 1 .. Len(times) : times[k] \in Nat
  OBVIOUS
<1> HIDE DEF index
<1>3. i <= index
  BY <1>1, <1>2
<1>4. ~(i < index)
  <2> SUFFICES ASSUME i < index PROVE FALSE
    OBVIOUS
  <2>1. i + 1 \in 1 .. Len(times) /\ i + 1 <= index
    BY <1>1, <1>2
  <2>2. times[i + 1] < time /\ times[i + 1] >= time
    BY <1>1, <1>2, <2>1
  <2> QED
    BY <1>2, <2>1, <2>2
<1> QED
  BY <1>1, <1>3, <1>4 DEF index

\* Times are numbers.
LEMMA TimesAreNumbers ==
  ASSUME NEW times \in Seq(Nat)
  PROVE  Len(times) \in Nat /\ \A i \in 1 .. Len(times) : times[i] \in Nat
OBVIOUS

\* Times that have a beginning in common and go on after a time agree until then.
LEMMA SameIndex ==
  ASSUME NEW a \in Seq(Nat), NEW b \in Seq(Nat), Increasing(a), Increasing(b), NEW time \in Int,
         NEW k \in Nat, k <= Len(a), k <= Len(b), \A i \in 1 .. k : a[i] = b[i],
         k # Len(a) => a[k + 1] >= time, k # Len(b) => b[k + 1] >= time
  PROVE  IndexInTimes(b, time) = IndexInTimes(a, time) /\ IndexInTimes(a, time) <= k
<1> DEFINE index == IndexInTimes(a, time)
<1>1. index \in 0 .. Len(a) /\ \A i \in 1 .. Len(a) : i <= index <=> a[i] < time
  BY IndexOfPrefix
<1>2. /\ Len(a) \in Nat /\ Len(b) \in Nat
      /\ (\A i \in 1 .. Len(a) : a[i] \in Nat) /\ \A i \in 1 .. Len(b) : b[i] \in Nat
  BY TimesAreNumbers
<1> HIDE DEF index
<1>3. index <= k
  <2> SUFFICES ASSUME k < index PROVE FALSE
    BY <1>1
  <2>1. k + 1 \in 1 .. Len(a) /\ k + 1 <= index
    BY <1>1, <1>2
  <2>2. a[k + 1] < time /\ a[k + 1] >= time
    BY <1>1, <1>2, <2>1
  <2> QED
    BY <1>2, <2>1, <2>2
<1>4. index # 0 => b[index] < time
  <2> SUFFICES ASSUME index # 0 PROVE b[index] < time
    OBVIOUS
  <2>1. index \in 1 .. k /\ index \in 1 .. Len(a)
    BY <1>1, <1>2, <1>3
  <2>2. a[index] < time
    BY <1>1, <2>1
  <2> QED
    BY <2>1, <2>2
<1>5. index # Len(b) => b[index + 1] >= time
  <2> SUFFICES ASSUME index # Len(b) PROVE b[index + 1] >= time
    OBVIOUS
  <2>1. CASE index = k
    BY <2>1
  <2>2. CASE index # k
    <3>1. index + 1 \in 1 .. k /\ index + 1 \in 1 .. Len(a) /\ ~(index + 1 <= index)
      BY <1>1, <1>2, <1>3, <2>2
    <3>2. ~(a[index + 1] < time)
      BY <1>1, <3>1
    <3> QED
      BY <1>2, <3>1, <3>2
  <2> QED
    BY <2>1, <2>2
<1>6. index \in 0 .. Len(b)
  BY <1>1, <1>2, <1>3
<1>7. IndexInTimes(b, time) = index
  BY <1>4, <1>5, <1>6, IndexBetween
<1> QED
  BY <1>3, <1>7 DEF index

\* Where the mode changes from one tick to the next there is an event.
LEMMA SwitchIsEvent ==
  ASSUME NEW times \in Seq(Nat), Increasing(times), NEW sequence, NEW time \in Int,
         ModeIn(times, sequence, time) # ModeIn(times, sequence, time + 1)
  PROVE  \E i \in 1 .. Len(times) : times[i] = time
<1> SUFFICES ASSUME \A i \in 1 .. Len(times) : times[i] # time PROVE FALSE
  OBVIOUS
<1> DEFINE index == IndexInTimes(times, time)
<1>1. index \in 0 .. Len(times) /\ \A k \in 1 .. Len(times) : k <= index <=> times[k] < time
  BY IndexOfPrefix
<1>2. Len(times) \in Nat /\ \A k \in 1 .. Len(times) : times[k] \in Nat
  OBVIOUS
<1> HIDE DEF index
<1>3. index # 0 => times[index] < time + 1
  <2>1. index # 0 => index \in 1 .. Len(times) /\ times[index] < time
    BY <1>1, <1>2
  <2> QED
    BY <1>2, <2>1
<1>4. index # Len(times) => times[index + 1] >= time + 1
  <2> SUFFICES ASSUME index # Len(times) PROVE times[index + 1] >= time + 1
    OBVIOUS
  <2>1. index + 1 \in 1 .. Len(times) /\ ~(index + 1 <= index)
    BY <1>1, <1>2
  <2>2. ~(times[index + 1] < time) /\ times[index + 1] # time
    BY <1>1, <2>1
  <2> QED
    BY <1>2, <2>1, <2>2
<1>5. IndexInTimes(times, time + 1) = index
  <2>1. time + 1 \in Int
    OBVIOUS
  <2> QED
    BY <1>1, <1>3, <1>4, <2>1, IndexBetween
<1> QED
  BY <1>5 DEF ModeIn, index

\* Between two events the mode stays.
LEMMA NoEventNoSwitch ==
  ASSUME NEW times \in Seq(Nat), Increasing(times), NEW sequence, NEW from \in Int, NEW to \in Int,
         from <= to, \A i \in 1 .. Len(times) : ~(from <= times[i] /\ times[i] < to)
  PROVE  ModeIn(times, sequence, from) = ModeIn(times, sequence, to)
<1> DEFINE index == IndexInTimes(times, from)
<1>1. index \in 0 .. Len(times) /\ \A k \in 1 .. Len(times) : k <= index <=> times[k] < from
  BY IndexOfPrefix
<1>2. Len(times) \in Nat /\ \A k \in 1 .. Len(times) : times[k] \in Nat
  OBVIOUS
<1> HIDE DEF index
<1>3. index # 0 => times[index] < to
  <2>1. index # 0 => index \in 1 .. Len(times) /\ times[index] < from
    BY <1>1, <1>2
  <2> QED
    BY <1>2, <2>1
<1>4. index # Len(times) => times[index + 1] >= to
  <2> SUFFICES ASSUME index # Len(times) PROVE times[index + 1] >= to
    OBVIOUS
  <2>1. index + 1 \in 1 .. Len(times) /\ ~(index + 1 <= index)
    BY <1>1, <1>2
  <2>2. ~(times[index + 1] < from)
    BY <1>1, <2>1
  <2> QED
    BY <1>2, <2>1, <2>2
<1>5. IndexInTimes(times, to) = index
  BY <1>1, <1>3, <1>4, IndexBetween
<1> QED
  BY <1>5 DEF ModeIn, index

ModeOf(plan, time) == ModeIn(plan.events, plan.modes, time)

\* A piece shows its mode for its duration, and changes nothing before.
LEMMA PieceShown ==
  ASSUME NEW final \in Nat, NEW plan \in PlanUntil(final), Last(plan.events) < final, NEW piece \in Pieces
  PROVE  LET next == AddPiece(plan, piece)
             last == Last(plan.events)
         IN  /\ \A time \in Int : time <= last => ModeOf(next, time) = ModeOf(plan, time)
             /\ \A time \in last + 1 .. last + piece.duration : ModeOf(next, time) = piece.mode
<1> DEFINE n == Len(plan.events)
           last == Last(plan.events)
           end == last + piece.duration
           next == AddPiece(plan, piece)
<1>1. /\ plan \in [events : Seq(Nat), modes : Seq(SUBSET Legs)]
      /\ plan.events \in Seq(Nat) /\ plan.modes \in Seq(SUBSET Legs) /\ Len(plan.modes) = n
      /\ n \in Nat /\ n # 0 /\ Increasing(plan.events) /\ DOMAIN plan.events = 1 .. n
  BY DEF PlanUntil, Plan
<1>2. last = plan.events[n] /\ last \in Nat /\ Last(plan.modes) = plan.modes[n]
  BY <1>1 DEF Last
<1>3. piece.duration \in Nat \ {0} /\ end \in Nat /\ end > last /\ piece.mode \in SUBSET Legs
  BY <1>2 DEF Pieces
<1>4. next \in PlanUntil(final)
  BY PieceAdded
<1>5. next.events \in Seq(Nat) /\ Increasing(next.events)
  BY <1>4 DEF PlanUntil, Plan
<1> DEFINE Shown(k) == /\ Len(next.events) = k + 1
                       /\ (\A i \in 1 .. k : next.events[i] = plan.events[i]) /\ next.events[k + 1] = end
                       /\ (\A i \in 1 .. k : next.modes[i] = plan.modes[i]) /\ next.modes[k + 1] = piece.mode
                       /\ k # n => plan.modes[k + 1] = piece.mode
<1>6. \E k \in {n - 1, n} : Shown(k)
  <2>1. CASE piece.mode = Last(plan.modes)
    <3> DEFINE ahead == Append(Front(plan.events), end)
    <3>1. next = [plan EXCEPT !.events = ahead]
      BY <2>1 DEF AddPiece
    <3>2. Len(ahead) = n /\ ahead[n] = end /\ \A i \in 1 .. n - 1 : ahead[i] = plan.events[i]
      <4> HIDE DEF end
      <4> QED
        BY <1>1, <1>3, ReplaceLast
    <3> HIDE DEF ahead, next, end, last
    <3>3. next.events = ahead /\ next.modes = plan.modes
      BY <1>1, <3>1
    <3>4. Shown(n - 1)
      BY <1>1, <1>2, <2>1, <3>2, <3>3
    <3> QED
      BY <3>4
  <2>2. CASE piece.mode # Last(plan.modes)
    <3>1. next.events = Append(plan.events, end) /\ next.modes = Append(plan.modes, piece.mode)
      BY <2>2 DEF AddPiece
    <3> HIDE DEF next, end, last
    <3>2. /\ Len(Append(plan.events, end)) = n + 1 /\ Append(plan.events, end)[n + 1] = end
          /\ \A i \in 1 .. n : Append(plan.events, end)[i] = plan.events[i]
      BY <1>1, <1>3, AppendProperties
    <3>3. /\ Append(plan.modes, piece.mode)[n + 1] = piece.mode
          /\ \A i \in 1 .. n : Append(plan.modes, piece.mode)[i] = plan.modes[i]
      <4>1. \A S : \A s \in Seq(S), x \in S :
              /\ \A i \in 1 .. Len(s) : Append(s, x)[i] = s[i]
              /\ Append(s, x)[Len(s) + 1] = x
        BY AppendProperties
      <4> QED
        BY <1>1, <1>3, <4>1
    <3>4. Shown(n)
      BY <1>1, <3>1, <3>2, <3>3
    <3> QED
      BY <3>4
  <2> QED
    BY <2>1, <2>2
<1> HIDE DEF next, end
<1>7. PICK k \in {n - 1, n} : Shown(k)
  BY <1>6
<1>8. k \in Nat /\ k <= n
  BY <1>1
<1>9. ASSUME NEW time \in Int, time <= last PROVE ModeOf(next, time) = ModeOf(plan, time)
  <2>1. k # n => plan.events[k + 1] >= time
    BY <1>1, <1>2, <1>9
  <2>2. k # Len(next.events) => next.events[k + 1] >= time
    BY <1>2, <1>3, <1>7, <1>9
  <2>3. k <= Len(next.events) /\ \A i \in 1 .. k : plan.events[i] = next.events[i]
    BY <1>7, <1>8
  <2>4. IndexInTimes(next.events, time) = IndexInTimes(plan.events, time) /\ IndexInTimes(plan.events, time) <= k
    BY <1>1, <1>5, <1>8, <2>1, <2>2, <2>3, SameIndex
  <2>5. /\ IndexInTimes(plan.events, time) \in 0 .. n
        /\ n <= IndexInTimes(plan.events, time) => plan.events[n] < time
    <3>1. /\ IndexInTimes(plan.events, time) \in 0 .. n
          /\ \A i \in 1 .. n : i <= IndexInTimes(plan.events, time) <=> plan.events[i] < time
      BY <1>1, IndexOfPrefix
    <3>2. n \in 1 .. n
      BY <1>1
    <3> QED
      BY <3>1, <3>2
  <2> DEFINE index == IndexInTimes(plan.events, time)
  <2> HIDE DEF index
  <2>6. index \in Nat /\ index < n /\ index <= k
    BY <1>1, <1>2, <1>9, <2>4, <2>5 DEF index
  <2>7. next.modes[index + 1] = plan.modes[index + 1]
    <3>1. CASE index + 1 <= k
      <4>1. index + 1 \in 1 .. k
        BY <1>8, <2>6, <3>1
      <4> QED
        BY <1>7, <4>1
    <3>2. CASE ~(index + 1 <= k)
      <4>1. index + 1 = k + 1 /\ k # n
        BY <1>8, <2>6, <3>2
      <4> QED
        BY <1>7, <4>1
    <3> QED
      BY <3>1, <3>2
  <2> QED
    BY <2>4, <2>7 DEF ModeOf, ModeIn, index
<1>10. ASSUME NEW time \in last + 1 .. end PROVE ModeOf(next, time) = piece.mode
  <2>1. time \in Int /\ last < time /\ time <= end
    BY <1>2, <1>3
  <2>2. k # 0 => next.events[k] < time
    <3> SUFFICES ASSUME k # 0 PROVE next.events[k] < time
      OBVIOUS
    <3>1. next.events[k] = plan.events[k] /\ k \in DOMAIN plan.events /\ n \in DOMAIN plan.events
      BY <1>1, <1>7, <1>8
    <3>2. k = n \/ plan.events[k] < plan.events[n]
      <4>1. k = n \/ k < n
        BY <1>1, <1>8
      <4> QED
        BY <1>1, <3>1, <4>1 DEF Increasing
    <3>3. plan.events[k] \in Nat
      BY <1>1, <3>1
    <3> QED
      BY <1>2, <2>1, <3>1, <3>2, <3>3
  <2>3. k # Len(next.events) => next.events[k + 1] >= time
    BY <1>3, <1>7, <2>1
  <2>4. k \in 0 .. Len(next.events)
    BY <1>7, <1>8
  <2>5. IndexInTimes(next.events, time) = k
    BY <1>5, <2>1, <2>2, <2>3, <2>4, IndexBetween
  <2> QED
    BY <1>7, <2>5 DEF ModeOf, ModeIn
<1> QED
  BY <1>9, <1>10 DEF next, end

\* A plan that goes on from another one, which ends at base, for so long as the gait does
\* from a phase on.
GoesOn(next, plan, base, g, phase, long) ==
  /\ \A time \in Int : time <= base => ModeOf(next, time) = ModeOf(plan, time)
  /\ \A time \in base + 1 .. base + long : ModeOf(next, time) = StanceAfter(g, phase, time - 1 - base)

\* A piece that follows in step lets the plan go on.
LEMMA PieceGoesOn ==
  ASSUME NEW final \in Nat, NEW plan, NEW base \in Nat, NEW long \in Nat, NEW g, NEW phase,
         NEW next \in PlanUntil(final), Last(next.events) = base + long, base + long < final,
         GoesOn(next, plan, base, g, phase, long), NEW piece \in Pieces,
         \A j \in long .. (long + piece.duration) - 1 : piece.mode = StanceAfter(g, phase, j)
  PROVE  GoesOn(AddPiece(next, piece), plan, base, g, phase, long + piece.duration)
<1> DEFINE more == AddPiece(next, piece)
<1>1. PICK duration \in Nat : duration = piece.duration
  BY DEF Pieces
<1>2. /\ \A time \in Int : time <= base + long => ModeOf(more, time) = ModeOf(next, time)
      /\ \A time \in base + long + 1 .. base + long + duration : ModeOf(more, time) = piece.mode
  BY <1>1, PieceShown
<1> HIDE DEF more
<1>3. ASSUME NEW time \in Int, time <= base PROVE ModeOf(more, time) = ModeOf(plan, time)
  <2>1. time <= base + long
    BY <1>3
  <2> QED
    BY <1>2, <1>3, <2>1 DEF GoesOn
<1>4. ASSUME NEW time \in base + 1 .. base + (long + duration)
      PROVE  ModeOf(more, time) = StanceAfter(g, phase, time - 1 - base)
  <2>1. CASE time <= base + long
    <3>1. time \in Int /\ time \in base + 1 .. base + long
      BY <2>1
    <3> QED
      BY <1>2, <2>1, <3>1 DEF GoesOn
  <2>2. CASE ~(time <= base + long)
    <3>1. time \in base + long + 1 .. base + long + duration /\ time - 1 - base \in long .. long + duration - 1
      BY <2>2
    <3> QED
      BY <1>1, <1>2, <3>1
  <2> QED
    BY <2>1, <2>2
<1> QED
  BY <1>1, <1>3, <1>4 DEF GoesOn, more

\* So do all pieces of a template.
LEMMA PiecesGoOn ==
  ASSUME NEW final \in Nat, NEW plan \in PlanUntil(final), NEW template \in Seq(Pieces), NEW end \in Nat,
         NEW g, NEW phase, Plays(g, phase, template, end, final - Last(plan.events))
  PROVE  GoesOn(WithPieces(plan, template)[Len(template)], plan, Last(plan.events), g, phase, end)
<1> DEFINE base == Last(plan.events)
           N == Len(template)
           after == WithPieces(plan, template)
           Played(from, to, piece) == \A j \in from .. to - 1 : piece.mode = StanceAfter(g, phase, j)
<1>1. plan \in Plan /\ base \in Nat /\ N \in Nat /\ \A n \in 1 .. N : template[n] \in Pieces
  BY DEF PlanUntil, Plan, Last
<1>2. PICK at \in [0 .. N -> Nat] :
             /\ at[0] = 0 /\ at[N] = end
             /\ \A n \in 1 .. N : at[n] = at[n - 1] + template[n].duration /\ at[n - 1] < final - base
             /\ \A n \in 1 .. N : Played(at[n - 1], at[n], template[n])
  BY DEF Plays
<1>3. after[0] = plan /\ \A n \in 1 .. N : after[n] = AddPiece(after[n - 1], template[n])
  BY <1>1, LoopOfPieces
<1> DEFINE Good(p, long) == /\ p \in PlanUntil(final) /\ Last(p.events) = base + long
                            /\ GoesOn(p, plan, base, g, phase, long)
           T == {n \in Nat : n <= N => Good(after[n], at[n])}
<1> HIDE DEF after, N, base, Played, Good
<1>4. 0 \in T
  <2>1. base + 0 = base /\ \A time \in base + 1 .. base : FALSE
    BY <1>1
  <2>2. GoesOn(plan, plan, base, g, phase, 0)
    BY <2>1 DEF GoesOn
  <2>3. Good(plan, 0)
    BY <2>1, <2>2 DEF Good, base
  <2> QED
    BY <1>2, <1>3, <2>3
<1>5. \A n \in T : n + 1 \in T
  <2> SUFFICES ASSUME NEW n \in Nat, n + 1 <= N, Good(after[n], at[n])
               PROVE  Good(after[n + 1], at[n + 1])
    BY <1>1
  <2>1. n \in 0 .. N /\ n + 1 \in 1 .. N /\ (n + 1) - 1 = n
    BY <1>1
  <2>2. PICK piece \in Pieces : piece = template[n + 1]
    BY <1>1, <2>1
  <2>3. PICK long \in Nat : long = at[n]
    BY <1>2, <2>1
  <2>4. after[n + 1] = AddPiece(after[n], piece)
    BY <1>3, <2>1, <2>2
  <2>5. at[n + 1] = long + piece.duration /\ long < final - base /\ Played(long, at[n + 1], piece)
    BY <1>2, <2>1, <2>2, <2>3
  <2>6. PICK next \in PlanUntil(final) : next = after[n]
    BY DEF Good
  <2>7. Last(next.events) = base + long /\ GoesOn(next, plan, base, g, phase, long) /\ base + long < final
    <3>1. Good(next, long)
      BY <2>3, <2>6
    <3>2. base + long < final
      BY <1>1, <2>5
    <3> QED
      BY <3>1, <3>2 DEF Good
  <2>8. /\ AddPiece(next, piece) \in PlanUntil(final)
        /\ Last(AddPiece(next, piece).events) = base + long + piece.duration
    BY <2>7, PieceAdded
  <2>9. GoesOn(AddPiece(next, piece), plan, base, g, phase, long + piece.duration)
    <3>1. \A j \in long .. (long + piece.duration) - 1 : piece.mode = StanceAfter(g, phase, j)
      <4>1. Played(long, long + piece.duration, piece)
        BY <2>5
      <4> QED
        BY <4>1 DEF Played
    <3> QED
      BY <1>1, <2>7, <3>1, PieceGoesOn
  <2>10. base + long + piece.duration = base + (long + piece.duration)
    BY <1>1 DEF Pieces
  <2>11. Good(AddPiece(next, piece), long + piece.duration)
    BY <2>8, <2>9, <2>10 DEF Good
  <2> QED
    BY <2>4, <2>5, <2>6, <2>11
<1>6. N \in T
  <2> HIDE DEF T
  <2>1. T \in SUBSET Nat
    BY DEF T
  <2> QED
    BY <1>1, <1>4, <1>5, <2>1, SetInduction
<1> QED
  BY <1>1, <1>2, <1>6 DEF after, N, base, Good

\* The plan that is tiled to the end shows the gait from where the tiling begins.
LEMMA TileGoesOn ==
  ASSUME NEW final \in Nat, NEW plan \in PlanUntil(final), Last(plan.events) < final,
         NEW g \in Gait, Steppable(g), Exact(g), NEW phase \in Int
  PROVE  LET next == Tile(plan, Template(g, phase, final - Last(plan.events)), final)
         IN  /\ next \in PlanUntil(final) /\ Last(next.events) >= final
             /\ \E long \in Nat : /\ Last(next.events) = Last(plan.events) + long
                                  /\ GoesOn(next, plan, Last(plan.events), g, phase, long)
<1> DEFINE horizon == final - Last(plan.events)
           template == Template(g, phase, horizon)
<1>1. Last(plan.events) \in Nat
  BY DEF PlanUntil, Plan, Last
<1>2. horizon \in Nat \ {0}
  BY <1>1
<1> HIDE DEF horizon
<1>3. template \in Seq(Pieces)
  BY <1>2, TemplateCovers
<1>4. PICK end \in Nat : end >= horizon /\ Plays(g, phase, template, end, horizon)
  BY <1>2, TemplatePlays
<1> HIDE DEF template
<1>5. Covers(template, end, horizon)
  BY <1>4 DEF Plays, Covers
<1>6. /\ Tile(plan, template, final) = WithPieces(plan, template)[Len(template)]
      /\ Tile(plan, template, final) \in PlanUntil(final)
      /\ Last(Tile(plan, template, final).events) >= final
  BY <1>3, <1>4, <1>5, TileReaches DEF horizon
<1>7. Last(WithPieces(plan, template)[Len(template)].events) = Last(plan.events) + end
  BY <1>3, <1>5, PiecesAdded DEF horizon
<1>8. GoesOn(WithPieces(plan, template)[Len(template)], plan, Last(plan.events), g, phase, end)
  BY <1>3, <1>4, PiecesGoOn DEF horizon
<1> QED
  BY <1>6, <1>7, <1>8 DEF template, horizon

-----------------------------------------------------------------------------
(* The phase goes on through the changes of gait.                          *)

\* Each gait takes over the phase of the one before it.
Chained(known) ==
  \A i \in 1 .. Len(known) - 1 :
    known[i + 1].phase = known[i].phase + (known[i + 1].time - known[i].time) * known[i].gait.rate

\* From the last change on the phase is that of the last gait.
LEMMA PhaseSinceLast ==
  ASSUME NEW known \in KnownChanges, Chained(known), NEW time \in Int, time >= Last(known).time
  PROVE  LET last == Last(known)
         IN  /\ PhaseAt(known, time) = last.phase + (time - last.time) * last.gait.rate
             /\ time > last.time => ChangeBefore(known, time) = last
<1> DEFINE n == Len(known)
           last == Last(known)
           times == ChangeTimes(known)
           index == IndexInTimes(times, time)
<1>1. known \in Seq(Change) /\ n \in Nat \ {0} /\ Increasing(times) /\ last = known[n]
  BY DEF KnownChanges, Last
<1>2. times \in Seq(Nat) /\ Len(times) = n /\ \A i \in 1 .. n : times[i] = known[i].time
  BY <1>1, TimesOfChanges
<1>3. \A i \in 1 .. n : known[i].time \in Nat /\ known[i].phase \in Nat /\ known[i].gait.rate \in Nat
  <2>1. \A i \in 1 .. n : known[i] \in Change
    BY <1>1
  <2> QED
    BY <2>1 DEF Change, Gait
<1>4. \A i, j \in 1 .. n : i < j => known[i].time < known[j].time
  BY <1>1, TimesOfChanges
<1>5. index \in 0 .. n /\ \A i \in 1 .. n : i <= index <=> known[i].time < time
  <2>1. index \in 0 .. n /\ \A i \in 1 .. n : i <= index <=> times[i] < time
    BY <1>1, <1>2, IndexOfPrefix
  <2> QED
    BY <1>2, <2>1
<1>6. n \in 1 .. n
  BY <1>1
<1> HIDE DEF n, times, index, last
<1>7. last.time \in Nat /\ last.phase \in Nat /\ last.gait.rate \in Nat
  BY <1>1, <1>3, <1>6
<1>8. ChangeBefore(known, time) = known[IF index = 0 THEN 1 ELSE index]
  BY DEF ChangeBefore, index, times
<1>9. CASE time > last.time
  <2>1. index = n
    BY <1>1, <1>5, <1>6, <1>9
  <2>2. ChangeBefore(known, time) = last
    BY <1>1, <1>8, <2>1
  <2> QED
    BY <2>2 DEF PhaseAt, last
<1>10. CASE time = last.time
  <2>1. ~(n <= index)
    BY <1>1, <1>5, <1>6, <1>7, <1>10
  <2>2. last.phase + (time - last.time) * last.gait.rate = last.phase
    <3>1. \A x, y \in Nat : x + 0 * y = x
      OBVIOUS
    <3> QED
      BY <1>7, <1>10, <3>1
  <2>3. CASE n = 1
    <3>1. ChangeBefore(known, time) = last
      BY <1>1, <1>5, <1>8, <2>1, <2>3
    <3> QED
      BY <1>10, <3>1 DEF PhaseAt, last
  <2>4. CASE n # 1
    <3>1. n - 1 \in 1 .. n /\ n - 1 < n /\ (n - 1) + 1 = n
      BY <1>1, <2>4
    <3>2. known[n - 1].time < time
      BY <1>1, <1>4, <1>6, <1>10, <3>1
    <3>3. index = n - 1
      BY <1>1, <1>5, <2>1, <3>1, <3>2
    <3>4. ChangeBefore(known, time) = known[n - 1]
      BY <1>1, <1>8, <2>4, <3>3
    <3>5. last.phase = known[n - 1].phase + (last.time - known[n - 1].time) * known[n - 1].gait.rate
      <4>1. n - 1 \in 1 .. n - 1
        BY <1>1, <2>4
      <4> QED
        BY <1>1, <3>1, <4>1 DEF Chained, n
    <3>6. PhaseAt(known, time) = last.phase
      BY <1>10, <3>4, <3>5 DEF PhaseAt
    <3> QED
      BY <1>7, <1>10, <2>2, <3>6 DEF last
  <2> QED
    BY <2>3, <2>4
<1>11. time > last.time \/ time = last.time
  BY <1>7 DEF last
<1> QED
  BY <1>9, <1>10, <1>11 DEF last

\* Forgetting what is over at a time changes nothing from then on.
LEMMA RemovalKeeps ==
  ASSUME NEW known \in KnownChanges, NEW start \in Int
  PROVE  LET left == RemoveBefore(known, start)
         IN  /\ \A time \in Int : time >= start => ChangeBefore(left, time) = ChangeBefore(known, time)
             /\ \A i \in 1 .. Len(known) : known[i].time >= start => \E k \in 1 .. Len(left) : left[k] = known[i]
             /\ Chained(known) => Chained(left)
<1> DEFINE n == Len(known)
           times == ChangeTimes(known)
           first == IndexInTimes(times, start)
           left == RemoveBefore(known, start)
<1>1. known \in Seq(Change) /\ n \in Nat \ {0} /\ Increasing(times)
  BY DEF KnownChanges
<1>2. times \in Seq(Nat) /\ Len(times) = n /\ \A i \in 1 .. n : times[i] = known[i].time /\ times[i] \in Nat
  <2>1. times \in Seq(Nat) /\ Len(times) = n /\ \A i \in 1 .. n : times[i] = known[i].time
    BY <1>1, TimesOfChanges
  <2> QED
    BY <2>1
<1>3. first \in 0 .. n /\ \A i \in 1 .. n : i <= first <=> times[i] < start
  BY <1>1, <1>2, IndexOfPrefix
<1>4. CASE first = 0
  <2>1. left = known
    BY <1>4 DEF RemoveBefore
  <2> HIDE DEF left
  <2> QED
    BY <2>1 DEF left
<1>5. CASE first # 0
  <2> HIDE DEF first
  <2>1. first \in 1 .. n /\ left = SubSeq(known, first, n)
    BY <1>3, <1>5 DEF RemoveBefore, first
  <2>2. left \in Seq(Change) /\ Len(left) = n - first + 1
        /\ \A i \in 1 .. n - first + 1 : left[i] = known[first + i - 1]
    BY <1>1, <2>1, SuffixProperties
  <2>3. left \in KnownChanges
    BY ChangesRemoved
  <2> HIDE DEF left, n, times
  <2>4. /\ ChangeTimes(left) \in Seq(Nat) /\ Len(ChangeTimes(left)) = n - first + 1 /\ Increasing(ChangeTimes(left))
        /\ \A i \in 1 .. n - first + 1 : ChangeTimes(left)[i] = times[first + i - 1]
    <3>1. /\ ChangeTimes(left) \in Seq(Nat) /\ Len(ChangeTimes(left)) = n - first + 1
          /\ \A i \in 1 .. n - first + 1 : ChangeTimes(left)[i] = left[i].time
      BY <2>2, TimesOfChanges
    <3>2. \A i \in 1 .. n - first + 1 : first + i - 1 \in 1 .. n
      BY <1>1, <2>1
    <3>3. Increasing(ChangeTimes(left))
      BY <2>3 DEF KnownChanges
    <3> QED
      BY <1>2, <2>2, <3>1, <3>2, <3>3
  <2>5. ASSUME NEW time \in Int, time >= start PROVE ChangeBefore(left, time) = ChangeBefore(known, time)
    <3> DEFINE index == IndexInTimes(times, time)
               there == index - first + 1
    <3>1. index \in 0 .. n /\ \A i \in 1 .. n : i <= index <=> times[i] < time
      BY <1>1, <1>2, IndexOfPrefix
    <3> HIDE DEF index
    <3>2. times[first] < start /\ times[first] \in Nat
      BY <1>2, <1>3, <2>1
    <3>3. first <= index
      BY <2>1, <2>5, <3>1, <3>2
    <3>4. there \in 1 .. n - first + 1 /\ first + there - 1 = index /\ index \in 1 .. n
      BY <1>1, <2>1, <3>1, <3>3
    <3>5. ChangeTimes(left)[there] < time
      BY <2>4, <3>1, <3>4
    <3>6. there # n - first + 1 => ChangeTimes(left)[there + 1] >= time
      <4> SUFFICES ASSUME there # n - first + 1 PROVE ChangeTimes(left)[there + 1] >= time
        OBVIOUS
      <4>1. there + 1 \in 1 .. n - first + 1 /\ first + (there + 1) - 1 = index + 1 /\ index + 1 \in 1 .. n
        BY <1>1, <2>1, <3>4
      <4>2. ~(times[index + 1] < time) /\ times[index + 1] \in Nat
        BY <1>2, <3>1, <4>1
      <4>3. ChangeTimes(left)[there + 1] = times[index + 1]
        BY <2>4, <4>1
      <4> QED
        BY <4>2, <4>3
    <3> HIDE DEF there
    <3>7. IndexInTimes(ChangeTimes(left), time) = there
      <4>1. there \in 0 .. Len(ChangeTimes(left))
        BY <2>4, <3>4
      <4> QED
        BY <2>4, <3>5, <3>6, <4>1, IndexBetween
    <3>8. ChangeBefore(left, time) = left[there] /\ left[there] = known[index]
      BY <2>2, <3>4, <3>7 DEF ChangeBefore
    <3>9. ChangeBefore(known, time) = known[index]
      BY <2>1, <3>1, <3>3 DEF ChangeBefore, index, times
    <3> QED
      BY <3>8, <3>9
  <2>6. ASSUME NEW i \in 1 .. n, known[i].time >= start PROVE \E k \in 1 .. Len(left) : left[k] = known[i]
    <3>1. ~(i <= first)
      BY <1>2, <1>3, <2>6
    <3>2. i - first + 1 \in 1 .. n - first + 1 /\ first + (i - first + 1) - 1 = i
      BY <1>1, <2>1, <3>1
    <3>3. left[i - first + 1] = known[i]
      BY <2>2, <3>2
    <3> QED
      BY <2>2, <3>2, <3>3
  <2>7. ASSUME Chained(known), NEW i \in 1 .. Len(left) - 1
        PROVE  left[i + 1].phase = left[i].phase + (left[i + 1].time - left[i].time) * left[i].gait.rate
    <3>1. /\ i \in 1 .. n - first + 1 /\ i + 1 \in 1 .. n - first + 1
          /\ first + (i + 1) - 1 = (first + i - 1) + 1 /\ first + i - 1 \in 1 .. n - 1
      BY <1>1, <2>1, <2>2
    <3>2. left[i] = known[first + i - 1] /\ left[i + 1] = known[(first + i - 1) + 1]
      BY <2>2, <3>1
    <3> QED
      BY <2>7, <3>1, <3>2 DEF Chained, n
  <2> QED
    BY <2>5, <2>6, <2>7 DEF Chained, left, n
<1> QED
  BY <1>4, <1>5

\* A further change takes over the phase and changes nothing until its time.
LEMMA AdditionKeeps ==
  ASSUME NEW known \in KnownChanges, Chained(known), NEW new \in Nat, new > Last(known).time, NEW g \in Gait
  PROVE  LET more == AddChange(known, new, g)
         IN  /\ \A time \in Int : time <= new => ChangeBefore(more, time) = ChangeBefore(known, time)
             /\ \A i \in 1 .. Len(known) : i \in 1 .. Len(more) /\ more[i] = known[i]
             /\ Chained(more)
             /\ Last(more) = [time |-> new, gait |-> g, phase |-> PhaseAt(known, new)]
<1> DEFINE n == Len(known)
           last == known[n]
           change == [time |-> new, gait |-> g, phase |-> last.phase + (new - last.time) * last.gait.rate]
           more == AddChange(known, new, g)
           times == ChangeTimes(known)
           longer == ChangeTimes(more)
<1>1. known \in Seq(Change) /\ n \in Nat \ {0} /\ Increasing(times) /\ last = Last(known) /\ last \in Change
  BY DEF KnownChanges, Last
<1>2. more \in KnownChanges /\ more \in Seq(Change) /\ Increasing(longer)
  BY ChangeAdded DEF KnownChanges
<1>3. more = Append(known, change)
  BY DEF AddChange
<1>4. change.time = new /\ change.phase = last.phase + (new - last.time) * last.gait.rate
  OBVIOUS
<1>5. PhaseAt(known, new) = last.phase + (new - last.time) * last.gait.rate
  <2>1. new \in Int /\ new >= Last(known).time
    <3>1. Last(known).time \in Nat
      BY <1>1 DEF Change
    <3> QED
      BY <3>1
  <2> QED
    BY <1>1, <2>1, PhaseSinceLast
<1>6. change = [time |-> new, gait |-> g, phase |-> PhaseAt(known, new)]
  BY <1>5
<1>7. Len(more) = n + 1 /\ more[n + 1] = change /\ \A i \in 1 .. n : more[i] = known[i]
  <2>1. \A S, x : \A s \in Seq(S) : /\ Len(Append(s, x)) = Len(s) + 1 /\ Append(s, x)[Len(s) + 1] = x
                                  /\ \A i \in 1 .. Len(s) : Append(s, x)[i] = s[i]
    OBVIOUS
  <2> HIDE DEF more, change
  <2> QED
    BY <1>1, <1>3, <2>1
<1> HIDE DEF more, change, last
<1>8. /\ times \in Seq(Nat) /\ Len(times) = n /\ \A i \in 1 .. n : times[i] = known[i].time /\ times[i] \in Nat
      /\ longer \in Seq(Nat) /\ Len(longer) = n + 1 /\ \A i \in 1 .. n + 1 : longer[i] = more[i].time
  <2>1. times \in Seq(Nat) /\ Len(times) = n /\ \A i \in 1 .. n : times[i] = known[i].time
    BY <1>1, TimesOfChanges
  <2>2. longer \in Seq(Nat) /\ Len(longer) = n + 1 /\ \A i \in 1 .. n + 1 : longer[i] = more[i].time
    BY <1>2, <1>7, TimesOfChanges
  <2> QED
    BY <2>1, <2>2
<1> HIDE DEF times, longer
<1>9. ASSUME NEW time \in Int, time <= new PROVE ChangeBefore(more, time) = ChangeBefore(known, time)
  <2>1. /\ \A i \in 1 .. n : times[i] = longer[i]
        /\ n # Len(longer) => longer[n + 1] >= time
    <3>1. \A i \in 1 .. n : i \in 1 .. n + 1
      BY <1>1
    <3>2. \A i \in 1 .. n : times[i] = longer[i]
      BY <1>7, <1>8, <3>1
    <3>3. n + 1 \in 1 .. n + 1
      BY <1>1
    <3>4. longer[n + 1] = new
      BY <1>4, <1>7, <1>8, <3>3
    <3> QED
      BY <1>9, <3>2, <3>4
  <2>2. IndexInTimes(longer, time) = IndexInTimes(times, time) /\ IndexInTimes(times, time) <= n
    <3>1. n \in Nat /\ n <= Len(times) /\ n <= Len(longer)
      BY <1>1, <1>8
    <3> QED
      BY <1>1, <1>2, <1>8, <2>1, <3>1, SameIndex
  <2>3. IndexInTimes(times, time) \in 0 .. n
    BY <1>1, <1>8, IndexOfPrefix
  <2> DEFINE index == IndexInTimes(times, time)
             here == IF index = 0 THEN 1 ELSE index
  <2>4. here \in 1 .. n
    BY <1>1, <2>3
  <2>5. ChangeBefore(more, time) = more[here] /\ ChangeBefore(known, time) = known[here]
    BY <2>2 DEF ChangeBefore, times, longer
  <2> HIDE DEF here
  <2> QED
    BY <1>7, <2>4, <2>5
<1>10. ASSUME NEW i \in 1 .. Len(more) - 1
       PROVE  more[i + 1].phase = more[i].phase + (more[i + 1].time - more[i].time) * more[i].gait.rate
  <2>1. CASE i = n
    BY <1>1, <1>4, <1>7, <2>1 DEF last
  <2>2. CASE i # n
    <3>1. i \in 1 .. n /\ i + 1 \in 1 .. n /\ i \in 1 .. n - 1
      BY <1>1, <1>7, <2>2
    <3> QED
      BY <1>7, <3>1 DEF Chained
  <2> QED
    BY <2>1, <2>2
<1>11. Last(more) = change
  BY <1>7 DEF Last
<1>12. \A i \in 1 .. n : i \in 1 .. Len(more)
  BY <1>1, <1>7
<1> QED
  BY <1>6, <1>7, <1>9, <1>10, <1>11, <1>12 DEF Chained, more

-----------------------------------------------------------------------------
(* What the planner's two operations do to the modes of the schedule.      *)

\* A schedule that is cut at a time keeps its modes until then, and the last of them
\* until its new end.
LEMMA CutShown ==
  ASSUME NEW times, NEW sequence, WellFormed(times, sequence), NEW time \in Nat,
         NEW end \in Nat, end >= time, NEW mode \in SUBSET Legs
  PROVE  LET index == IndexInTimes(times, time)
             cut == Append(SubSeq(times, 1, index), end)
             kept == Append(SubSeq(sequence, 1, index + 1), mode)
         IN  /\ Last(cut) = end
             /\ \A t \in Int : t <= time => ModeIn(cut, kept, t) = ModeIn(times, sequence, t)
             /\ \A t \in time + 1 .. end : ModeIn(cut, kept, t) = sequence[index + 1]
<1> DEFINE index == IndexInTimes(times, time)
           cut == Append(SubSeq(times, 1, index), end)
           kept == Append(SubSeq(sequence, 1, index + 1), mode)
<1>1. times \in Seq(Nat) /\ sequence \in Seq(SUBSET Legs) /\ Len(sequence) = Len(times) + 1
      /\ Increasing(times) /\ Len(times) \in Nat
  BY DEF WellFormed
<1>2. index \in 0 .. Len(times) /\ \A i \in 1 .. Len(times) : i <= index <=> times[i] < time
  BY <1>1, IndexOfPrefix
<1>3. WellFormed(cut, kept)
  BY ScheduleCut
<1> HIDE DEF index
<1>4. /\ Len(cut) = index + 1 /\ (\A i \in 1 .. index : cut[i] = times[i]) /\ cut[index + 1] = end
      /\ cut \in Seq(Nat) /\ Increasing(cut)
  <2> DEFINE before == SubSeq(times, 1, index)
  <2>1. before \in Seq(Nat) /\ Len(before) = index /\ \A i \in 1 .. index : before[i] = times[i]
    BY <1>1, <1>2, PrefixProperties
  <2> HIDE DEF before
  <2>2. /\ Len(Append(before, end)) = index + 1 /\ Append(before, end)[index + 1] = end
        /\ \A i \in 1 .. index : Append(before, end)[i] = times[i]
    BY <2>1, AppendProperties
  <2> QED
    BY <1>3, <2>2 DEF WellFormed, before
<1>5. \A i \in 1 .. index + 1 : kept[i] = sequence[i]
  <2> DEFINE before == SubSeq(sequence, 1, index + 1)
  <2>1. index + 1 \in 0 .. Len(sequence)
    BY <1>1, <1>2
  <2>2. before \in Seq(SUBSET Legs) /\ Len(before) = index + 1 /\ \A i \in 1 .. index + 1 : before[i] = sequence[i]
    BY <1>1, <2>1, PrefixProperties
  <2> HIDE DEF before
  <2>3. \A S : \A s \in Seq(S), x \in S : \A i \in 1 .. Len(s) : Append(s, x)[i] = s[i]
    BY AppendProperties
  <2>4. \A i \in 1 .. index + 1 : Append(before, mode)[i] = before[i]
    BY <2>2, <2>3
  <2> QED
    BY <2>2, <2>4 DEF before
<1> HIDE DEF cut, kept
<1>6. Last(cut) = end
  BY <1>2, <1>4 DEF Last
<1>7. ASSUME NEW t \in Int, t <= time PROVE ModeIn(cut, kept, t) = ModeIn(times, sequence, t)
  <2>1. index # Len(times) => times[index + 1] >= t
    <3> SUFFICES ASSUME index # Len(times) PROVE times[index + 1] >= t
      OBVIOUS
    <3>1. index + 1 \in 1 .. Len(times) /\ ~(index + 1 <= index)
      BY <1>1, <1>2
    <3>2. ~(times[index + 1] < time) /\ times[index + 1] \in Nat
      BY <1>1, <1>2, <3>1
    <3> QED
      BY <1>7, <3>2
  <2>2. index # Len(cut) => cut[index + 1] >= t
    BY <1>4, <1>7
  <2>3. index \in Nat /\ index <= Len(times) /\ index <= Len(cut) /\ \A i \in 1 .. index : times[i] = cut[i]
    BY <1>1, <1>2, <1>4
  <2>4. IndexInTimes(cut, t) = IndexInTimes(times, t) /\ IndexInTimes(times, t) <= index
    BY <1>1, <1>4, <2>1, <2>2, <2>3, SameIndex
  <2>5. IndexInTimes(times, t) \in Nat
    BY <1>1, IndexOfPrefix
  <2>6. IndexInTimes(times, t) + 1 \in 1 .. index + 1
    BY <2>3, <2>4, <2>5
  <2> QED
    BY <1>5, <2>4, <2>6 DEF ModeIn
<1>8. ASSUME NEW t \in time + 1 .. end PROVE ModeIn(cut, kept, t) = sequence[index + 1]
  <2>1. index # 0 => cut[index] < t
    <3> SUFFICES ASSUME index # 0 PROVE cut[index] < t
      OBVIOUS
    <3>1. index \in 1 .. index /\ index \in 1 .. Len(times)
      BY <1>1, <1>2
    <3>2. times[index] < time /\ times[index] \in Nat
      BY <1>1, <1>2, <3>1
    <3> QED
      BY <1>4, <1>8, <3>1, <3>2
  <2>2. index # Len(cut) => cut[index + 1] >= t
    BY <1>4, <1>8
  <2>3. t \in Int /\ index \in 0 .. Len(cut)
    BY <1>2, <1>4
  <2>4. IndexInTimes(cut, t) = index
    BY <1>4, <2>1, <2>2, <2>3, IndexBetween
  <2>5. index + 1 \in 1 .. index + 1
    BY <1>2
  <2> QED
    BY <1>5, <2>4, <2>5 DEF ModeIn
<1> QED
  BY <1>6, <1>7, <1>8 DEF cut, kept, index

\* The closing stance comes after the last event.
LEMMA ClosingShown ==
  ASSUME NEW plan \in Plan, Increasing(plan.events), NEW time \in Int, time <= Last(plan.events)
  PROVE  ModeIn(plan.events, Append(plan.modes, Legs), time) = ModeOf(plan, time)
<1> DEFINE n == Len(plan.events)
           index == IndexInTimes(plan.events, time)
<1>1. /\ plan.events \in Seq(Nat) /\ plan.modes \in Seq(SUBSET Legs) /\ Len(plan.modes) = n
      /\ n \in Nat /\ n # 0 /\ Last(plan.events) = plan.events[n]
  BY DEF Plan, Last
<1>2. index \in 0 .. n /\ \A i \in 1 .. n : i <= index <=> plan.events[i] < time
  BY <1>1, IndexOfPrefix
<1>3. n \in 1 .. n /\ plan.events[n] \in Nat
  BY <1>1
<1> HIDE DEF index
<1>4. index + 1 \in 1 .. n
  BY <1>1, <1>2, <1>3
<1>5. \A i \in 1 .. n : Append(plan.modes, Legs)[i] = plan.modes[i]
  <2>1. \A S : \A s \in Seq(S), x \in S : \A i \in 1 .. Len(s) : Append(s, x)[i] = s[i]
    BY AppendProperties
  <2>2. Legs \in SUBSET Legs
    OBVIOUS
  <2> HIDE DEF n
  <2> QED
    BY <1>1, <2>1, <2>2
<1> QED
  BY <1>4, <1>5 DEF ModeOf, ModeIn, index

\* What is tiled shows the modes of the schedule it is kept of, the whole of it between
\* its start and the tiling, and nothing planned between the tiling and the end is left.
LEMMA TiledShown ==
  ASSUME WellFormed(events, modes), NEW known, NEW start \in Nat, NEW final \in Nat, start < final
  PROVE  LET tiling == TilingTime(start, final)
         IN  /\ tiling \in Nat /\ tiling >= start
             /\ tiling > start => \E i \in 1 .. Len(events) : events[i] = tiling
             /\ \A i \in 1 .. Len(events) : ~(tiling < events[i] /\ events[i] < final)
             /\ \A time \in start + 1 .. tiling :
                  ModeOf(TiledPlan(known, start, final), time) = ModeAt(time)
<1> DEFINE first == IndexInTimes(events, start)
           last == IndexInTimes(events, final)
           kept == Kept(start, final)
           tiling == TilingTime(start, final)
           begin == TiledPlan(known, start, final)
<1>1. events \in Seq(Nat) /\ modes \in Seq(SUBSET Legs) /\ Len(modes) = Len(events) + 1
      /\ Increasing(events) /\ Len(events) \in Nat
  BY DEF WellFormed
<1>2. /\ first \in 0 .. Len(events) /\ last \in 0 .. Len(events)
      /\ \A i \in 1 .. Len(events) : (i <= first <=> events[i] < start) /\ (i <= last <=> events[i] < final)
      /\ \A i \in 1 .. Len(events) : events[i] \in Nat
  <2>1. \A time \in Int :
          /\ IndexInTimes(events, time) \in 0 .. Len(events)
          /\ \A i \in 1 .. Len(events) : i <= IndexInTimes(events, time) <=> events[i] < time
    BY <1>1, IndexOfPrefix
  <2>2. start \in Int /\ final \in Int
    OBVIOUS
  <2>3. \A i \in 1 .. Len(events) : events[i] \in Nat
    BY <1>1, TimesAreNumbers
  <2> QED
    BY <2>1, <2>2, <2>3
<1> HIDE DEF first, last
<1>3. first <= last /\ kept.events = SubSeq(events, first + 1, last) /\ kept.modes = SubSeq(modes, first + 1, last)
  <2>1. first # 0 => first \in 1 .. Len(events) /\ events[first] < start /\ events[first] \in Nat
    BY <1>1, <1>2
  <2>2. first # 0 => first <= last
    BY <1>2, <2>1
  <2>3. first + (last - first) = last
    BY <1>2
  <2>4. kept.events = SubSeq(events, first + 1, last) /\ kept.modes = SubSeq(modes, first + 1, last)
    BY <2>3 DEF Kept, first, last
  <2> QED
    BY <1>2, <2>2, <2>4
<1>4. /\ kept.events \in Seq(Nat) /\ Len(kept.events) = last - first
      /\ \A i \in 1 .. last - first : kept.events[i] = events[first + i]
  <2>1. first + 1 \in Int /\ last \in Int /\ \A i \in first + 1 .. last : events[i] \in Nat
    BY <1>1, <1>2
  <2>2. /\ SubSeq(events, first + 1, last) \in Seq(Nat)
        /\ Len(SubSeq(events, first + 1, last)) = IF first + 1 <= last THEN last - (first + 1) + 1 ELSE 0
        /\ \A i \in 1 .. last - (first + 1) + 1 : SubSeq(events, first + 1, last)[i] = events[first + 1 + i - 1]
    BY <2>1, SubSeqProperties
  <2>3. Len(SubSeq(events, first + 1, last)) = last - first
    BY <1>2, <1>3, <2>2
  <2>4. \A i \in 1 .. last - first : i \in 1 .. last - (first + 1) + 1 /\ first + 1 + i - 1 = first + i
    BY <1>2
  <2> QED
    BY <1>3, <2>2, <2>3, <2>4
<1>5. \A i \in 1 .. last - first : kept.modes[i] = modes[first + i]
  <2>1. first + 1 \in Int /\ last \in Int /\ \A i \in first + 1 .. last : modes[i] \in SUBSET Legs
    BY <1>1, <1>2
  <2>2. \A i \in 1 .. last - (first + 1) + 1 : SubSeq(modes, first + 1, last)[i] = modes[first + 1 + i - 1]
    BY <2>1, SubSeqProperties
  <2>3. \A i \in 1 .. last - first : i \in 1 .. last - (first + 1) + 1 /\ first + 1 + i - 1 = first + i
    BY <1>2
  <2>4. kept.modes = SubSeq(modes, first + 1, last)
    BY <1>3
  <2> HIDE DEF kept
  <2> QED
    BY <2>2, <2>3, <2>4
<1>6. kept.events = <<>> => \A i \in 1 .. Len(events) : ~(start <= events[i] /\ events[i] < final)
  <2> SUFFICES ASSUME kept.events = <<>>, NEW i \in 1 .. Len(events), start <= events[i], events[i] < final
               PROVE  FALSE
    OBVIOUS
  <2>1. last - first = 0
    BY <1>4
  <2> QED
    BY <1>2, <2>1
<1> HIDE DEF kept
<1>7. CASE kept.events = <<>>
  <2>1. tiling = start
    BY <1>7 DEF TilingTime, kept
  <2> HIDE DEF tiling
  <2>2. \A i \in 1 .. Len(events) : ~(tiling < events[i] /\ events[i] < final)
    BY <1>2, <1>6, <1>7, <2>1
  <2>3. \A time \in start + 1 .. tiling : FALSE
    BY <2>1
  <2> QED
    BY <2>1, <2>2, <2>3 DEF tiling
<1>8. CASE kept.events # <<>>
  <2>1. tiling = Last(kept.events) /\ begin = kept
    BY <1>8 DEF TilingTime, TiledPlan, kept
  <2>2. last - first \in 1 .. last - first /\ last \in 1 .. Len(events)
    <3>1. Len(kept.events) # 0
      BY <1>4, <1>8, EmptySeq
    <3> QED
      BY <1>1, <1>2, <1>3, <1>4, <3>1
  <2> HIDE DEF tiling, begin
  <2>3. tiling = events[last]
    <3>1. first + (last - first) = last
      BY <1>2
    <3> QED
      BY <1>4, <2>1, <2>2, <3>1 DEF Last
  <2>4. tiling \in Nat /\ tiling >= start /\ tiling < final
    BY <1>2, <2>2, <2>3
  <2>5. ASSUME NEW i \in 1 .. Len(events), tiling < events[i], events[i] < final PROVE FALSE
    <3>1. i <= last
      BY <1>2, <2>5
    <3>2. i = last \/ events[i] < events[last]
      <4>1. i \in DOMAIN events /\ last \in DOMAIN events /\ (i = last \/ i < last)
        BY <1>1, <1>2, <2>2, <3>1
      <4> QED
        BY <1>1, <4>1 DEF Increasing
    <3> QED
      BY <1>2, <2>2, <2>3, <2>5, <3>2
  <2>6. ASSUME NEW time \in start + 1 .. tiling PROVE ModeOf(begin, time) = ModeAt(time)
    <3> DEFINE index == IndexInTimes(events, time)
               here == index - first
    <3>1. index \in 0 .. Len(events) /\ \A i \in 1 .. Len(events) : i <= index <=> events[i] < time
      BY <1>1, IndexOfPrefix
    <3> HIDE DEF index
    <3>2. time \in Int /\ start < time /\ time <= tiling
      BY <2>4
    <3>3. first <= index
      <4>1. first # 0 => first \in 1 .. Len(events) /\ events[first] < start /\ events[first] \in Nat
        BY <1>1, <1>2
      <4> QED
        BY <1>2, <3>1, <3>2, <4>1
    <3>4. index < last
      BY <1>2, <2>2, <2>3, <3>1, <3>2
    <3>5. here \in 0 .. last - first /\ here # last - first /\ here + 1 \in 1 .. last - first
      BY <1>2, <3>1, <3>3, <3>4
    <3>6. here # 0 => kept.events[here] < time
      <4> SUFFICES ASSUME here # 0 PROVE kept.events[here] < time
        OBVIOUS
      <4>1. here \in 1 .. last - first /\ first + here = index /\ index \in 1 .. Len(events)
        BY <1>2, <3>1, <3>5
      <4> QED
        BY <1>4, <3>1, <4>1
    <3>7. kept.events[here + 1] >= time
      <4>1. first + (here + 1) = index + 1 /\ index + 1 \in 1 .. Len(events) /\ ~(index + 1 <= index)
        BY <1>2, <3>1, <3>4
      <4>2. kept.events[here + 1] = events[index + 1]
        BY <1>4, <3>5, <4>1
      <4>3. ~(events[index + 1] < time) /\ events[index + 1] \in Nat
        BY <1>2, <3>1, <4>1
      <4> QED
        BY <3>2, <4>2, <4>3
    <3> HIDE DEF here
    <3>8. Increasing(kept.events)
      <4>1. kept \in PlanUntil(final)
        BY <1>8, KeptPlan DEF kept
      <4> QED
        BY <4>1 DEF PlanUntil
    <3>9. IndexInTimes(kept.events, time) = here
      BY <1>4, <3>2, <3>5, <3>6, <3>7, <3>8, IndexBetween
    <3>10. kept.modes[here + 1] = modes[index + 1]
      <4>1. first + (here + 1) = index + 1
        BY <1>2, <3>1 DEF here
      <4> QED
        BY <1>5, <3>5, <4>1
    <3> QED
      BY <2>1, <3>9, <3>10 DEF ModeOf, ModeIn, ModeAt, index
  <2> QED
    BY <2>2, <2>3, <2>4, <2>5, <2>6 DEF tiling, begin
<1> QED
  BY <1>7, <1>8

\* Until its first switch a new gait stays in the mode of the phase it begins at.
LEMMA ModeContinues ==
  ASSUME NEW g \in Gait, g.swing = 0 \/ Regular(g), NEW phase \in Int,
         NEW j \in 0 .. Min({TimeToNextAfter(LegPhase(g, phase, leg), g) : leg \in Legs}) - 1
  PROVE  StanceAfter(g, phase, j) = StanceBefore(g, phase)
<1> DEFINE waits == {TimeToNextAfter(LegPhase(g, phase, leg), g) : leg \in Legs}
<1>1. CASE g.swing = 0
  <2>1. phase + j * g.rate \in Int
    <3>1. Min(waits) \in Nat
      BY WaitIsNumber
    <3>2. j \in Int
      BY <3>1
    <3> QED
      BY <3>2 DEF Gait
  <2> QED
    BY <1>1, <2>1, NoSwing DEF StanceAfter
<1>2. CASE g.swing # 0
  <2>1. Regular(g) /\ g.rate # 0
    BY <1>2, MinRateAssumption DEF Regular, Gait
  <2>2. \A leg \in Legs : /\ LegPhase(g, phase, leg) \in 0 .. Cycle - 1
                          /\ TimeToNextAfter(LegPhase(g, phase, leg), g) \in Nat
    BY PhaseOfLeg, NextModeLater DEF TimeToNextAfter
  <2>3. waits \in SUBSET Nat /\ waits # {}
    <3>1. 0 \in Legs
      BY EndEffectorsAssumption DEF Legs
    <3> QED
      BY <2>2, <3>1
  <2>4. Min(waits) \in Nat /\ \A wait \in waits : Min(waits) <= wait
    <3> HIDE DEF waits
    <3> QED
      BY <2>3, MinOfNumbers
  <2>5. j \in Nat /\ j < Min(waits)
    <3>1. j \in 0 .. Min(waits) - 1
      OBVIOUS
    <3> HIDE DEF waits
    <3> QED
      BY <2>4, <3>1
  <2>6. ASSUME NEW leg \in Legs
        PROVE  leg \in StanceAfter(g, phase, j) <=> leg \in StanceBefore(g, phase)
    <3> DEFINE x == LegPhase(g, phase, leg)
               wait == TimeToNextAfter(x, g)
    <3>1. wait \in Nat /\ j < wait
      <4>1. wait \in waits
        OBVIOUS
      <4> HIDE DEF waits, wait
      <4> QED
        BY <2>3, <2>4, <2>5, <4>1
    <3>2. x # 0 /\ x # g.swing /\ wait = TimeToNextMode(x, g)
      BY <2>1, <2>5, <3>1 DEF TimeToNextAfter
    <3>3. phase + 0 * g.rate = phase
      BY DEF Gait
    <3>4. WaitAfter(g, phase, 0, leg) = wait /\ StanceAfter(g, phase, 0) = Stance(g, phase)
      BY <3>2, <3>3 DEF WaitAfter, StanceAfter
    <3> HIDE DEF x, wait
    <3>5. leg \in StanceAfter(g, phase, 0 + j) <=> leg \in StanceAfter(g, phase, 0)
      <4>1. j \in 0 .. WaitAfter(g, phase, 0, leg) - 1
        BY <2>5, <3>1, <3>4
      <4>2. 0 \in Int
        OBVIOUS
      <4> QED
        BY <2>1, <4>1, <4>2, TicksAfter
    <3>6. leg \in Stance(g, phase) <=> leg \in StanceBefore(g, phase)
      <4>1. x \in Nat /\ g.swing \in Nat
        BY <2>2 DEF Gait, x
      <4>2. x >= g.swing <=> x = 0 \/ x > g.swing
        BY <3>2, <4>1
      <4> QED
        BY <4>2 DEF Stance, StanceBefore, x
    <3>7. 0 + j = j
      BY <2>5
    <3> QED
      BY <3>4, <3>5, <3>6, <3>7
  <2>7. StanceAfter(g, phase, j) \in SUBSET Legs /\ StanceBefore(g, phase) \in SUBSET Legs
    BY DEF StanceAfter, Stance, StanceBefore
  <2> QED
    BY <2>6, <2>7
<1> QED
  BY <1>1, <1>2

-----------------------------------------------------------------------------
(* The invariant.                                                          *)

\* The mode until a tick after the gait began is the one the gait has had since the
\* tick before.
ShowsGait(time) == ModeAt(time) = StanceAfter(gait, Last(changes).phase, time - 1 - gaitTime)

\* From where the gait begins, the plan shows it.
FollowsGait == \A time \in startTime + 1 .. Last(events) : time > gaitTime => ShowsGait(time)

\* Before, the plan shows the flags of the phase controller, except where it switches, at
\* its start and near a change.
NearChange(time) == \E i \in 1 .. Len(changes) : time - changes[i].time \in -MinTime .. MinTime - 1
Agrees(time) ==
  \/ ModeAt(time) = ContactFlagsAt(changes, time)
  \/ ModeAt(time) # ModeAt(time + 1)
  \/ time - startTime < MinTime
  \/ NearChange(time)
AgreesBefore == \A time \in startTime + 1 .. Last(events) : time <= gaitTime => Agrees(time)

\* A gait that is held as the demos hold theirs at first.
Held ==
  /\ gait.rate = 0 /\ gaitTime = 0
  /\ Stance(gait, Last(changes).phase) = StanceBefore(gait, Last(changes).phase)

GaitKnown == Chained(changes) /\ Last(changes).gait = gait /\ (Unmerged(gait) \/ Held)

\* The plan reaches the gait, and the gait is due before the next generation ends.
PlanReaches ==
  /\ Len(events) # 0 /\ Last(events) >= gaitTime /\ gaitTime <= UpdateTime + MinTime
  /\ startTime <= clock
  /\ Published => \E step \in Steps : clock = startTime + step

FollowInv == FollowsGait /\ AgreesBefore /\ GaitKnown /\ PlanReaches

\* What the invariants say of the types.
LEMMA PlannerTypes ==
  ASSUME PlannerInv, FollowInv
  PROVE  /\ events \in Seq(Nat) /\ Increasing(events) /\ Len(events) \in Nat \ {0}
         /\ Last(events) = events[Len(events)] /\ Last(events) \in Nat
         /\ {gaitTime, startTime, clock} \subseteq Nat
         /\ gait \in Gait /\ gait.rate \in Nat /\ changes \in KnownChanges /\ Chained(changes)
         /\ Last(changes) \in Change /\ Last(changes).time = gaitTime /\ Last(changes).gait = gait
         /\ Last(changes).phase \in Nat
<1>1. /\ events \in Seq(Nat) /\ Increasing(events) /\ Len(events) \in Nat \ {0}
  BY DEF PlannerInv, ScheduleInv, WellFormed, FollowInv, PlanReaches
<1>2. Last(events) = events[Len(events)] /\ Last(events) \in Nat
  BY <1>1 DEF Last
<1>3. changes \in KnownChanges /\ Last(changes).time = gaitTime
  BY DEF PlannerInv, GaitInv
<1>4. Last(changes) \in Change
  BY <1>3 DEF KnownChanges, Last
<1> QED
  BY <1>1, <1>2, <1>3, <1>4 DEF PlannerInv, GaitInv, ClockInv, FollowInv, GaitKnown, Change, Gait

\* Where the plan shows the gait, it shows the flags of the phase controller up to the
\* switches.
LEMMA ShownAgrees ==
  ASSUME PlannerInv, FollowInv, NEW time \in Int, time > gaitTime, ShowsGait(time),
         time < Last(events) => ShowsGait(time + 1)
  PROVE  \/ ModeAt(time) = ContactFlagsAt(changes, time)
         \/ time < Last(events) /\ ModeAt(time) # ModeAt(time + 1)
         \/ time >= Last(events)
<1> DEFINE phase == Last(changes).phase
           j == time - 1 - gaitTime
<1>1. /\ gaitTime \in Nat /\ gait \in Gait /\ gait.rate \in Nat /\ changes \in KnownChanges /\ Chained(changes)
      /\ Last(changes).time = gaitTime /\ Last(changes).gait = gait /\ phase \in Nat /\ Last(events) \in Nat
  BY PlannerTypes
<1>2. j \in Nat /\ j + 1 = time - gaitTime /\ time + 1 - 1 - gaitTime = j + 1
  BY <1>1
<1>3. ContactFlagsAt(changes, time) = StanceBefore(gait, phase + (j + 1) * gait.rate)
  <2>1. ChangeBefore(changes, time) = Last(changes)
        /\ PhaseAt(changes, time) = phase + (time - gaitTime) * gait.rate
    BY <1>1, PhaseSinceLast
  <2> QED
    BY <1>1, <1>2, <2>1 DEF ContactFlagsAt
<1>4. /\ ModeAt(time) = StanceAfter(gait, phase, j)
      /\ time < Last(events) => ModeAt(time + 1) = StanceAfter(gait, phase, j + 1)
  <2>1. (time + 1) - 1 - gaitTime = j + 1
    BY <1>1
  <2> QED
    BY <2>1 DEF ShowsGait
<1> HIDE DEF j, phase
<1>5. CASE gait.swing = 0
  <2>1. phase + j * gait.rate \in Int /\ phase + (j + 1) * gait.rate \in Int
    BY <1>1, <1>2
  <2> QED
    BY <1>1, <1>3, <1>4, <1>5, <2>1, NoSwing DEF StanceAfter
<1>6. CASE Held
  <2>1. phase + j * gait.rate = phase /\ phase + (j + 1) * gait.rate = phase
    BY <1>1, <1>2, <1>6 DEF Held
  <2> QED
    BY <1>3, <1>4, <1>6, <2>1 DEF StanceAfter, Held, phase
<1>7. CASE Regular(gait)
  <2> DEFINE Wait(leg) == WaitAfter(gait, phase, j, leg)
  <2>0. phase \in Int /\ j \in Int
    BY <1>1, <1>2
  <2>1. \A leg \in Legs :
          /\ Wait(leg) \in Nat \ {0}
          /\ Wait(leg) > 1 => (leg \in StanceBefore(gait, phase + (j + 1) * gait.rate) <=> leg \in StanceAfter(gait, phase, j))
          /\ Wait(leg) = 1 => (leg \in StanceAfter(gait, phase, j + 1) <=> ~(leg \in StanceAfter(gait, phase, j)))
    BY <1>1, <1>7, <2>0, TickAfter
  <2> HIDE DEF Wait
  <2>2. CASE \E leg \in Legs : Wait(leg) = 1
    <3>1. StanceAfter(gait, phase, j) # StanceAfter(gait, phase, j + 1)
      BY <2>1, <2>2
    <3> QED
      BY <1>1, <1>4, <3>1
  <2>3. CASE \A leg \in Legs : Wait(leg) # 1
    <3>1. \A leg \in Legs : leg \in StanceBefore(gait, phase + (j + 1) * gait.rate) <=> leg \in StanceAfter(gait, phase, j)
      BY <2>1, <2>3
    <3>2. StanceBefore(gait, phase + (j + 1) * gait.rate) \in SUBSET Legs /\ StanceAfter(gait, phase, j) \in SUBSET Legs
      BY DEF StanceAfter, Stance, StanceBefore
    <3>3. StanceBefore(gait, phase + (j + 1) * gait.rate) = StanceAfter(gait, phase, j)
      BY <3>1, <3>2
    <3> QED
      BY <1>3, <1>4, <3>3
  <2> QED
    BY <2>2, <2>3
<1> QED
  BY <1>5, <1>6, <1>7 DEF FollowInv, GaitKnown, Unmerged

\* The invariant is what the property asks for.
LEMMA FollowIsAgreement == PlannerInv /\ FollowInv => ModesFollowPhases
<1> SUFFICES ASSUME PlannerInv, FollowInv, Published, NEW time \in startTime .. FinalTime
             PROVE  ModeAt(time) = ContactFlagsAt(changes, time) \/ Transition(time)
  BY DEF ModesFollowPhases
<1>1. /\ events \in Seq(Nat) /\ Increasing(events) /\ Len(events) \in Nat \ {0}
      /\ Last(events) = events[Len(events)] /\ Last(events) \in Nat
      /\ {gaitTime, startTime, clock} \subseteq Nat /\ changes \in KnownChanges
  BY PlannerTypes
<1>2. FinalTime \in Nat /\ time \in Nat /\ startTime <= time /\ time <= FinalTime
  BY <1>1, TimesAssumption DEF FinalTime
<1>3. FinalTime <= Last(events)
  <2>1. Len(events) \in DOMAIN events
    BY <1>1
  <2> QED
    BY <1>1, <1>2, <2>1 DEF PlannerInv, ScheduleInv, EndsAt
<1>4. CASE time = startTime
  <2>1. time - startTime < MinTime
    BY <1>1, <1>4, MinTimeAssumption
  <2> QED
    BY <2>1 DEF Transition
<1>5. CASE time # startTime
  <2>1. time \in startTime + 1 .. Last(events)
    BY <1>1, <1>2, <1>3, <1>5
  <2>2. \A i \in 1 .. Len(events) : events[i] = time => Transition(time)
    <3> SUFFICES ASSUME NEW i \in 1 .. Len(events), events[i] = time PROVE Transition(time)
      OBVIOUS
    <3>1. i \in DOMAIN events /\ Abs(time - events[i]) < MinTime
      BY <1>1, <1>2, MinTimeAssumption DEF Abs
    <3> QED
      BY <3>1 DEF Transition
  <2>3. ModeAt(time) # ModeAt(time + 1) => Transition(time)
    <3> SUFFICES ASSUME ModeAt(time) # ModeAt(time + 1) PROVE Transition(time)
      OBVIOUS
    <3>1. ModeIn(events, modes, time) # ModeIn(events, modes, time + 1)
      BY DEF ModeIn, ModeAt
    <3>2. \E i \in 1 .. Len(events) : events[i] = time
      <4>1. time \in Int
        BY <1>2
      <4> QED
        BY <1>1, <3>1, <4>1, SwitchIsEvent
    <3> QED
      BY <2>2, <3>2
  <2>4. NearChange(time) => Transition(time)
    <3>1. DOMAIN changes = 1 .. Len(changes)
      BY <1>1 DEF KnownChanges
    <3> QED
      BY <3>1 DEF NearChange, Transition
  <2>5. CASE time <= gaitTime
    <3>1. Agrees(time)
      BY <2>1, <2>5 DEF FollowInv, AgreesBefore
    <3> QED
      BY <2>3, <2>4, <3>1 DEF Agrees, Transition
  <2>6. CASE ~(time <= gaitTime)
    <3>1. time > gaitTime /\ time \in Int
      BY <1>1, <1>2, <2>6
    <3>2. ShowsGait(time) /\ (time < Last(events) => ShowsGait(time + 1))
      <4>1. time < Last(events) => time + 1 \in startTime + 1 .. Last(events) /\ time + 1 > gaitTime
        BY <1>1, <1>2, <3>1
      <4> QED
        BY <2>1, <3>1, <4>1 DEF FollowInv, FollowsGait
    <3>3. \/ ModeAt(time) = ContactFlagsAt(changes, time)
          \/ time < Last(events) /\ ModeAt(time) # ModeAt(time + 1)
          \/ time >= Last(events)
      BY <3>1, <3>2, ShownAgrees
    <3>4. CASE time >= Last(events)
      <4>1. Len(events) \in 1 .. Len(events) /\ events[Len(events)] = time
        BY <1>1, <2>1, <3>4
      <4> QED
        BY <2>2, <4>1
    <3> QED
      BY <2>3, <3>3, <3>4
  <2> QED
    BY <2>5, <2>6
<1> QED
  BY <1>4, <1>5

\* The constructor establishes it.
LEMMA FollowInit == ASSUME NothingMerged PROVE Init => FollowInv
<1> SUFFICES ASSUME Init PROVE FollowInv
  OBVIOUS
<1>1. /\ Len(events) = 1 /\ Last(events) = 0 /\ startTime = 0 /\ gaitTime = 0 /\ clock = 0 /\ stage = "schedule"
      /\ Len(changes) = 1 /\ Last(changes).gait = InitGait /\ Last(changes).phase = InitPhase /\ gait = InitGait
  BY DEF Init, Last
<1>2. FollowsGait /\ AgreesBefore
  <2>1. \A time \in 0 + 1 .. 0 : FALSE
    OBVIOUS
  <2> QED
    BY <1>1, <2>1 DEF FollowsGait, AgreesBefore
<1>3. GaitKnown
  <2>1. Chained(changes)
    <3>1. \A i \in 1 .. 1 - 1 : FALSE
      OBVIOUS
    <3> QED
      BY <1>1, <3>1 DEF Chained
  <2>2. Unmerged(gait) \/ Held
    BY <1>1 DEF NothingMerged, Held
  <2> QED
    BY <1>1, <2>1, <2>2 DEF GaitKnown
<1>4. PlanReaches
  <2>1. UpdateTime \in Nat /\ UpdateTime + MinTime >= 0
    BY <1>1, TimesAssumption, MinTimeAssumption DEF UpdateTime
  <2> QED
    BY <1>1, <2>1 DEF PlanReaches, Published
<1> QED
  BY <1>2, <1>3, <1>4 DEF FollowInv

-----------------------------------------------------------------------------
(* What a change of gait does to the modes and the changes.                *)

\* A plan that has been handed over reaches the time at which a gait may change.
LEMMA PlanBeyondUpdate ==
  ASSUME NothingMerged, PlannerInv, FollowInv, stage = "gait"
  PROVE  UpdateTime \in Nat /\ UpdateTime <= Last(events)
<1>1. /\ events \in Seq(Nat) /\ Len(events) \in Nat \ {0} /\ Last(events) = events[Len(events)]
      /\ Last(events) \in Nat /\ {gaitTime, startTime, clock} \subseteq Nat
  BY PlannerTypes
<1>2. PICK step \in Steps : clock = startTime + step
  BY DEF FollowInv, PlanReaches, Published
<1>3. step \in Nat /\ step + GaitUpdateOffset <= Horizon /\ GaitUpdateOffset \in Nat /\ Horizon \in Nat
  BY TimesAssumption DEF NothingMerged
<1>4. Last(events) >= startTime + Horizon
  <2>1. Len(events) \in DOMAIN events
    BY <1>1
  <2> QED
    BY <1>1, <2>1 DEF PlannerInv, ScheduleInv, Published, EndsAt, FinalTime
<1> QED
  BY <1>1, <1>2, <1>3, <1>4 DEF UpdateTime

\* What a change of gait does to the modes and to the changes.
LEMMA UpdateShows ==
  ASSUME NothingMerged, PlannerInv, FollowInv, stage = "gait", NEW g \in Gaits,
         UpdateDynamicParameters(UpdateTime, g), gaitTime' > Last(changes).time
  PROVE  /\ gait' \in Gait /\ Unmerged(gait') /\ startTime' = startTime
         /\ gaitTime' \in {UpdateTime, UpdateTime + MinTime} /\ Last(events') \in Nat /\ Last(events') >= gaitTime'
         /\ \A time \in Int : time <= UpdateTime => ModeAt(time)' = ModeAt(time)
         /\ \A time \in gaitTime' + 1 .. Last(events') :
              ModeAt(time)' = StanceAfter(gait', PhaseAt(changes, gaitTime'), time - 1 - gaitTime')
         /\ \A time \in Int : time <= gaitTime' => ContactFlagsAt(changes', time) = ContactFlagsAt(changes, time)
         /\ \A i \in 1 .. Len(changes) : i \in 1 .. Len(changes') /\ changes'[i] = changes[i]
         /\ Chained(changes') /\ Len(changes') \in Nat \ {0}
         /\ Last(changes') = [time |-> gaitTime', gait |-> gait', phase |-> PhaseAt(changes, gaitTime')]
<1> DEFINE clamped == Clamp(g)
           phase == PhaseAt(changes, UpdateTime)
           index == IndexInTimes(events, UpdateTime)
           newMode == StanceBefore(clamped, phase)
<1>1. clamped \in Gait /\ Unmerged(clamped)
  BY GaitsAssumption, SteppableAssumption, ClampedGait DEF NothingMerged
<1>2. UpdateTime \in Nat /\ UpdateTime <= Last(events)
  BY PlanBeyondUpdate
<1>3. changes \in KnownChanges /\ Chained(changes) /\ phase \in Int
  BY <1>2, PlannerTypes, PhaseKnown
<1>4. gait' = clamped /\ changes' = AddChange(changes, gaitTime', clamped) /\ startTime' = startTime
  BY DEF UpdateDynamicParameters
<1>5. gaitTime' \in {UpdateTime, UpdateTime + MinTime} /\ gaitTime' \in Nat
  <2>1. gaitTime' \in {UpdateTime, UpdateTime + MinTime}
    BY <1>2, UpdateKeeps
  <2> QED
    BY <1>2, <2>1, MinTimeAssumption
<1> HIDE DEF clamped
<1>6. /\ \A time \in Int : time <= gaitTime' => ChangeBefore(changes', time) = ChangeBefore(changes, time)
      /\ \A i \in 1 .. Len(changes) : i \in 1 .. Len(changes') /\ changes'[i] = changes[i]
      /\ Chained(changes')
      /\ Last(changes') = [time |-> gaitTime', gait |-> gait', phase |-> PhaseAt(changes, gaitTime')]
  BY <1>1, <1>3, <1>4, <1>5, AdditionKeeps
<1>7. \A time \in Int : time <= gaitTime' => ContactFlagsAt(changes', time) = ContactFlagsAt(changes, time)
  BY <1>6 DEF ContactFlagsAt, PhaseAt
<1>8. Len(changes') \in Nat \ {0}
  <2>1. changes' \in KnownChanges
    BY <1>1, <1>3, <1>4, <1>5, ChangeAdded
  <2> QED
    BY <2>1 DEF KnownChanges
<1>9. WellFormed(events, modes)
  BY DEF PlannerInv, ScheduleInv
<1>10. \A time : ModeAt(time) = ModeIn(events, modes, time) /\ ModeAt(time)' = ModeIn(events', modes', time)
  BY DEF ModeAt, ModeIn
<1>11. CASE newMode = modes[index + 1]
  <2> DEFINE wait == Min({TimeToNextAfter(LegPhase(clamped, phase, leg), clamped) : leg \in Legs})
             end == UpdateTime + wait
  <2>1. ContinueMode(UpdateTime, clamped, index, phase)
    BY <1>11 DEF UpdateDynamicParameters, clamped
  <2>2. /\ gaitTime' = UpdateTime
        /\ events' = Append(SubSeq(events, 1, index), end)
        /\ modes' = Append(SubSeq(modes, 1, index + 1), Legs)
    BY <2>1 DEF ContinueMode
  <2>3. wait \in Nat
    BY <1>1, <1>3, WaitIsNumber
  <2>4. \A j \in 0 .. wait - 1 : StanceAfter(clamped, phase, j) = newMode
    <3>1. clamped.swing = 0 \/ Regular(clamped)
      BY <1>1 DEF Unmerged
    <3> HIDE DEF phase
    <3> QED
      BY <1>1, <1>3, <3>1, ModeContinues
  <2> HIDE DEF wait, phase, newMode
  <2>5. end \in Nat /\ end >= UpdateTime /\ Legs \in SUBSET Legs
    BY <1>2, <2>3
  <2> HIDE DEF end
  <2>6. /\ Last(events') = end
        /\ \A t \in Int : t <= UpdateTime => ModeIn(events', modes', t) = ModeIn(events, modes, t)
        /\ \A t \in UpdateTime + 1 .. end : ModeIn(events', modes', t) = modes[index + 1]
    <3> DEFINE cut == Append(SubSeq(events, 1, index), end)
               kept == Append(SubSeq(modes, 1, index + 1), Legs)
    <3>1. /\ Last(cut) = end
          /\ \A t \in Int : t <= UpdateTime => ModeIn(cut, kept, t) = ModeIn(events, modes, t)
          /\ \A t \in UpdateTime + 1 .. end : ModeIn(cut, kept, t) = modes[index + 1]
      BY <1>2, <1>9, <2>5, CutShown
    <3>2. events' = cut /\ modes' = kept
      BY <2>2
    <3> HIDE DEF cut, kept
    <3> QED
      BY <3>1, <3>2
  <2>7. ASSUME NEW time \in gaitTime' + 1 .. Last(events')
        PROVE  ModeAt(time)' = StanceAfter(gait', PhaseAt(changes, gaitTime'), time - 1 - gaitTime')
    <3>1. time - 1 - UpdateTime \in 0 .. wait - 1 /\ time \in UpdateTime + 1 .. end
      BY <1>2, <2>2, <2>3, <2>6 DEF end
    <3>2. ModeAt(time)' = modes[index + 1]
      BY <1>10, <2>6, <3>1
    <3>3. StanceAfter(clamped, phase, time - 1 - UpdateTime) = newMode
      BY <2>4, <3>1
    <3> QED
      BY <1>4, <1>11, <2>2, <3>2, <3>3 DEF phase
  <2>8. Last(events') \in Nat /\ Last(events') >= gaitTime'
    BY <2>2, <2>5, <2>6
  <2> QED
    BY <1>1, <1>4, <1>5, <1>6, <1>7, <1>8, <1>10, <2>6, <2>7, <2>8
<1>12. CASE newMode # modes[index + 1]
  <2>1. ChangeMode(UpdateTime, clamped, index, newMode)
    BY <1>12 DEF UpdateDynamicParameters, clamped
  <2>2. /\ events' = Append(SubSeq(events, 1, index), gaitTime')
        /\ modes' = Append(SubSeq(modes, 1, index + 1), newMode)
    BY <2>1 DEF ChangeMode
  <2>3. newMode \in SUBSET Legs
    BY DEF StanceBefore
  <2>4. gaitTime' >= UpdateTime
    BY <1>2, <1>5, MinTimeAssumption
  <2> HIDE DEF phase, newMode
  <2>5. /\ Last(events') = gaitTime'
        /\ \A t \in Int : t <= UpdateTime => ModeIn(events', modes', t) = ModeIn(events, modes, t)
    <3> DEFINE cut == Append(SubSeq(events, 1, index), gaitTime')
               kept == Append(SubSeq(modes, 1, index + 1), newMode)
    <3>1. /\ Last(cut) = gaitTime'
          /\ \A t \in Int : t <= UpdateTime => ModeIn(cut, kept, t) = ModeIn(events, modes, t)
      BY <1>2, <1>5, <1>9, <2>3, <2>4, CutShown
    <3>2. events' = cut /\ modes' = kept
      BY <2>2
    <3> HIDE DEF cut, kept
    <3> QED
      BY <3>1, <3>2
  <2>6. \A time \in gaitTime' + 1 .. Last(events') : FALSE
    <3>1. \A n \in Nat : \A time \in n + 1 .. n : FALSE
      OBVIOUS
    <3>2. gaitTime' \in Nat /\ Last(events') = gaitTime'
      BY <1>5, <2>5
    <3> QED
      BY <3>1, <3>2
  <2>7. \A time \in Int : time <= UpdateTime => ModeAt(time)' = ModeAt(time)
    BY <1>10, <2>5
  <2>8. Last(events') \in Nat /\ Last(events') >= gaitTime'
    BY <1>5, <2>5
  <2>9. gait' \in Gait /\ Unmerged(gait')
    BY <1>1, <1>4
  <2> QED
    BY <1>4, <1>5, <1>6, <1>7, <1>8, <2>6, <2>7, <2>8, <2>9
<1> QED
  BY <1>11, <1>12

\* A change of gait keeps the invariant.
LEMMA ChangeFollows ==
  ASSUME NothingMerged, PlannerInv, FollowInv, ChangeGait
  PROVE  FollowInv'
<1>1. PICK g \in Gaits : UpdateDynamicParameters(UpdateTime, g)
  BY DEF ChangeGait
<1>2. stage = "gait" /\ stage' = "schedule" /\ clock' = clock /\ UpdateTime >= gaitTime
      /\ gaitTime' > Last(changes).time
  BY DEF ChangeGait
<1>3. /\ events \in Seq(Nat) /\ Increasing(events) /\ Last(events) \in Nat /\ {gaitTime, startTime, clock} \subseteq Nat
      /\ Last(changes).time = gaitTime /\ changes \in KnownChanges
  BY PlannerTypes
<1>4. UpdateTime \in Nat /\ UpdateTime <= Last(events) /\ UpdateTime' = UpdateTime
  BY <1>2, PlanBeyondUpdate DEF UpdateTime
<1>5. /\ gait' \in Gait /\ Unmerged(gait') /\ startTime' = startTime
      /\ gaitTime' \in {UpdateTime, UpdateTime + MinTime} /\ Last(events') \in Nat /\ Last(events') >= gaitTime'
      /\ \A time \in Int : time <= UpdateTime => ModeAt(time)' = ModeAt(time)
      /\ \A time \in gaitTime' + 1 .. Last(events') :
           ModeAt(time)' = StanceAfter(gait', PhaseAt(changes, gaitTime'), time - 1 - gaitTime')
      /\ \A time \in Int : time <= gaitTime' => ContactFlagsAt(changes', time) = ContactFlagsAt(changes, time)
      /\ \A i \in 1 .. Len(changes) : i \in 1 .. Len(changes') /\ changes'[i] = changes[i]
      /\ Chained(changes') /\ Len(changes') \in Nat \ {0}
      /\ Last(changes') = [time |-> gaitTime', gait |-> gait', phase |-> PhaseAt(changes, gaitTime')]
  BY <1>1, <1>2, UpdateShows
<1>6. gaitTime' \in Nat /\ gaitTime' >= UpdateTime /\ MinTime \in Nat \ {0}
  BY <1>4, <1>5, MinTimeAssumption
<1>7. FollowsGait'
  <2>0. startTime' \in Nat /\ Last(events') \in Nat
    BY <1>3, <1>5
  <2>1. \A time \in startTime' + 1 .. Last(events') : time > gaitTime' => time \in gaitTime' + 1 .. Last(events')
    <3>1. \A s, c, l \in Nat : \A t \in s + 1 .. l : t > c => t \in c + 1 .. l
      OBVIOUS
    <3> QED
      BY <1>6, <2>0, <3>1
  <2>2. Last(changes').phase = PhaseAt(changes, gaitTime')
    BY <1>5
  <2>3. \A time \in startTime' + 1 .. Last(events') :
          time > gaitTime' => ModeAt(time)' = StanceAfter(gait', Last(changes').phase, time - 1 - gaitTime')
    BY <1>5, <2>1, <2>2
  <2> QED
    BY <2>3 DEF FollowsGait, ShowsGait
<1>8. AgreesBefore'
  <2> SUFFICES ASSUME NEW time \in startTime' + 1 .. Last(events'), time <= gaitTime'
               PROVE  Agrees(time)'
    BY DEF AgreesBefore
  <2>1. time \in Nat /\ time >= startTime + 1
    BY <1>3, <1>5
  <2>2. CASE time >= UpdateTime
    <3>0. gaitTime' <= UpdateTime + MinTime
      BY <1>4, <1>5, <1>6
    <3>1. time - gaitTime' \in -MinTime .. MinTime - 1
      <4>1. \A t, u, c, m \in Nat : u <= t /\ t <= c /\ c <= u + m /\ m # 0 => t - c \in -m .. m - 1
        OBVIOUS
      <4> QED
        BY <1>4, <1>6, <2>1, <2>2, <3>0, <4>1
    <3>2. Len(changes') \in 1 .. Len(changes') /\ changes'[Len(changes')].time = gaitTime'
      BY <1>5 DEF Last
    <3> QED
      BY <3>1, <3>2 DEF Agrees, NearChange
  <2>3. CASE time < UpdateTime
    <3>1. time \in startTime + 1 .. Last(events) /\ time \in Int /\ time <= UpdateTime
          /\ time + 1 \in Int /\ time + 1 <= UpdateTime
      BY <1>3, <1>4, <2>1, <2>3
    <3>2. ModeAt(time)' = ModeAt(time) /\ ModeAt(time + 1)' = ModeAt(time + 1)
          /\ ContactFlagsAt(changes', time) = ContactFlagsAt(changes, time)
      BY <1>5, <3>1
    <3>3. NearChange(time) => NearChange(time)'
      BY <1>5 DEF NearChange
    <3>4. Agrees(time)
      <4>1. CASE time <= gaitTime
        BY <3>1, <4>1 DEF FollowInv, AgreesBefore
      <4>2. CASE ~(time <= gaitTime)
        <5>1. time > gaitTime /\ time < Last(events) /\ time + 1 \in startTime + 1 .. Last(events) /\ time + 1 > gaitTime
          BY <1>3, <1>4, <2>1, <2>3, <4>2
        <5>2. ShowsGait(time) /\ ShowsGait(time + 1)
          BY <3>1, <5>1 DEF FollowInv, FollowsGait
        <5>3. ~(time >= Last(events))
          BY <1>3, <2>1, <5>1
        <5> QED
          BY <3>1, <5>1, <5>2, <5>3, ShownAgrees DEF Agrees
      <4> QED
        BY <4>1, <4>2
    <3> QED
      BY <1>5, <3>2, <3>3, <3>4 DEF Agrees
  <2> QED
    BY <1>4, <2>1, <2>2, <2>3
<1>9. GaitKnown'
  <2>1. Last(changes').gait = gait'
    BY <1>5
  <2>2. Unmerged(gait)'
    BY <1>5 DEF Unmerged, Regular, Prompt, Duration, Ticks
  <2>3. Chained(changes)' /\ (Last(changes).gait = gait)'
    BY <1>5, <2>1
  <2> QED
    BY <2>2, <2>3 DEF GaitKnown
<1>10. PlanReaches'
  <2>2. Len(events') # 0
    <3>2. \E e : events' = Append(SubSeq(events, 1, IndexInTimes(events, UpdateTime)), e)
      BY <1>1 DEF UpdateDynamicParameters, ContinueMode, ChangeMode
    <3>3. PICK e : events' = Append(SubSeq(events, 1, IndexInTimes(events, UpdateTime)), e)
      BY <3>2
    <3>4. IndexInTimes(events, UpdateTime) \in 0 .. Len(events)
      BY <1>3, <1>4, IndexOfPrefix
    <3>5. SubSeq(events, 1, IndexInTimes(events, UpdateTime)) \in Seq(Nat)
          /\ Len(SubSeq(events, 1, IndexInTimes(events, UpdateTime))) \in Nat
      BY <1>3, <3>4, PrefixProperties
    <3>6. \A s \in Seq(Nat) : Len(Append(s, e)) = Len(s) + 1
      OBVIOUS
    <3> QED
      BY <3>3, <3>5, <3>6
  <2>3. gaitTime' <= UpdateTime + MinTime /\ startTime' <= clock'
    BY <1>2, <1>4, <1>5, <1>6 DEF FollowInv, PlanReaches
  <2> QED
    BY <1>2, <1>4, <1>5, <2>2, <2>3 DEF PlanReaches, Published
<1> QED
  BY <1>7, <1>8, <1>9, <1>10 DEF FollowInv

-----------------------------------------------------------------------------
(* What a generation does to the modes.                                    *)

\* Until the tiling begins the modes are kept, and from then on they are those of the
\* gait.
LEMMA ScheduleShows ==
  ASSUME PlannerInv, FollowInv, NEW start \in Nat, NEW final \in Nat, start < final, GetModeSchedule(start, final)
  PROVE  LET tiling == TilingTime(start, final)
             phase == PhaseAt(changes, tiling)
         IN  /\ Len(events') # 0 /\ Last(events') \in Nat /\ Last(events') >= final
             /\ \A time \in start + 1 .. tiling : ModeAt(time)' = ModeAt(time)
             /\ \A time \in tiling + 1 .. Last(events') :
                  ModeAt(time)' = StanceAfter(gait, phase, time - 1 - tiling)
<1> DEFINE known == RemoveBefore(changes, start)
           tiling == TilingTime(start, final)
           begin == TiledPlan(known, start, final)
           phase == PhaseAt(changes, tiling)
           plan == Tile(begin, Template(gait, phase, final - tiling), final)
<1>1. WellFormed(events, modes) /\ changes \in KnownChanges /\ gait \in Gait /\ Steppable(gait)
  BY DEF PlannerInv, ScheduleInv, GaitInv
<1>2. known \in KnownChanges
  BY <1>1, ChangesRemoved
<1>3. tiling \in Nat /\ tiling >= start /\ \A time \in start + 1 .. tiling : ModeOf(begin, time) = ModeAt(time)
  BY <1>1, TiledShown
<1>4. PhaseAt(known, tiling) = phase
  <2>1. start \in Int /\ tiling \in Int /\ tiling >= start
    BY <1>3
  <2> HIDE DEF tiling, known
  <2>2. ChangeBefore(known, tiling) = ChangeBefore(changes, tiling)
    BY <1>1, <2>1, RemovalKeeps DEF known
  <2> QED
    BY <2>2 DEF PhaseAt
<1>5. events' = plan.events /\ modes' = Append(plan.modes, Legs)
  <2>1. events' = Tile(begin, Template(gait, TilingPhase(known, tiling, start), final - tiling), final).events
        /\ modes' = Append(Tile(begin, Template(gait, TilingPhase(known, tiling, start), final - tiling), final).modes, Legs)
    BY DEF GetModeSchedule, TilingTime, TiledPlan
  <2> QED
    BY <1>4, <2>1 DEF TilingPhase
<1>6. begin \in PlanUntil(final) /\ Last(begin.events) = tiling /\ tiling < final
  BY <1>1, <1>2, TiledPlanOpen
<1> HIDE DEF known, tiling, begin
<1>7. phase \in Int
  <2>1. tiling \in Int
    BY <1>3
  <2> QED
    BY <1>1, <2>1, PhaseKnown
<1> HIDE DEF phase
<1>8. Exact(gait)
  BY DEF FollowInv, GaitKnown, Unmerged, Held, Exact
<1>9. /\ plan \in PlanUntil(final) /\ Last(plan.events) >= final
      /\ \E long \in Nat : Last(plan.events) = tiling + long /\ GoesOn(plan, begin, tiling, gait, phase, long)
  <2>1. LET next == Tile(begin, Template(gait, phase, final - Last(begin.events)), final)
        IN  /\ next \in PlanUntil(final) /\ Last(next.events) >= final
            /\ \E long \in Nat : /\ Last(next.events) = Last(begin.events) + long
                                 /\ GoesOn(next, begin, Last(begin.events), gait, phase, long)
    BY <1>1, <1>6, <1>7, <1>8, TileGoesOn
  <2> QED
    BY <1>6, <2>1
<1> HIDE DEF plan
<1>10. PICK long \in Nat : Last(plan.events) = tiling + long /\ GoesOn(plan, begin, tiling, gait, phase, long)
  BY <1>9
<1>11. plan \in Plan /\ Increasing(plan.events)
  BY <1>9 DEF PlanUntil
<1>12. \A time \in Int : time <= tiling + long => ModeAt(time)' = ModeOf(plan, time)
  <2> SUFFICES ASSUME NEW time \in Int, time <= tiling + long PROVE ModeAt(time)' = ModeOf(plan, time)
    OBVIOUS
  <2>1. ModeIn(plan.events, Append(plan.modes, Legs), time) = ModeOf(plan, time)
    BY <1>10, <1>11, ClosingShown
  <2> QED
    BY <1>5, <2>1 DEF ModeAt, ModeIn
<1>13. ASSUME NEW time \in start + 1 .. tiling PROVE ModeAt(time)' = ModeAt(time)
  <2>1. time \in Int /\ time <= tiling /\ time <= tiling + long
    BY <1>3
  <2>2. ModeOf(plan, time) = ModeOf(begin, time)
    BY <1>10, <2>1 DEF GoesOn
  <2> QED
    BY <1>3, <1>12, <2>1, <2>2
<1>14. ASSUME NEW time \in tiling + 1 .. tiling + long
       PROVE  ModeAt(time)' = StanceAfter(gait, phase, time - 1 - tiling)
  <2>1. time \in Int /\ time <= tiling + long
    BY <1>3
  <2>2. ModeOf(plan, time) = StanceAfter(gait, phase, time - 1 - tiling)
    BY <1>10 DEF GoesOn
  <2> QED
    BY <1>12, <2>1, <2>2
<1>15. Last(events') = tiling + long /\ Last(events') \in Nat /\ Last(events') >= final
  BY <1>3, <1>5, <1>9, <1>10
<1>16. Len(events') # 0
  BY <1>5, <1>11 DEF Plan
<1> QED
  BY <1>13, <1>14, <1>15, <1>16 DEF tiling, phase

\* The tiling begins after the gait does, unless the gait has no swing and what comes
\* before it is already a stance.
LEMMA TilingAfterGait ==
  ASSUME NothingMerged, PlannerInv, FollowInv, TilingTime(clock, clock + Horizon) < gaitTime
  PROVE  /\ gait.swing = 0 /\ gaitTime < clock + Horizon
         /\ \A time \in TilingTime(clock, clock + Horizon) + 1 .. gaitTime + 1 : ModeAt(time) = Legs
<1> DEFINE final == clock + Horizon
           tiling == TilingTime(clock, final)
           phase == Last(changes).phase
<1>1. /\ events \in Seq(Nat) /\ Increasing(events) /\ Len(events) \in Nat \ {0}
      /\ Last(events) = events[Len(events)] /\ Last(events) \in Nat
      /\ {gaitTime, startTime, clock} \subseteq Nat /\ gait \in Gait /\ gait.rate \in Nat /\ phase \in Nat
  BY PlannerTypes
<1>2. final \in Nat /\ clock < final
  BY <1>1, TimesAssumption
<1>3. /\ tiling \in Nat /\ tiling >= clock
      /\ \A i \in 1 .. Len(events) : ~(tiling < events[i] /\ events[i] < final)
  <2>1. WellFormed(events, modes)
    BY DEF PlannerInv, ScheduleInv
  <2>2. clock \in Nat /\ final \in Nat
    BY <1>1, <1>2
  <2> HIDE DEF final
  <2> QED
    BY <1>2, <2>1, <2>2, TiledShown
<1>4. GaitUpdateOffset \in Nat /\ MinTime \in Nat /\ Horizon \in Nat /\ gaitTime <= clock + GaitUpdateOffset + MinTime
  <2>1. gaitTime <= UpdateTime + MinTime
    BY DEF FollowInv, PlanReaches
  <2> QED
    BY <2>1, TimesAssumption, MinTimeAssumption DEF UpdateTime
<1>5. gaitTime < final
  BY <1>1, <1>4 DEF NothingMerged
<1> HIDE DEF tiling
<1>6. tiling < gaitTime
  BY DEF tiling
<1>7. Last(events) >= final
  <2>1. Len(events) \in 1 .. Len(events) /\ Last(events) >= gaitTime
    BY <1>1 DEF FollowInv, PlanReaches
  <2> QED
    BY <1>1, <1>2, <1>3, <1>6, <2>1
<1>8. startTime <= tiling
  BY <1>1, <1>3 DEF FollowInv, PlanReaches
<1>9. Unmerged(gait)
  <2>1. gaitTime # 0
    BY <1>1, <1>3, <1>6
  <2> QED
    BY <2>1 DEF FollowInv, GaitKnown, Held
<1> HIDE DEF phase
<1>10. ASSUME NEW j \in Nat, gaitTime + j < final
       PROVE  ModeAt(gaitTime + j + 1) = StanceAfter(gait, phase, j)
  <2> DEFINE time == gaitTime + j + 1
  <2>1. time \in startTime + 1 .. Last(events) /\ time > gaitTime /\ time - 1 - gaitTime = j
    <3> HIDE DEF final
    <3> QED
      BY <1>1, <1>2, <1>3, <1>6, <1>7, <1>8, <1>10
  <2> HIDE DEF time
  <2>2. ShowsGait(time)
    BY <2>1 DEF FollowInv, FollowsGait
  <2> QED
    BY <2>1, <2>2 DEF ShowsGait, phase, time
<1>11. gait.swing = 0
  <2> SUFFICES ASSUME gait.swing # 0 PROVE FALSE
    OBVIOUS
  <2>1. Regular(gait) /\ Prompt(gait)
    BY <1>9 DEF Unmerged
  <2> DEFINE wait == WaitAfter(gait, phase, 0, 0)
             now == 0 \in StanceAfter(gait, phase, 0)
  <2>2. 0 \in Legs
    BY EndEffectorsAssumption DEF Legs
  <2>3. \E stance \in BOOLEAN : wait <= Duration(gait, stance)
    <3>1. phase + 0 * gait.rate \in Int
      BY <1>1
    <3>2. LegPhase(gait, phase + 0 * gait.rate, 0) \in 0 .. Cycle - 1
      BY <1>1, <2>2, <3>1, PhaseOfLeg
    <3> QED
      BY <1>1, <2>1, <3>2, WaitBounded DEF WaitAfter
  <2>4. /\ wait \in Nat \ {0}
        /\ \A i \in 0 .. wait - 1 : 0 \in StanceAfter(gait, phase, 0 + i) <=> now
        /\ 0 \in StanceAfter(gait, phase, 0 + wait) <=> ~now
    <3>1. phase \in Int /\ 0 \in Int
      BY <1>1
    <3> QED
      BY <1>1, <2>1, <2>2, <3>1, TicksAfter
  <2> HIDE DEF wait, now
  <2>5. gaitTime + wait < final
    <3>1. PICK stance \in BOOLEAN : wait <= Duration(gait, stance)
      BY <2>3
    <3>2. GaitUpdateOffset + MinTime + Duration(gait, stance) < Horizon
      BY <2>1 DEF Prompt
    <3>3. PICK d \in Nat : d = Duration(gait, stance)
      <4>1. Duration(gait, FALSE) \in Nat /\ Duration(gait, TRUE) \in Nat
        BY <1>1, <2>1, RegularModes
      <4> QED
        BY <4>1
    <3> QED
      BY <1>1, <1>4, <2>4, <3>1, <3>2, <3>3
  <2>6. /\ wait \in Nat /\ wait - 1 \in Nat /\ (wait - 1) \in 0 .. wait - 1
        /\ gaitTime + (wait - 1) < final /\ gaitTime + (wait - 1) + 1 = gaitTime + wait
    BY <1>1, <1>2, <2>4, <2>5
  <2>7. ModeAt(gaitTime + wait) = StanceAfter(gait, phase, wait - 1)
        /\ ModeAt(gaitTime + wait + 1) = StanceAfter(gait, phase, wait)
    BY <1>10, <2>5, <2>6
  <2>8. 0 + (wait - 1) = wait - 1 /\ 0 + wait = wait
    BY <2>6
  <2>9. ModeAt(gaitTime + wait) # ModeAt(gaitTime + wait + 1)
    BY <2>4, <2>6, <2>7, <2>8
  <2>10. \E i \in 1 .. Len(events) : events[i] = gaitTime + wait
    <3>1. ModeIn(events, modes, gaitTime + wait) # ModeIn(events, modes, gaitTime + wait + 1)
      BY <2>9 DEF ModeIn, ModeAt
    <3>2. gaitTime + wait \in Int
      BY <1>1, <2>6
    <3> QED
      BY <1>1, <3>1, <3>2, SwitchIsEvent
  <2> QED
    BY <1>1, <1>3, <1>6, <2>5, <2>6, <2>10
<1>12. ASSUME NEW time \in tiling + 1 .. gaitTime + 1 PROVE ModeAt(time) = Legs
  <2>1. ModeAt(gaitTime + 1) = Legs
    <3>1. gaitTime + 0 < final /\ gaitTime + 0 + 1 = gaitTime + 1
      BY <1>1, <1>5
    <3>2. ModeAt(gaitTime + 1) = StanceAfter(gait, phase, 0)
      BY <1>10, <3>1
    <3>3. phase + 0 * gait.rate \in Int
      BY <1>1
    <3> QED
      BY <1>1, <1>11, <3>2, <3>3, NoSwing DEF StanceAfter
  <2>2. ModeIn(events, modes, time) = ModeIn(events, modes, gaitTime + 1)
    <3>1. time \in Int /\ gaitTime + 1 \in Int /\ time <= gaitTime + 1
      BY <1>1, <1>3
    <3>2. \A i \in 1 .. Len(events) : ~(time <= events[i] /\ events[i] < gaitTime + 1)
      <4> TAKE i \in 1 .. Len(events)
      <4>1. events[i] \in Nat /\ ~(tiling < events[i] /\ events[i] < final)
        BY <1>1, <1>3
      <4> QED
        BY <1>1, <1>2, <1>3, <1>5, <4>1
    <3> QED
      BY <1>1, <3>1, <3>2, NoEventNoSwitch
  <2> QED
    BY <2>1, <2>2 DEF ModeAt, ModeIn
<1> QED
  BY <1>5, <1>11, <1>12 DEF tiling

\* A generation keeps the invariant.
LEMMA ScheduleFollows ==
  ASSUME NothingMerged, PlannerInv, FollowInv, Schedule
  PROVE  FollowInv'
<1> DEFINE final == clock + Horizon
           tiling == TilingTime(clock, final)
           phase == PhaseAt(changes, tiling)
           first == Last(changes).phase
<1>1. /\ events \in Seq(Nat) /\ Increasing(events) /\ Len(events) \in Nat \ {0} /\ Last(events) \in Nat
      /\ Last(events) = events[Len(events)]
      /\ {gaitTime, startTime, clock} \subseteq Nat /\ gait \in Gait /\ gait.rate \in Nat
      /\ changes \in KnownChanges /\ Chained(changes)
      /\ Last(changes).time = gaitTime /\ Last(changes).gait = gait /\ first \in Nat
  BY PlannerTypes
<1>2. final \in Nat /\ clock < final
  BY <1>1, TimesAssumption
<1>3. GetModeSchedule(clock, final) /\ stage' = "gait"
  BY DEF Schedule
<1>4. changes' = RemoveBefore(changes, clock) /\ startTime' = clock /\ gait' = gait /\ gaitTime' = gaitTime
  BY <1>3 DEF GetModeSchedule
<1>5. PICK step \in Steps : clock' = clock + step
  BY DEF Schedule
<1>6. startTime <= clock /\ Last(events) >= gaitTime
  BY DEF FollowInv, PlanReaches
<1>7. WellFormed(events, modes)
  BY DEF PlannerInv, ScheduleInv
<1>8. /\ Len(events') # 0 /\ Last(events') \in Nat /\ Last(events') >= final
      /\ \A time \in clock + 1 .. tiling : ModeAt(time)' = ModeAt(time)
      /\ \A time \in tiling + 1 .. Last(events') : ModeAt(time)' = StanceAfter(gait, phase, time - 1 - tiling)
  <2>1. clock \in Nat
    BY <1>1
  <2> HIDE DEF final
  <2> QED
    BY <1>2, <1>3, <2>1, ScheduleShows
<1>9. tiling \in Nat /\ tiling >= clock /\ (tiling > clock => tiling <= Last(events))
  <2>1. clock \in Nat
    BY <1>1
  <2> HIDE DEF final
  <2>2. /\ tiling \in Nat /\ tiling >= clock
        /\ tiling > clock => \E i \in 1 .. Len(events) : events[i] = tiling
    BY <1>2, <1>7, <2>1, TiledShown
  <2>3. \A i \in 1 .. Len(events) : events[i] <= Last(events)
    <3> TAKE i \in 1 .. Len(events)
    <3>1. Len(events) \in DOMAIN events /\ i \in DOMAIN events /\ events[i] \in Nat
      BY <1>1
    <3> QED
      BY <1>1, <3>1 DEF Increasing
  <2> QED
    BY <2>2, <2>3
<1>10. tiling < gaitTime => /\ gait.swing = 0 /\ gaitTime < final
                            /\ \A time \in tiling + 1 .. gaitTime + 1 : ModeAt(time) = Legs
  BY TilingAfterGait
<1>11. tiling >= gaitTime => phase = first + (tiling - gaitTime) * gait.rate
  <2> HIDE DEF tiling
  <2>1. tiling \in Int
    BY <1>9
  <2> QED
    BY <1>1, <2>1, PhaseSinceLast
<1>12. phase \in Int
  <2> HIDE DEF tiling
  <2>1. tiling \in Int
    BY <1>9
  <2> QED
    BY <1>1, <2>1, PhaseKnown
<1> HIDE DEF tiling, final, phase
<1>13. gaitTime < final => gaitTime < Last(events')
  BY <1>1, <1>2, <1>8
<1>14. Last(changes') = Last(changes) /\ Chained(changes') /\ changes' \in KnownChanges
  <2>1. clock \in Int
    BY <1>1
  <2> QED
    BY <1>1, <1>4, <2>1, ChangesRemoved, RemovalKeeps
<1>15. FollowsGait'
  <2>1. ASSUME NEW time \in clock + 1 .. Last(events'), time > gaitTime
        PROVE  ModeAt(time)' = StanceAfter(gait, first, time - 1 - gaitTime)
    <3>0. time \in Int /\ clock < time
      BY <1>1, <1>8
    <3>1. CASE time <= tiling
      <4>1. time \in clock + 1 .. tiling /\ time \in startTime + 1 .. Last(events)
        BY <1>1, <1>6, <1>9, <2>1, <3>0, <3>1
      <4>2. ShowsGait(time)
        BY <2>1, <4>1 DEF FollowInv, FollowsGait
      <4> QED
        BY <1>8, <4>1, <4>2 DEF ShowsGait
    <3>2. CASE ~(time <= tiling)
      <4>1. time \in tiling + 1 .. Last(events')
        BY <1>8, <1>9, <3>0, <3>2
      <4>2. ModeAt(time)' = StanceAfter(gait, phase, time - 1 - tiling)
        BY <1>8, <4>1
      <4>3. CASE tiling >= gaitTime
        <5> DEFINE r == gait.rate
        <5>1. \A a, b, c, p, q \in Int : (p + (b - c) * q) + (a - 1 - b) * q = p + (a - 1 - c) * q
          OBVIOUS
        <5>2. time \in Int /\ tiling \in Int /\ gaitTime \in Int /\ first \in Int /\ r \in Int
          BY <1>1, <1>9, <3>0
        <5> HIDE DEF r, first
        <5>3. (first + (tiling - gaitTime) * r) + (time - 1 - tiling) * r = first + (time - 1 - gaitTime) * r
          BY <5>1, <5>2
        <5>4. phase = first + (tiling - gaitTime) * r
          BY <1>11, <4>3 DEF r
        <5>5. phase + (time - 1 - tiling) * r = first + (time - 1 - gaitTime) * r
          BY <5>3, <5>4
        <5> QED
          BY <4>2, <5>5 DEF StanceAfter, r
      <4>4. CASE ~(tiling >= gaitTime)
        <5>1. gait.swing = 0
          BY <1>1, <1>9, <1>10, <4>4
        <5>2. phase + (time - 1 - tiling) * gait.rate \in Int /\ first + (time - 1 - gaitTime) * gait.rate \in Int
          <6>1. \A p, a, q \in Int : p + a * q \in Int
            OBVIOUS
          <6>2. time - 1 - tiling \in Int /\ time - 1 - gaitTime \in Int /\ first \in Int /\ gait.rate \in Int
            BY <1>1, <1>9, <3>0
          <6> QED
            BY <1>12, <6>1, <6>2
        <5> QED
          BY <1>1, <4>2, <5>1, <5>2, NoSwing DEF StanceAfter
      <4> QED
        BY <4>3, <4>4
    <3> QED
      BY <3>1, <3>2
  <2>2. Last(changes').phase = first
    BY <1>14
  <2> HIDE DEF first
  <2>3. \A time \in startTime' + 1 .. Last(events') :
          time > gaitTime' => ModeAt(time)' = StanceAfter(gait', Last(changes').phase, time - 1 - gaitTime')
    BY <1>4, <2>1, <2>2
  <2> QED
    BY <2>3 DEF FollowsGait, ShowsGait
<1>16. AgreesBefore'
  <2>1. ASSUME NEW time \in clock + 1 .. Last(events'), time <= gaitTime
        PROVE  Agrees(time)'
    <3>0. time \in Nat /\ clock < time
      BY <1>1, <1>8
    <3>1. CASE time = tiling /\ gaitTime = tiling
      <4>1. time - gaitTime \in -MinTime .. MinTime - 1
        BY <1>1, <3>0, <3>1, MinTimeAssumption
      <4>2. Len(changes') \in 1 .. Len(changes') /\ changes'[Len(changes')].time = gaitTime'
        BY <1>1, <1>4, <1>14 DEF KnownChanges, Last
      <4> QED
        BY <1>4, <4>1, <4>2 DEF Agrees, NearChange
    <3>2. CASE ~(time = tiling /\ gaitTime = tiling)
      <4>1. ModeAt(time)' = ModeAt(time) /\ ModeAt(time + 1)' = ModeAt(time + 1)
        <5>1. CASE time < tiling
          <6>1. time \in clock + 1 .. tiling /\ time + 1 \in clock + 1 .. tiling
            BY <1>1, <1>9, <3>0, <5>1
          <6> QED
            BY <1>8, <6>1
        <5>2. CASE ~(time < tiling)
          <6>1. tiling < gaitTime
            BY <1>1, <1>9, <2>1, <3>0, <3>2, <5>2
          <6>2. ASSUME NEW t \in tiling + 1 .. gaitTime + 1 PROVE ModeAt(t)' = ModeAt(t)
            <7>1. t \in Int /\ t \in tiling + 1 .. Last(events')
              BY <1>1, <1>8, <1>9, <1>10, <1>13, <6>1
            <7>2. ModeAt(t)' = StanceAfter(gait, phase, t - 1 - tiling)
              BY <1>8, <7>1
            <7>3. phase + (t - 1 - tiling) * gait.rate \in Int
              BY <1>1, <1>9, <1>12, <7>1
            <7>4. ModeAt(t) = Legs
              BY <1>10, <6>1, <6>2
            <7> QED
              BY <1>1, <1>10, <6>1, <7>2, <7>3, <7>4, NoSwing DEF StanceAfter
          <6>3. time + 1 \in tiling + 1 .. gaitTime + 1
            BY <1>1, <1>9, <2>1, <3>0, <5>2
          <6>4. CASE time = tiling
            <7>1. time \in clock + 1 .. tiling
              BY <1>1, <1>9, <3>0, <6>4
            <7> QED
              BY <1>8, <6>2, <6>3, <7>1
          <6>5. CASE time # tiling
            <7>1. time \in tiling + 1 .. gaitTime + 1
              BY <1>1, <1>9, <2>1, <3>0, <5>2, <6>5
            <7> QED
              BY <6>2, <6>3, <7>1
          <6> QED
            BY <6>4, <6>5
        <5> QED
          BY <5>1, <5>2
      <4>2. Agrees(time)
        <5>1. time \in startTime + 1 .. Last(events)
          BY <1>1, <1>6, <2>1, <3>0
        <5> QED
          BY <2>1, <5>1 DEF FollowInv, AgreesBefore
      <4>3. ContactFlagsAt(changes', time) = ContactFlagsAt(changes, time)
        <5>1. time \in Int /\ clock \in Int /\ time >= clock
          BY <1>1, <3>0
        <5>2. ChangeBefore(changes', time) = ChangeBefore(changes, time)
          BY <1>1, <1>4, <5>1, RemovalKeeps
        <5> QED
          BY <5>2 DEF ContactFlagsAt, PhaseAt
      <4>4. time - startTime < MinTime => time - clock < MinTime
        BY <1>1, <1>6, <3>0, MinTimeAssumption
      <4>5. NearChange(time) => time - clock < MinTime \/ NearChange(time)'
        <5> SUFFICES ASSUME NEW i \in 1 .. Len(changes), time - changes[i].time \in -MinTime .. MinTime - 1
                     PROVE  time - clock < MinTime \/ NearChange(time)'
          BY DEF NearChange
        <5>1. changes[i].time \in Nat
          <6>1. changes[i] \in Change
            BY <1>1 DEF KnownChanges
          <6> QED
            BY <6>1 DEF Change
        <5>2. CASE changes[i].time >= clock
          <6>1. \E k \in 1 .. Len(changes') : changes'[k] = changes[i]
            <7>1. clock \in Int
              BY <1>1
            <7> QED
              BY <1>1, <1>4, <5>2, <7>1, RemovalKeeps
          <6> QED
            BY <6>1 DEF NearChange
        <5>3. CASE ~(changes[i].time >= clock)
          <6>1. PICK c \in Nat : c = changes[i].time
            BY <5>1
          <6>2. time - c <= MinTime - 1 /\ c < clock
            BY <1>1, <3>0, <5>3, <6>1, MinTimeAssumption
          <6> QED
            BY <1>1, <3>0, <6>2, MinTimeAssumption
        <5> QED
          BY <5>2, <5>3
      <4> QED
        BY <1>4, <4>1, <4>2, <4>3, <4>4, <4>5 DEF Agrees
    <3> QED
      BY <3>1, <3>2
  <2>2. \A time \in startTime' + 1 .. Last(events') : time <= gaitTime' => Agrees(time)'
    BY <1>4, <2>1
  <2> QED
    BY <2>2 DEF AgreesBefore
<1>17. GaitKnown'
  <2>1. Unmerged(gait)' \/ Held'
    BY <1>4, <1>14 DEF FollowInv, GaitKnown, Held, Unmerged, Regular, Prompt, Duration, Ticks
  <2> QED
    BY <1>1, <1>4, <1>14, <2>1 DEF GaitKnown
<1>18. PlanReaches'
  <2>1. step \in Nat /\ GaitUpdateOffset \in Nat /\ MinTime \in Nat /\ Horizon \in Nat
    BY TimesAssumption, MinTimeAssumption
  <2>2. gaitTime <= UpdateTime + MinTime /\ UpdateTime' = clock' + GaitUpdateOffset
    BY DEF FollowInv, PlanReaches, UpdateTime
  <2>3. gaitTime' <= UpdateTime' + MinTime /\ startTime' <= clock'
    BY <1>1, <1>4, <1>5, <2>1, <2>2 DEF UpdateTime
  <2>4. Last(events') >= gaitTime'
    <3>1. gaitTime < final
      BY <1>1, <2>1, <2>2 DEF NothingMerged, UpdateTime, final
    <3> QED
      BY <1>1, <1>4, <1>8, <1>13, <3>1
  <2> QED
    BY <1>4, <1>5, <1>8, <2>3, <2>4 DEF PlanReaches
<1> QED
  BY <1>15, <1>16, <1>17, <1>18 DEF FollowInv

\* The same without a change of gait.
LEMMA KeepFollows ==
  ASSUME FollowInv, KeepGait \/ UNCHANGED vars
  PROVE  FollowInv'
<1>1. plannerVars' = plannerVars /\ clock' = clock /\ (Published' => Published)
  BY DEF KeepGait, vars, Published
<1>2. FollowsGait' /\ AgreesBefore'
  BY <1>1 DEF FollowInv, plannerVars, FollowsGait, ShowsGait, AgreesBefore, Agrees, NearChange, ModeAt
<1>3. GaitKnown' /\ PlanReaches'
  BY <1>1 DEF FollowInv, plannerVars, GaitKnown, Held, Unmerged, Regular, Prompt, Duration, Ticks,
              PlanReaches, UpdateTime
<1> QED
  BY <1>2, <1>3 DEF FollowInv

\* Every step keeps the invariant.
LEMMA FollowStep == ASSUME NothingMerged PROVE PlannerInv /\ FollowInv /\ [Next]_vars => FollowInv'
BY ChangeFollows, ScheduleFollows, KeepFollows DEF Next

\* Where no switch is merged, the mode schedule handed over and the contact flags of the
\* phase controller agree over the whole horizon, away from the switches
\* (ModesFollowPhases), through every sequence of gait changes.
THEOREM ModesAlwaysFollowPhases == ASSUME NothingMerged PROVE Spec => []ModesFollowPhases
<1> QED
  BY PlannerInit, PlannerStep, FollowInit, FollowStep, FollowIsAgreement, PTL DEF Spec

-----------------------------------------------------------------------------
(* What the phase controller has said it keeps saying.                     *)

\* From the start of a generation to the newest change of gait, the phase and the contact
\* flags of a time are those they were.
PhasesKept ==
  \A time \in clock .. gaitTime' :
    /\ PhaseAt(changes', time) = PhaseAt(changes, time)
    /\ ContactFlagsAt(changes', time) = ContactFlagsAt(changes, time)

\* A step of the planner keeps them, and lets each gait take over the phase of the last.
LEMMA PhasesStep ==
  ASSUME PlannerInv, Chained(changes), [Next]_vars
  PROVE  Chained(changes') /\ PhasesKept
<1>1. /\ changes \in KnownChanges /\ Last(changes).time = gaitTime /\ {gaitTime, clock} \subseteq Nat
      /\ gait' \in Gait /\ gaitTime' \in Nat
  BY PlannerStep DEF PlannerInv, GaitInv, ClockInv
<1>2. SUFFICES /\ Chained(changes')
               /\ \A time \in clock .. gaitTime' : ChangeBefore(changes', time) = ChangeBefore(changes, time)
  BY DEF PhasesKept, ContactFlagsAt, PhaseAt
<1>3. \A time \in clock .. gaitTime' : time \in Int /\ clock <= time /\ time <= gaitTime'
  BY <1>1
<1>4. CASE ChangeGait
  <2>1. changes' = AddChange(changes, gaitTime', gait') /\ gaitTime' > Last(changes).time
    BY <1>4 DEF ChangeGait, UpdateDynamicParameters
  <2>2. /\ Chained(changes')
        /\ \A time \in Int : time <= gaitTime' => ChangeBefore(changes', time) = ChangeBefore(changes, time)
    BY <1>1, <2>1, AdditionKeeps
  <2> QED
    BY <1>3, <2>2
<1>5. CASE Schedule
  <2>1. changes' = RemoveBefore(changes, clock)
    BY <1>5 DEF Schedule, GetModeSchedule
  <2>2. clock \in Int
    BY <1>1
  <2>3. /\ Chained(changes')
        /\ \A time \in Int : time >= clock => ChangeBefore(changes', time) = ChangeBefore(changes, time)
    BY <1>1, <2>1, <2>2, RemovalKeeps
  <2>4. \A time \in clock .. gaitTime' : time >= clock
    BY <1>1
  <2> QED
    BY <1>3, <2>3, <2>4
<1>6. CASE KeepGait \/ UNCHANGED vars
  <2>1. changes' = changes
    BY <1>6 DEF KeepGait, vars, plannerVars
  <2> QED
    BY <2>1
<1> QED
  BY <1>4, <1>5, <1>6 DEF Next

\* Neither forgetting old changes nor a change of gait moves a phase that was already
\* known (getPhasesAtTime, getContactFlagsAtTime): what has been planned from the phase controller
\* for a time up to the newest change stays right, whatever gaits are asked for.
THEOREM PhaseNeverJumps == Spec => [][PhasesKept]_vars
<1>1. Init => Chained(changes)
  <2> SUFFICES ASSUME Init PROVE Chained(changes)
    OBVIOUS
  <2>1. Len(changes) = 1 /\ \A i \in 1 .. 1 - 1 : FALSE
    BY DEF Init
  <2> QED
    BY <2>1 DEF Chained
<1>2. PlannerInv /\ Chained(changes) /\ [Next]_vars => Chained(changes)' /\ PhasesKept
  BY PhasesStep
<1> QED
  BY <1>1, <1>2, PlannerInit, PlannerStep, PTL DEF Spec
=============================================================================
