------------------------- MODULE GaitPlanner_proofs -------------------------
(***************************************************************************)
(* The gait planner hands well formed mode schedules to the solver, for    *)
(* every set of gaits, every horizon and any number of legs.               *)
(***************************************************************************)
EXTENDS GaitPlanner, WellFoundedInduction, FiniteSetTheorems, SequenceTheorems, TLAPS

-----------------------------------------------------------------------------
(* What the proofs about loops rest on: the least of some numbers, a set   *)
(* that is closed under the successor, and the function that the equations *)
(* of a loop of so many passes define.                                     *)

\* Numbers have a least one.
LEMMA LeastNumber ==
  ASSUME NEW T \in SUBSET Nat, T # {}
  PROVE  \E x \in T : \A y \in T : x <= y
<1> DEFINE R == {pair \in Nat \X Nat : pair[1] < pair[2]}
<1>1. IsWellFoundedOn(R, Nat)
  <2>1. IsWellFoundedOn(OpToRel(<, Nat), Nat)
    BY NatLessThanWellFounded
  <2> QED
    BY <2>1 DEF OpToRel
<1>2. \A x, y \in Nat : y < x => <<y, x>> \in R
  OBVIOUS
<1> HIDE DEF R
<1>3. PICK x \in T : \A y \in T : <<y, x>> \notin R
  BY <1>1, WFMin
<1>4. \A y \in T : x <= y
  <2> TAKE y \in T
  <2>1. x \in Nat /\ y \in Nat /\ ~(y < x)
    BY <1>2, <1>3
  <2> QED
    BY <2>1
<1> QED
  BY <1>4

\* Min and Max of the library, where they exist.
LEMMA MinOfNumbers ==
  ASSUME NEW T \in SUBSET Nat, T # {}
  PROVE  Min(T) \in T /\ \A y \in T : Min(T) <= y
BY LeastNumber DEF Min

LEMMA MaxOfNumbers ==
  ASSUME NEW n \in Nat, NEW T \in SUBSET (0 .. n), T # {}
  PROVE  Max(T) \in T /\ \A y \in T : y <= Max(T)
<1> DEFINE D == {n - x : x \in T}
<1>1. D \in SUBSET Nat /\ D # {}
  OBVIOUS
<1>2. PICK d \in D : \A y \in D : d <= y
  BY <1>1, LeastNumber
<1>3. PICK x \in T : d = n - x
  BY <1>2
<1>4. \A y \in T : x >= y
  <2> TAKE y \in T
  <2>1. n - y \in D
    OBVIOUS
  <2>2. n - x <= n - y
    BY <1>2, <1>3, <2>1
  <2> QED
    BY <2>2
<1>5. \E z \in T : \A y \in T : z >= y
  BY <1>4
<1>6. Max(T) \in T /\ \A y \in T : Max(T) >= y
  BY <1>5 DEF Max
<1> QED
  BY <1>6

\* Induction over the numbers of a set.
LEMMA SetInduction ==
  ASSUME NEW T \in SUBSET Nat, 0 \in T, \A n \in T : n + 1 \in T
  PROVE  \A n \in Nat : n \in T
<1> SUFFICES ASSUME Nat \ T # {} PROVE FALSE
  OBVIOUS
<1>1. PICK x \in Nat \ T : \A y \in Nat \ T : x <= y
  BY LeastNumber
<1>2. x # 0 /\ x - 1 \in Nat
  OBVIOUS
<1>3. x - 1 \in T
  BY <1>1, <1>2
<1> QED
  BY <1>1, <1>3

\* The states of a loop of N passes: step computes one from the last one and the number
\* of the pass.
Passes(g, N, first, step) == g[0] = first /\ \A n \in 1 .. N : g[n] = step[<<g[n - 1], n>>]

\* They exist.
LEMMA LoopDefined ==
  ASSUME NEW S, NEW N \in Nat, NEW first \in S, NEW step \in [S \X (1 .. N) -> S]
  PROVE  \E g \in [0 .. N -> S] : Passes(g, N, first, step)
<1> DEFINE Solves(g, k) == g[0] = first /\ \A n \in 1 .. k : g[n] = step[<<g[n - 1], n>>]
           T == {k \in Nat : k <= N => \E g \in [0 .. k -> S] : Solves(g, k)}
<1>1. 0 \in T
  <2>1. [n \in 0 .. 0 |-> first] \in [0 .. 0 -> S] /\ Solves([n \in 0 .. 0 |-> first], 0)
    OBVIOUS
  <2> QED
    BY <2>1
<1>2. \A k \in T : k + 1 \in T
  <2> SUFFICES ASSUME NEW k \in Nat, k + 1 <= N, NEW g \in [0 .. k -> S], Solves(g, k)
               PROVE  \E h \in [0 .. k + 1 -> S] : Solves(h, k + 1)
    OBVIOUS
  <2> DEFINE h == [n \in 0 .. k + 1 |-> IF n <= k THEN g[n] ELSE step[<<g[k], k + 1>>]]
  <2>1. h \in [0 .. k + 1 -> S]
    <3>1. step[<<g[k], k + 1>>] \in S
      OBVIOUS
    <3> QED
      BY <3>1
  <2>2. Solves(h, k + 1)
    <3>0. h[0] = first
      OBVIOUS
    <3> SUFFICES ASSUME NEW n \in 1 .. k + 1 PROVE h[n] = step[<<h[n - 1], n>>]
      BY <3>0
    <3>1. CASE n = k + 1
      <4>1. h[n] = step[<<g[k], k + 1>>] /\ h[n - 1] = g[k]
        BY <3>1
      <4> QED
        BY <3>1, <4>1
    <3>2. CASE n <= k
      <4>1. h[n] = g[n] /\ h[n - 1] = g[n - 1] /\ n \in 1 .. k
        BY <3>2
      <4> QED
        BY <4>1
    <3> QED
      BY <3>1, <3>2
  <2> HIDE DEF h
  <2> QED
    BY <2>1, <2>2
<1>3. N \in T
  <2> HIDE DEF T
  <2>1. T \in SUBSET Nat
    BY DEF T
  <2> QED
    BY <1>1, <1>2, <2>1, SetInduction
<1> QED
  BY <1>3 DEF Passes

\* What the first state of a loop is in, and every pass stays in, all its states are in.
LEMMA LoopStates ==
  ASSUME NEW S, NEW N \in Nat, NEW f, f[0] \in S, \A n \in 1 .. N : f[n - 1] \in S => f[n] \in S
  PROVE  \A n \in 0 .. N : f[n] \in S
<1> DEFINE T == {n \in Nat : n <= N => f[n] \in S}
<1>1. 0 \in T
  OBVIOUS
<1>2. \A n \in T : n + 1 \in T
  <2> SUFFICES ASSUME NEW n \in Nat, n + 1 <= N, f[n] \in S PROVE f[n + 1] \in S
    OBVIOUS
  <2>1. n + 1 \in 1 .. N /\ (n + 1) - 1 = n
    OBVIOUS
  <2> QED
    BY <2>1
<1>3. \A n \in Nat : n \in T
  <2> HIDE DEF T
  <2>1. T \in SUBSET Nat
    BY DEF T
  <2> QED
    BY <1>1, <1>2, <2>1, SetInduction
<1> QED
  BY <1>3

-----------------------------------------------------------------------------
(* The operators of the gaits.                                             *)

Increasing(times) == \A i, j \in DOMAIN times : i < j => times[i] < times[j]

\* Of increasing times, those before a time are a prefix of this length.
LEMMA IndexOfPrefix ==
  ASSUME NEW times \in Seq(Nat), Increasing(times), NEW time \in Int
  PROVE  /\ IndexInTimes(times, time) \in 0 .. Len(times)
         /\ \A i \in 1 .. Len(times) : i <= IndexInTimes(times, time) <=> times[i] < time
<1> DEFINE A == {i \in DOMAIN times : times[i] < time}
<1>1. DOMAIN times = 1 .. Len(times) /\ Len(times) \in Nat
  OBVIOUS
<1>2. CASE A = {}
  <2>1. IndexInTimes(times, time) = 0
    BY <1>2, FS_EmptySet DEF IndexInTimes
  <2> QED
    BY <1>1, <1>2, <2>1
<1>3. CASE A # {}
  <2>1. A \in SUBSET (0 .. Len(times))
    BY <1>1
  <2>2. PICK m : m = Max(A)
    OBVIOUS
  <2>3. m \in A /\ \A i \in A : i <= m
    <3> HIDE DEF A
    <3> QED
      BY <1>1, <1>3, <2>1, <2>2, MaxOfNumbers
  <2>4. \A i \in 1 .. Len(times) : times[i] \in Nat
    OBVIOUS
  <2>5. A = 1 .. m
    <3>1. A \subseteq 1 .. m
      BY <1>1, <2>3
    <3>2. \A i \in 1 .. m : times[i] < time
      BY <1>1, <2>3, <2>4 DEF Increasing
    <3> QED
      BY <1>1, <2>3, <3>1, <3>2
  <2>6. IndexInTimes(times, time) = m
    <3>1. m \in Nat \ {0}
      BY <1>1, <2>3
    <3>2. Cardinality(1 .. m) = m
      BY <3>1, FS_Interval
    <3> QED
      BY <2>5, <3>2 DEF IndexInTimes
  <2> QED
    BY <1>1, <2>3, <2>5, <2>6
<1> QED
  BY <1>2, <1>3

\* The phase of a leg is part of a cycle, whatever the phase of the first one.
LEMMA PhaseOfLeg ==
  ASSUME NEW g \in Gait, NEW phase \in Int, NEW leg \in Legs
  PROVE  LegPhase(g, phase, leg) \in 0 .. Cycle - 1
<1>1. OffsetOf(g, leg) \in 0 .. Cycle - 1
  BY EndEffectorsAssumption, CycleAssumption DEF OffsetOf, Gait, Legs
<1> QED
  BY <1>1, CycleAssumption DEF LegPhase

\* A gait that moves reaches its next mode after a tick at least.
LEMMA NextModeLater ==
  ASSUME NEW g \in Gait, NEW phase \in 0 .. Cycle - 1
  PROVE  /\ TimeToNextMode(phase, g) \in Nat
         /\ TimeToNextMode(phase, g) # 0
<1>1. g.rate \in Nat /\ g.swing \in 0 .. Cycle - 1
  BY DEF Gait
<1>2. CASE g.rate = 0
  BY <1>2 DEF TimeToNextMode, Ticks, Never
<1>3. CASE g.rate # 0
  <2> DEFINE left == IF phase < g.swing THEN g.swing - phase ELSE Cycle - phase
  <2>1. left \in Nat \ {0}
    BY <1>1, CycleAssumption
  <2>2. \A l, r \in Nat \ {0} : (l + r - 1) \div r \in Nat \ {0}
    OBVIOUS
  <2> HIDE DEF left
  <2>3. TimeToNextMode(phase, g) = (left + g.rate - 1) \div g.rate
    BY <1>3 DEF TimeToNextMode, Ticks, left
  <2> QED
    BY <1>1, <1>3, <2>1, <2>2, <2>3
<1> QED
  BY <1>2, <1>3

\* The time a leg spends in a mode.
LEMMA DurationType ==
  ASSUME NEW g \in Gait, NEW stance \in BOOLEAN
  PROVE  Duration(g, stance) \in Nat
<1>1. g.rate \in Nat /\ g.swing \in 0 .. Cycle - 1
  BY DEF Gait
<1>2. \A l \in Nat, r \in Nat \ {0} : l \div r \in Nat
  OBVIOUS
<1>3. Cycle - g.swing \in Nat /\ g.swing \in Nat
  BY <1>1, CycleAssumption
<1> QED
  BY <1>1, <1>2, <1>3 DEF Duration, Ticks, Never

\* After a switch a leg stays for MinTime at least.
LEMMA StaysMinTime ==
  ASSUME NEW g \in Gait, Steppable(g), g.rate > MinRate, NEW stance \in BOOLEAN
  PROVE  /\ AfterSwitch(g, stance) \in BOOLEAN
         /\ Duration(g, AfterSwitch(g, stance)) \in Nat
         /\ Duration(g, AfterSwitch(g, stance)) >= MinTime
<1>1. AfterSwitch(g, stance) \in BOOLEAN
  BY DEF AfterSwitch
<1>2. Duration(g, TRUE) \in Nat /\ Duration(g, FALSE) \in Nat
  BY DurationType
<1>3. Duration(g, TRUE) >= MinTime \/ Duration(g, FALSE) >= MinTime
  BY DEF Steppable
<1>4. CASE stance = TRUE
  BY <1>1, <1>2, <1>3, <1>4, MinTimeAssumption DEF AfterSwitch
<1>5. CASE stance = FALSE
  BY <1>1, <1>2, <1>3, <1>5, MinTimeAssumption DEF AfterSwitch
<1> QED
  BY <1>4, <1>5

-----------------------------------------------------------------------------
(* The template.                                                           *)

Pieces == [mode : SUBSET Legs, duration : Nat \ {0}]

\* The pieces last until end, and each of them begins before the horizon.
Covers(pieces, end, horizon) ==
  \E at \in [0 .. Len(pieces) -> Nat] :
    /\ at[0] = 0 /\ at[Len(pieces)] = end
    /\ \A i \in 1 .. Len(pieces) : at[i] = at[i - 1] + pieces[i].duration /\ at[i - 1] < horizon

Entries == [leg : Legs, time : Nat]

\* The loop of the template: every leg that is queued switches later than now.
LoopState(horizon) ==
  {m \in [pieces : Seq(Pieces), mode : SUBSET Legs, time : Nat, queue : SUBSET Entries] :
     /\ m.queue # {} /\ \A entry \in m.queue : entry.time > m.time
     /\ Covers(m.pieces, m.time, horizon)}

\* The loop begins in such a state.
LEMMA FirstModeState ==
  ASSUME NEW g \in Gait, NEW phase \in Int, NEW horizon \in Nat
  PROVE  FirstMode(g, phase) \in LoopState(horizon)
<1> DEFINE m == FirstMode(g, phase)
<1>1. \A leg \in Legs : /\ TimeToNextMode(LegPhase(g, phase, leg), g) \in Nat
                       /\ TimeToNextMode(LegPhase(g, phase, leg), g) # 0
  BY PhaseOfLeg, NextModeLater
<1>2. /\ m.queue = {[leg |-> leg, time |-> TimeToNextMode(LegPhase(g, phase, leg), g)] : leg \in Legs}
      /\ m.time = 0 /\ m.pieces = <<>> /\ m.mode = Stance(g, phase)
      /\ m = [pieces |-> m.pieces, mode |-> m.mode, time |-> m.time, queue |-> m.queue]
  BY DEF FirstMode
<1>3. 0 \in Legs
  BY EndEffectorsAssumption DEF Legs
<1> HIDE DEF m
<1>4. m.queue \in SUBSET Entries /\ m.queue # {} /\ \A entry \in m.queue : entry.time > m.time
  <2>1. [leg |-> 0, time |-> TimeToNextMode(LegPhase(g, phase, 0), g)] \in m.queue
    BY <1>2, <1>3
  <2>2. ASSUME NEW entry \in m.queue PROVE entry \in Entries /\ entry.time > m.time
    <3>1. PICK leg \in Legs : entry = [leg |-> leg, time |-> TimeToNextMode(LegPhase(g, phase, leg), g)]
      BY <1>2
    <3>2. entry.time \in Nat /\ entry.time # 0 /\ entry \in Entries
      BY <1>1, <3>1 DEF Entries
    <3> QED
      BY <1>2, <3>2
  <2> QED
    BY <2>1, <2>2
<1>5. Covers(m.pieces, m.time, horizon)
  <2> DEFINE at == [i \in 0 .. 0 |-> 0]
  <2>1. at \in [0 .. Len(m.pieces) -> Nat] /\ at[0] = 0 /\ at[Len(m.pieces)] = m.time
    BY <1>2
  <2>2. \A i \in 1 .. Len(m.pieces) : FALSE
    BY <1>2
  <2> HIDE DEF at
  <2> QED
    BY <2>1, <2>2 DEF Covers
<1>6. m.mode \in SUBSET Legs /\ m.pieces \in Seq(Pieces) /\ m.time \in Nat
  BY <1>2 DEF Stance
<1> QED
  BY <1>2, <1>4, <1>5, <1>6 DEF LoopState, m

\* A further piece from end to time.
LEMMA CoversMore ==
  ASSUME NEW pieces \in Seq(Pieces), NEW end \in Nat, NEW horizon \in Nat, Covers(pieces, end, horizon),
         end < horizon, NEW time \in Nat, NEW mode \in SUBSET Legs, time > end
  PROVE  /\ Append(pieces, [mode |-> mode, duration |-> time - end]) \in Seq(Pieces)
         /\ Covers(Append(pieces, [mode |-> mode, duration |-> time - end]), time, horizon)
<1> DEFINE piece == [mode |-> mode, duration |-> time - end]
           n == Len(pieces)
<1>1. PICK at \in [0 .. n -> Nat] :
             /\ at[0] = 0 /\ at[n] = end
             /\ \A i \in 1 .. n : at[i] = at[i - 1] + pieces[i].duration /\ at[i - 1] < horizon
  BY DEF Covers
<1>2. piece \in Pieces /\ piece.duration = time - end
  BY DEF Pieces
<1> HIDE DEF piece
<1>3. /\ Append(pieces, piece) \in Seq(Pieces) /\ Len(Append(pieces, piece)) = n + 1 /\ n \in Nat
      /\ \A i \in 1 .. n : Append(pieces, piece)[i] = pieces[i]
      /\ Append(pieces, piece)[n + 1] = piece
  BY <1>2, AppendProperties
<1> DEFINE more == [i \in 0 .. n + 1 |-> IF i <= n THEN at[i] ELSE time]
<1>4. more \in [0 .. n + 1 -> Nat] /\ more[0] = 0 /\ more[n + 1] = time
  BY <1>1, <1>3
<1>5. ASSUME NEW i \in 1 .. n + 1
      PROVE  more[i] = more[i - 1] + Append(pieces, piece)[i].duration /\ more[i - 1] < horizon
  <2>1. CASE i <= n
    <3>1. more[i] = at[i] /\ more[i - 1] = at[i - 1] /\ i \in 1 .. n
      BY <1>3, <2>1
    <3> QED
      BY <1>1, <1>3, <3>1
  <2>2. CASE i = n + 1
    <3>1. more[i] = time /\ more[i - 1] = end
      BY <1>1, <1>3, <2>2
    <3> QED
      BY <1>2, <1>3, <2>2, <3>1
  <2> QED
    BY <1>3, <2>1, <2>2
<1> HIDE DEF more
<1>6. Covers(Append(pieces, piece), time, horizon)
  BY <1>3, <1>4, <1>5 DEF Covers
<1> QED
  BY <1>3, <1>6 DEF piece

\* A pass of the loop goes on to the first switch.
LEMMA NextModeState ==
  ASSUME NEW g \in Gait, Steppable(g), g.rate > MinRate, NEW horizon \in Nat,
         NEW m \in LoopState(horizon), m.time < horizon
  PROVE  NextMode(g, m) \in LoopState(horizon) /\ NextMode(g, m).time > m.time
<1> DEFINE next == NextMode(g, m)
           first == FirstSwitch(m)
<1>1. /\ m.pieces \in Seq(Pieces) /\ m.mode \in SUBSET Legs /\ m.time \in Nat /\ m.queue \in SUBSET Entries
      /\ m.queue # {} /\ Covers(m.pieces, m.time, horizon)
      /\ \A entry \in m.queue : entry.time > m.time /\ entry.time \in Nat /\ entry.leg \in Legs
  BY DEF LoopState, Entries
<1>2. PICK earliest \in m.queue : first = earliest.time /\ \A entry \in m.queue : first <= entry.time
  <2> DEFINE times == {entry.time : entry \in m.queue}
  <2>1. times \in SUBSET Nat /\ times # {}
    BY <1>1
  <2>2. first = Min(times)
    BY DEF FirstSwitch
  <2>3. first \in times /\ \A time \in times : first <= time
    <3> HIDE DEF times, first
    <3> QED
      BY <2>1, <2>2, MinOfNumbers
  <2> QED
    BY <2>3
<1>3. first \in Nat /\ first > m.time
  BY <1>1, <1>2
<1> HIDE DEF first
<1>4. /\ next.pieces = Append(m.pieces, [mode |-> m.mode, duration |-> first - m.time])
      /\ next.time = first /\ next.mode \in SUBSET Legs
      /\ next.queue = (m.queue \ Due(m)) \cup {Requeued(g, m, entry) : entry \in Due(m)}
      /\ next = [pieces |-> next.pieces, mode |-> next.mode, time |-> next.time, queue |-> next.queue]
  BY DEF NextMode, first
<1>5. next.pieces \in Seq(Pieces) /\ Covers(next.pieces, next.time, horizon)
  BY <1>1, <1>3, <1>4, CoversMore
<1>6. \A entry \in m.queue \ Due(m) : entry \in Entries /\ entry.time > first
  <2> SUFFICES ASSUME NEW entry \in m.queue \ Due(m) PROVE entry \in Entries /\ entry.time > first
    OBVIOUS
  <2>1. ~(entry.time - first < MinTime) /\ entry \in Entries /\ entry.time \in Nat
    BY <1>1 DEF Due, first
  <2> QED
    BY <1>3, <2>1, MinTimeAssumption
<1>7. \A entry \in Due(m) : Requeued(g, m, entry) \in Entries /\ Requeued(g, m, entry).time > first
  <2> SUFFICES ASSUME NEW entry \in Due(m)
               PROVE  Requeued(g, m, entry) \in Entries /\ Requeued(g, m, entry).time > first
    OBVIOUS
  <2>1. entry.leg \in Legs
    BY <1>1 DEF Due
  <2>2. PICK duration : duration = Duration(g, AfterSwitch(g, entry.leg \in m.mode))
    OBVIOUS
  <2>3. duration \in Nat /\ duration >= MinTime
    <3>1. (entry.leg \in m.mode) \in BOOLEAN
      OBVIOUS
    <3>2. \A stance \in BOOLEAN :
            /\ Duration(g, AfterSwitch(g, stance)) \in Nat
            /\ Duration(g, AfterSwitch(g, stance)) >= MinTime
      BY StaysMinTime
    <3> QED
      BY <2>2, <3>1, <3>2, Zenon
  <2>4. Requeued(g, m, entry) = [leg |-> entry.leg, time |-> first + duration]
    BY <2>2 DEF Requeued, first
  <2> QED
    BY <1>3, <2>1, <2>3, <2>4, MinTimeAssumption DEF Entries
<1>8. earliest \in Due(m)
  BY <1>1, <1>2, <1>3, MinTimeAssumption DEF Due, first
<1>9. next.queue \in SUBSET Entries /\ next.queue # {} /\ \A entry \in next.queue : entry.time > first
  BY <1>4, <1>6, <1>7, <1>8
<1> HIDE DEF next
<1>10. next \in LoopState(horizon)
  BY <1>3, <1>4, <1>5, <1>9 DEF LoopState
<1> QED
  BY <1>3, <1>4, <1>10 DEF next

\* The loop goes on from such a state unless it is at the horizon.
LEMMA UntilTimeState ==
  ASSUME NEW g \in Gait, Steppable(g), g.rate > MinRate, NEW horizon \in Nat, NEW m \in LoopState(horizon)
  PROVE  /\ UntilTime(horizon, g, m) \in LoopState(horizon)
         /\ m.time \in Nat /\ UntilTime(horizon, g, m).time \in Nat
         /\ m.time < horizon => UntilTime(horizon, g, m).time > m.time
         /\ m.time >= horizon => UntilTime(horizon, g, m) = m
<1>1. \A l \in LoopState(horizon) : l.time \in Nat
  BY DEF LoopState
<1>2. CASE m.time >= horizon
  BY <1>1, <1>2 DEF UntilTime
<1>3. CASE m.time < horizon
  <2>1. UntilTime(horizon, g, m) = NextMode(g, m)
    BY <1>1, <1>3 DEF UntilTime
  <2>2. NextMode(g, m) \in LoopState(horizon) /\ NextMode(g, m).time > m.time
    BY <1>3, NextModeState
  <2> QED
    BY <1>1, <1>3, <2>1, <2>2
<1> QED
  BY <1>1, <1>2, <1>3

\* The equations of the loop have a solution, so that the states it goes through are
\* what they say.
LEMMA LoopOfModes ==
  ASSUME NEW g \in Gait, Steppable(g), g.rate > MinRate, NEW phase \in Int, NEW horizon \in Nat
  PROVE  LET after == ModesFrom(g, phase, horizon)
         IN  /\ after[0] = FirstMode(g, phase)
             /\ \A n \in 1 .. horizon : after[n] = UntilTime(horizon, g, after[n - 1])
<1> DEFINE S == LoopState(horizon)
           first == FirstMode(g, phase)
           Equation(f) == f = [n \in 0 .. horizon |->
                                 IF n = 0 THEN first ELSE UntilTime(horizon, g, f[n - 1])]
           step == [x \in S \X (1 .. horizon) |-> UntilTime(horizon, g, x[1])]
           after == ModesFrom(g, phase, horizon)
<1>1. first \in S
  BY FirstModeState
<1>2. \A m \in S : UntilTime(horizon, g, m) \in S
  BY UntilTimeState
<1>3. step \in [S \X (1 .. horizon) -> S]
  BY <1>2
<1> HIDE DEF S, first, step
<1>4. PICK f \in [0 .. horizon -> S] : Passes(f, horizon, first, step)
  BY <1>1, <1>3, LoopDefined
<1>5. Equation(f)
  <2>1. \A n \in 1 .. horizon : n \in 0 .. horizon /\ n - 1 \in 0 .. horizon
    OBVIOUS
  <2>2. \A n \in 1 .. horizon : f[n] = UntilTime(horizon, g, f[n - 1])
    BY <1>4, <2>1 DEF step, Passes
  <2>3. \A n \in 0 .. horizon : f[n] = IF n = 0 THEN first ELSE UntilTime(horizon, g, f[n - 1])
    BY <1>4, <2>2 DEF Passes
  <2> QED
    BY <2>3
<1>6. Equation(after)
  BY <1>5 DEF ModesFrom, first
<1> HIDE DEF after
<1>7. after[0] = first /\ \A n \in 1 .. horizon : after[n] = UntilTime(horizon, g, after[n - 1])
  BY <1>6
<1> QED
  BY <1>7 DEF after, first

\* Each of the states is where the loop may stand, and the time advances.
LEMMA ModesOfLoop ==
  ASSUME NEW g \in Gait, Steppable(g), g.rate > MinRate, NEW phase \in Int, NEW horizon \in Nat
  PROVE  ModesFrom(g, phase, horizon)[horizon] \in LoopState(horizon)
         /\ ModesFrom(g, phase, horizon)[horizon].time >= horizon
<1> DEFINE S == LoopState(horizon)
           first == FirstMode(g, phase)
           after == ModesFrom(g, phase, horizon)
<1>1. first \in S
  BY FirstModeState
<1>2. \A m \in S : /\ UntilTime(horizon, g, m) \in S
                   /\ m.time \in Nat /\ UntilTime(horizon, g, m).time \in Nat
                   /\ m.time < horizon => UntilTime(horizon, g, m).time > m.time
                   /\ m.time >= horizon => UntilTime(horizon, g, m) = m
  BY UntilTimeState
<1>3. after[0] = first /\ \A n \in 1 .. horizon : after[n] = UntilTime(horizon, g, after[n - 1])
  BY LoopOfModes
<1> HIDE DEF S, first, after
<1>4. \A n \in 0 .. horizon : after[n] \in S
  BY <1>1, <1>2, <1>3, LoopStates
<1> DEFINE T == {n \in Nat : n <= horizon => after[n].time >= n \/ after[n].time >= horizon}
<1>5. 0 \in T
  BY <1>2, <1>4
<1>6. \A n \in T : n + 1 \in T
  <2> SUFFICES ASSUME NEW n \in T, n + 1 <= horizon
               PROVE  after[n + 1].time >= n + 1 \/ after[n + 1].time >= horizon
    OBVIOUS
  <2>1. n \in Nat /\ n \in 0 .. horizon /\ n + 1 \in 1 .. horizon /\ (n + 1) - 1 = n
    OBVIOUS
  <2>2. after[n + 1] = UntilTime(horizon, g, after[n]) /\ after[n] \in S
    BY <1>3, <1>4, <2>1
  <2>3. after[n].time \in Nat /\ (after[n].time >= n \/ after[n].time >= horizon)
    BY <1>2, <2>1, <2>2
  <2>4. CASE after[n].time < horizon
    BY <1>2, <2>1, <2>2, <2>3, <2>4
  <2>5. CASE after[n].time >= horizon
    BY <1>2, <2>1, <2>2, <2>3, <2>5
  <2> QED
    BY <2>3, <2>4, <2>5
<1>7. horizon \in T
  <2> HIDE DEF T
  <2>1. T \in SUBSET Nat
    BY DEF T
  <2> QED
    BY <1>5, <1>6, <2>1, SetInduction
<1> QED
  BY <1>2, <1>4, <1>7 DEF after, S

\* The template of a steppable gait covers the horizon with pieces of a tick at
\* least, all of which begin before its end.
THEOREM TemplateCovers ==
  ASSUME NEW g \in Gait, Steppable(g), NEW phase \in Int, NEW horizon \in Nat \ {0}
  PROVE  /\ Template(g, phase, horizon) \in Seq(Pieces)
         /\ \E end \in Nat : end >= horizon /\ Covers(Template(g, phase, horizon), end, horizon)
<1>1. CASE g.rate > MinRate
  <2> DEFINE m == ModesFrom(g, phase, horizon)[horizon]
  <2>1. m \in LoopState(horizon) /\ m.time >= horizon
    BY <1>1, ModesOfLoop
  <2>2. ~(g.rate <= MinRate)
    BY <1>1, MinRateAssumption DEF Gait
  <2>3. Template(g, phase, horizon) = m.pieces
    BY <2>2 DEF Template
  <2> HIDE DEF m
  <2> QED
    BY <2>1, <2>3 DEF LoopState
<1>2. CASE g.rate <= MinRate
  <2> DEFINE piece == [mode |-> Stance(g, phase), duration |-> horizon]
             at == [i \in 0 .. 1 |-> IF i = 0 THEN 0 ELSE horizon]
  <2>1. Template(g, phase, horizon) = <<piece>>
    BY <1>2 DEF Template
  <2>2. piece \in Pieces /\ piece.duration = horizon
    BY DEF Pieces, Stance
  <2> HIDE DEF piece
  <2>3. <<piece>> \in Seq(Pieces) /\ Len(<<piece>>) = 1 /\ <<piece>>[1] = piece
    BY <2>2
  <2>4. at \in [0 .. 1 -> Nat] /\ at[0] = 0 /\ at[1] = horizon /\ at[1 - 1] = 0
    OBVIOUS
  <2> HIDE DEF at
  <2>5. \A i \in 1 .. 1 : at[i] = at[i - 1] + <<piece>>[i].duration /\ at[i - 1] < horizon
    BY <2>2, <2>3, <2>4
  <2>6. Covers(<<piece>>, horizon, horizon)
    BY <2>3, <2>4, <2>5 DEF Covers
  <2> QED
    BY <2>1, <2>3, <2>6
<1> QED
  BY <1>1, <1>2, MinRateAssumption DEF Gait

-----------------------------------------------------------------------------
(* The tiling.                                                             *)

\* A plan whose last mode ends at its last event, and one of which only that event
\* may reach final.
Plan ==
  {plan \in [events : Seq(Nat), modes : Seq(SUBSET Legs)] :
     Len(plan.modes) = Len(plan.events) /\ Len(plan.events) # 0}

PlanUntil(final) ==
  {plan \in Plan : /\ Increasing(plan.events)
                   /\ \A i \in 1 .. Len(plan.events) - 1 : plan.events[i] < final}

\* The first elements of a sequence.
LEMMA PrefixProperties ==
  ASSUME NEW S, NEW s \in Seq(S), NEW k \in 0 .. Len(s)
  PROVE  /\ SubSeq(s, 1, k) \in Seq(S) /\ Len(SubSeq(s, 1, k)) = k
         /\ \A i \in 1 .. k : SubSeq(s, 1, k)[i] = s[i]
<1>1. 1 \in Int /\ k \in Int /\ \A i \in 1 .. k : s[i] \in S
  OBVIOUS
<1>2. /\ SubSeq(s, 1, k) \in Seq(S)
      /\ Len(SubSeq(s, 1, k)) = IF 1 <= k THEN k - 1 + 1 ELSE 0
      /\ \A i \in 1 .. k - 1 + 1 : SubSeq(s, 1, k)[i] = s[1 + i - 1]
  BY <1>1, SubSeqProperties
<1>3. Len(SubSeq(s, 1, k)) = k
  BY <1>1, <1>2
<1>4. \A i \in 1 .. k : i \in 1 .. k - 1 + 1 /\ 1 + i - 1 = i
  OBVIOUS
<1> QED
  BY <1>2, <1>3, <1>4

\* Replacing the last element of a sequence.
LEMMA ReplaceLast ==
  ASSUME NEW times \in Seq(Nat), Len(times) # 0, NEW time \in Nat
  PROVE  /\ Append(Front(times), time) \in Seq(Nat)
         /\ Len(Append(Front(times), time)) = Len(times)
         /\ \A i \in 1 .. Len(times) - 1 : Append(Front(times), time)[i] = times[i]
         /\ Append(Front(times), time)[Len(times)] = time
<1> DEFINE front == Front(times)
<1>1. Len(times) \in Nat /\ Len(times) - 1 \in Nat
  OBVIOUS
<1>2. front \in Seq(Nat) /\ Len(front) = Len(times) - 1
      /\ \A i \in 1 .. Len(times) - 1 : front[i] = times[i]
  <2>1. front = SubSeq(times, 1, Len(times) - 1)
    BY DEF Front
  <2>2. Len(times) - 1 \in 0 .. Len(times)
    BY <1>1
  <2> HIDE DEF front
  <2> QED
    BY <2>1, <2>2, PrefixProperties
<1> HIDE DEF front
<1>3. Append(front, time) \in Seq(Nat)
      /\ Len(Append(front, time)) = Len(front) + 1
      /\ \A i \in 1 .. Len(front) : Append(front, time)[i] = front[i]
      /\ Append(front, time)[Len(front) + 1] = time
  BY <1>2, AppendProperties
<1> QED
  BY <1>1, <1>2, <1>3 DEF front

\* A piece is the last one of the plan, or takes its place.
LEMMA PieceTaken ==
  ASSUME NEW plan \in Plan, NEW piece \in Pieces
  PROVE  \E k \in {Len(plan.events) - 1, Len(plan.events)} :
           /\ AddPiece(plan, piece) \in Plan
           /\ Len(AddPiece(plan, piece).events) = k + 1
           /\ \A i \in 1 .. k : AddPiece(plan, piece).events[i] = plan.events[i]
           /\ AddPiece(plan, piece).events[k + 1] = Last(plan.events) + piece.duration
<1> DEFINE n == Len(plan.events)
           end == Last(plan.events) + piece.duration
           next == AddPiece(plan, piece)
           Taken(k) == /\ next \in Plan /\ Len(next.events) = k + 1
                       /\ \A i \in 1 .. k : next.events[i] = plan.events[i]
                       /\ next.events[k + 1] = end
<1>1. /\ plan \in [events : Seq(Nat), modes : Seq(SUBSET Legs)]
      /\ plan.events \in Seq(Nat) /\ plan.modes \in Seq(SUBSET Legs)
      /\ Len(plan.modes) = n /\ n \in Nat /\ n # 0
  BY DEF Plan
<1>2. piece.mode \in SUBSET Legs /\ end \in Nat
  BY <1>1 DEF Pieces, Last
<1> HIDE DEF end
<1>3. CASE piece.mode = Last(plan.modes)
  <2>1. next = [plan EXCEPT !.events = Append(Front(plan.events), end)]
    BY <1>3 DEF AddPiece, end
  <2>2. PICK ahead \in Seq(Nat) : ahead = Append(Front(plan.events), end)
    BY <1>1, <1>2, ReplaceLast
  <2>3. Len(ahead) = n /\ ahead[n] = end /\ \A i \in 1 .. n - 1 : ahead[i] = plan.events[i]
    BY <1>1, <1>2, <2>2, ReplaceLast
  <2>4. next.events = ahead /\ next.modes = plan.modes
        /\ next \in [events : Seq(Nat), modes : Seq(SUBSET Legs)]
    BY <1>1, <2>1, <2>2
  <2>5. next \in Plan
    BY <1>1, <2>3, <2>4 DEF Plan
  <2>6. Taken(n - 1)
    BY <1>1, <2>3, <2>4, <2>5
  <2> QED
    BY <2>6 DEF end
<1>4. CASE piece.mode # Last(plan.modes)
  <2>1. next = [events |-> Append(plan.events, end), modes |-> Append(plan.modes, piece.mode)]
    BY <1>4 DEF AddPiece, end
  <2>2. /\ Append(plan.events, end) \in Seq(Nat) /\ Len(Append(plan.events, end)) = n + 1
        /\ \A i \in 1 .. n : Append(plan.events, end)[i] = plan.events[i]
        /\ Append(plan.events, end)[n + 1] = end
    BY <1>1, <1>2, AppendProperties
  <2>3. Append(plan.modes, piece.mode) \in Seq(SUBSET Legs) /\ Len(Append(plan.modes, piece.mode)) = n + 1
    <3>1. \A S : \A s \in Seq(S), x \in S : Append(s, x) \in Seq(S) /\ Len(Append(s, x)) = Len(s) + 1
      BY AppendProperties
    <3>2. plan.modes \in Seq(SUBSET Legs) /\ piece.mode \in SUBSET Legs /\ Len(plan.modes) = n
      BY <1>1, <1>2
    <3> QED
      BY <3>1, <3>2
  <2>4. next.events = Append(plan.events, end) /\ next.modes = Append(plan.modes, piece.mode)
        /\ next \in [events : Seq(Nat), modes : Seq(SUBSET Legs)]
    BY <2>1, <2>2, <2>3
  <2>5. next \in Plan
    BY <1>1, <2>2, <2>3, <2>4 DEF Plan
  <2>6. Taken(n)
    BY <1>1, <2>2, <2>4, <2>5
  <2> QED
    BY <2>6 DEF end
<1> QED
  BY <1>3, <1>4

\* A piece takes the plan further by its duration.
LEMMA PieceAdded ==
  ASSUME NEW final \in Nat, NEW plan \in PlanUntil(final), Last(plan.events) < final,
         NEW piece \in Pieces
  PROVE  /\ AddPiece(plan, piece) \in PlanUntil(final)
         /\ Last(AddPiece(plan, piece).events) = Last(plan.events) + piece.duration
<1> DEFINE n == Len(plan.events)
           last == Last(plan.events)
           end == last + piece.duration
           next == AddPiece(plan, piece)
<1>1. /\ plan \in Plan /\ plan.events \in Seq(Nat)
      /\ n \in Nat /\ n # 0 /\ Increasing(plan.events)
      /\ \A i \in 1 .. n - 1 : plan.events[i] < final
      /\ DOMAIN plan.events = 1 .. n
  BY DEF PlanUntil, Plan
<1>2. last = plan.events[n] /\ last \in Nat /\ last < final /\ \A i \in 1 .. n : plan.events[i] \in Nat
  BY <1>1 DEF Last
<1>3. piece.mode \in SUBSET Legs /\ piece.duration \in Nat /\ end \in Nat /\ end > last
  BY <1>2 DEF Pieces, end
<1> HIDE DEF end, last
<1>4. \A i \in 1 .. n : plan.events[i] < end /\ plan.events[i] < final
  <2> SUFFICES ASSUME NEW i \in 1 .. n PROVE plan.events[i] < end /\ plan.events[i] < final
    OBVIOUS
  <2>1. CASE i = n
    BY <1>2, <1>3, <2>1
  <2>2. CASE i # n
    <3>1. i < n /\ i \in 1 .. n - 1 /\ i \in DOMAIN plan.events /\ n \in DOMAIN plan.events
      BY <1>1, <2>2
    <3>2. plan.events[i] < plan.events[n]
      BY <1>1, <3>1 DEF Increasing
    <3> QED
      BY <1>1, <1>2, <1>3, <3>1, <3>2
  <2> QED
    BY <2>1, <2>2
<1>5. PICK k \in {n - 1, n} :
             /\ next \in Plan /\ Len(next.events) = k + 1
             /\ \A i \in 1 .. k : next.events[i] = plan.events[i]
             /\ next.events[k + 1] = end
  BY <1>1, PieceTaken DEF end, last
<1>6. k \in Nat /\ k <= n
  BY <1>1
<1> HIDE DEF next
<1>7. next.events \in Seq(Nat) /\ DOMAIN next.events = 1 .. k + 1
  BY <1>5, <1>6 DEF Plan
<1>8. Increasing(next.events)
  <2> SUFFICES ASSUME NEW i \in 1 .. k + 1, NEW j \in 1 .. k + 1, i < j
               PROVE  next.events[i] < next.events[j]
    BY <1>7 DEF Increasing
  <2>1. next.events[i] = plan.events[i] /\ i \in 1 .. k /\ i \in 1 .. n
    BY <1>5, <1>6
  <2>2. CASE j = k + 1
    BY <1>4, <1>5, <2>1, <2>2
  <2>3. CASE j # k + 1
    <3>1. next.events[j] = plan.events[j] /\ j \in 1 .. n
      BY <1>5, <1>6, <2>3
    <3> QED
      BY <1>1, <2>1, <3>1 DEF Increasing
  <2> QED
    BY <2>2, <2>3
<1>9. \A i \in 1 .. Len(next.events) - 1 : next.events[i] < final
  <2>1. \A i \in 1 .. k : i \in 1 .. n
    BY <1>6
  <2> QED
    BY <1>4, <1>5, <1>6, <2>1
<1>10. Last(next.events) = end
  BY <1>5, <1>6 DEF Last
<1>11. next \in PlanUntil(final)
  BY <1>5, <1>6, <1>8, <1>9 DEF PlanUntil
<1> QED
  BY <1>10, <1>11 DEF next, end, last

\* The equations of the loop over the pieces have a solution.
LEMMA LoopOfPieces ==
  ASSUME NEW plan \in Plan, NEW template \in Seq(Pieces)
  PROVE  LET after == WithPieces(plan, template)
         IN  /\ after[0] = plan
             /\ \A n \in 1 .. Len(template) : after[n] = AddPiece(after[n - 1], template[n])
<1> DEFINE N == Len(template)
           Equation(f) == f = [n \in 0 .. N |->
                                 IF n = 0 THEN plan ELSE AddPiece(f[n - 1], template[n])]
           step == [x \in Plan \X (1 .. N) |-> AddPiece(x[1], template[x[2]])]
           after == WithPieces(plan, template)
<1>1. N \in Nat /\ \A n \in 1 .. N : template[n] \in Pieces
  OBVIOUS
<1>2. \A p \in Plan, n \in 1 .. N : AddPiece(p, template[n]) \in Plan
  BY <1>1, PieceTaken
<1>3. step \in [Plan \X (1 .. N) -> Plan]
  BY <1>2
<1> HIDE DEF step, N
<1>4. PICK f \in [0 .. N -> Plan] : Passes(f, N, plan, step)
  BY <1>1, <1>3, LoopDefined
<1>5. Equation(f)
  <2>1. \A n \in 1 .. N : n \in 0 .. N /\ n - 1 \in 0 .. N
    BY <1>1
  <2>2. \A n \in 1 .. N : f[n] = AddPiece(f[n - 1], template[n])
    BY <1>4, <2>1 DEF step, Passes
  <2>3. \A n \in 0 .. N : f[n] = IF n = 0 THEN plan ELSE AddPiece(f[n - 1], template[n])
    BY <1>4, <2>2 DEF Passes
  <2> QED
    BY <2>3
<1>6. Equation(after)
  BY <1>5 DEF WithPieces, N
<1> HIDE DEF after
<1>7. after[0] = plan /\ \A n \in 1 .. N : after[n] = AddPiece(after[n - 1], template[n])
  BY <1>1, <1>6
<1> QED
  BY <1>7 DEF after, N

\* All the pieces of the template, one after the other.
LEMMA PiecesAdded ==
  ASSUME NEW final \in Nat, NEW plan \in PlanUntil(final), NEW template \in Seq(Pieces),
         NEW end \in Nat, Covers(template, end, final - Last(plan.events))
  PROVE  /\ WithPieces(plan, template)[Len(template)] \in PlanUntil(final)
         /\ Last(WithPieces(plan, template)[Len(template)].events) = Last(plan.events) + end
<1> DEFINE base == Last(plan.events)
           N == Len(template)
           after == WithPieces(plan, template)
<1>1. plan \in Plan /\ base \in Nat /\ N \in Nat /\ \A n \in 1 .. N : template[n] \in Pieces
  BY DEF PlanUntil, Plan, Last
<1>2. PICK at \in [0 .. N -> Nat] :
             /\ at[0] = 0 /\ at[N] = end
             /\ \A n \in 1 .. N : at[n] = at[n - 1] + template[n].duration /\ at[n - 1] < final - base
  BY DEF Covers
<1>3. after[0] = plan /\ \A n \in 1 .. N : after[n] = AddPiece(after[n - 1], template[n])
  BY <1>1, LoopOfPieces
<1> HIDE DEF after, N, base
<1> DEFINE T == {n \in Nat : n <= N => after[n] \in PlanUntil(final) /\ Last(after[n].events) = base + at[n]}
<1>4. 0 \in T
  BY <1>1, <1>2, <1>3 DEF base
<1>5. \A n \in T : n + 1 \in T
  <2> SUFFICES ASSUME NEW n \in T, n + 1 <= N
               PROVE  /\ after[n + 1] \in PlanUntil(final)
                      /\ Last(after[n + 1].events) = base + at[n + 1]
    OBVIOUS
  <2>1. n \in Nat /\ n \in 0 .. N /\ n + 1 \in 1 .. N /\ (n + 1) - 1 = n
    BY <1>1
  <2>2. after[n + 1] = AddPiece(after[n], template[n + 1]) /\ template[n + 1] \in Pieces
    BY <1>1, <1>3, <2>1
  <2>3. at[n + 1] = at[n] + template[n + 1].duration /\ at[n] < final - base /\ at[n] \in Nat
    BY <1>2, <2>1
  <2>4. after[n] \in PlanUntil(final) /\ Last(after[n].events) = base + at[n]
    BY <1>1, <2>1
  <2>5. Last(after[n].events) < final
    BY <1>1, <2>3, <2>4
  <2>6. /\ after[n + 1] \in PlanUntil(final)
        /\ Last(after[n + 1].events) = Last(after[n].events) + template[n + 1].duration
    BY <2>2, <2>4, <2>5, PieceAdded
  <2>7. PICK duration \in Nat : duration = template[n + 1].duration
    BY <2>2 DEF Pieces
  <2>8. PICK so \in Nat : so = at[n]
    BY <2>3
  <2>9. base + so + duration = base + (so + duration)
    BY <1>1
  <2>10. at[n + 1] = so + duration /\ Last(after[n + 1].events) = base + so + duration
    BY <2>3, <2>4, <2>6, <2>7, <2>8
  <2> HIDE DEF T
  <2> QED
    BY <2>6, <2>9, <2>10
<1>6. N \in T
  <2> HIDE DEF T
  <2>1. T \in SUBSET Nat
    BY DEF T
  <2> QED
    BY <1>1, <1>4, <1>5, <2>1, SetInduction
<1> QED
  BY <1>1, <1>2, <1>6 DEF after, N, base

\* One round of a template that covers what is left takes the plan to the end: the loop
\* stops there.
LEMMA TileReaches ==
  ASSUME NEW final \in Nat, NEW plan \in PlanUntil(final), Last(plan.events) < final,
         NEW template \in Seq(Pieces), NEW end \in Nat, end >= final - Last(plan.events),
         Covers(template, end, final - Last(plan.events))
  PROVE  /\ Tile(plan, template, final) = WithPieces(plan, template)[Len(template)]
         /\ Tile(plan, template, final) \in PlanUntil(final)
         /\ Last(Tile(plan, template, final).events) >= final
<1> DEFINE K == final - Last(plan.events)
           reached == WithPieces(plan, template)[Len(template)]
           Equation(f) == f = [n \in 0 .. K |->
                                 IF n = 0 THEN plan ELSE Round(template, final, f[n - 1])]
           after == Rounds(plan, template, final)
           f == [n \in 0 .. K |-> IF n = 0 THEN plan ELSE reached]
<1>1. Last(plan.events) \in Nat
  BY DEF PlanUntil, Plan, Last
<1>2. K \in Nat /\ K # 0
  BY <1>1
<1>3. reached \in PlanUntil(final) /\ Last(reached.events) >= final
  <2>1. reached \in PlanUntil(final) /\ Last(reached.events) = Last(plan.events) + end
    BY PiecesAdded
  <2> QED
    BY <1>1, <2>1
<1> HIDE DEF reached
<1>4. Round(template, final, plan) = reached
  <2>1. ~(Last(plan.events) >= final)
    BY <1>1
  <2> QED
    BY <2>1 DEF Round, reached
<1>5. Round(template, final, reached) = reached
  BY <1>3 DEF Round
<1> HIDE DEF K
<1>6. Equation(f)
  <2>1. \A n \in 0 .. K : f[n] = IF n = 0 THEN plan ELSE Round(template, final, f[n - 1])
    <3> SUFFICES ASSUME NEW n \in 0 .. K, n # 0 PROVE f[n] = Round(template, final, f[n - 1])
      BY <1>2
    <3>1. f[n] = reached /\ f[n - 1] \in {plan, reached}
      BY <1>2
    <3> QED
      BY <1>4, <1>5, <3>1
  <2> QED
    BY <2>1
<1>7. Equation(after)
  BY <1>6 DEF Rounds, K
<1> HIDE DEF after, f
<1>8. after[0] = plan /\ \A n \in 1 .. K : after[n] = Round(template, final, after[n - 1])
  BY <1>2, <1>7
<1> HIDE DEF Equation
<1>9. \A n \in 0 .. K : after[n] \in {plan, reached}
  <2> DEFINE S == {plan, reached}
  <2>1. after[0] \in S /\ \A n \in 1 .. K : after[n - 1] \in S => after[n] \in S
    BY <1>4, <1>5, <1>8
  <2> HIDE DEF S
  <2>2. \A n \in 0 .. K : after[n] \in S
    BY <1>2, <2>1, LoopStates
  <2> QED
    BY <2>2 DEF S
<1>10. after[K] = reached
  BY <1>2, <1>4, <1>5, <1>8, <1>9
<1> QED
  BY <1>3, <1>10 DEF Tile, after, K, reached

-----------------------------------------------------------------------------
(* The changes of gait.                                                    *)

Change == [time : Nat, gait : Gait, phase : Nat]
KnownChanges == {known \in Seq(Change) : known # <<>> /\ Increasing(ChangeTimes(known))}

LEMMA TimesOfChanges ==
  ASSUME NEW known \in Seq(Change)
  PROVE  /\ ChangeTimes(known) \in Seq(Nat) /\ Len(ChangeTimes(known)) = Len(known)
         /\ \A i \in 1 .. Len(known) : ChangeTimes(known)[i] = known[i].time
         /\ Increasing(ChangeTimes(known)) <=>
              \A i, j \in 1 .. Len(known) : i < j => known[i].time < known[j].time
<1> DEFINE n == Len(known)
           times == ChangeTimes(known)
<1>1. n \in Nat /\ DOMAIN known = 1 .. n
  OBVIOUS
<1>2. \A i \in 1 .. n : known[i].time \in Nat
  <2>1. \A i \in 1 .. n : known[i] \in Change
    OBVIOUS
  <2> QED
    BY <2>1 DEF Change
<1>3. times = [i \in 1 .. n |-> known[i].time]
  BY <1>1 DEF ChangeTimes
<1> HIDE DEF n, times
<1>4. times \in [1 .. n -> Nat] /\ DOMAIN times = 1 .. n
  BY <1>2, <1>3
<1>5. times \in Seq(Nat) /\ Len(times) = n
  BY <1>1, <1>4
<1> QED
  BY <1>3, <1>4, <1>5 DEF Increasing, n, times

\* The controller knows a gait and a phase for every time.
LEMMA PhaseKnown ==
  ASSUME NEW known \in KnownChanges, NEW time \in Int
  PROVE  /\ ChangeBefore(known, time) \in Change
         /\ PhaseAt(known, time) \in Int
         /\ ContactFlagsAt(known, time) \in SUBSET Legs
<1>1. known \in Seq(Change) /\ Len(known) \in Nat \ {0} /\ Increasing(ChangeTimes(known))
  BY DEF KnownChanges
<1>2. IndexInTimes(ChangeTimes(known), time) \in 0 .. Len(known)
  BY <1>1, TimesOfChanges, IndexOfPrefix
<1>3. ChangeBefore(known, time) \in Change
  BY <1>1, <1>2 DEF ChangeBefore
<1>4. PhaseAt(known, time) \in Int
  BY <1>3 DEF PhaseAt, Change, Gait
<1> QED
  BY <1>3, <1>4 DEF ContactFlagsAt, StanceBefore

\* The end of a sequence.
LEMMA SuffixProperties ==
  ASSUME NEW S, NEW s \in Seq(S), NEW k \in 1 .. Len(s)
  PROVE  /\ SubSeq(s, k, Len(s)) \in Seq(S) /\ Len(SubSeq(s, k, Len(s))) = Len(s) - k + 1
         /\ \A i \in 1 .. Len(s) - k + 1 : SubSeq(s, k, Len(s))[i] = s[k + i - 1]
<1>1. k \in Int /\ Len(s) \in Int /\ k <= Len(s) /\ \A i \in k .. Len(s) : s[i] \in S
  OBVIOUS
<1> QED
  BY <1>1, SubSeqProperties

\* Forgetting the changes that are over keeps the last one.
LEMMA ChangesRemoved ==
  ASSUME NEW known \in KnownChanges, NEW time \in Int
  PROVE  RemoveBefore(known, time) \in KnownChanges /\ Last(RemoveBefore(known, time)) = Last(known)
<1> DEFINE index == IndexInTimes(ChangeTimes(known), time)
           n == Len(known)
           left == SubSeq(known, index, n)
<1>1. known \in Seq(Change) /\ n \in Nat \ {0} /\ Increasing(ChangeTimes(known))
  BY DEF KnownChanges
<1>2. index \in 0 .. n
  BY <1>1, TimesOfChanges, IndexOfPrefix
<1>3. CASE index = 0
  BY <1>3 DEF RemoveBefore
<1>4. CASE index # 0
  <2> HIDE DEF index
  <2>1. index \in 1 .. n /\ RemoveBefore(known, time) = left
    BY <1>2, <1>4 DEF RemoveBefore, index
  <2>2. left \in Seq(Change) /\ Len(left) = n - index + 1
        /\ \A i \in 1 .. n - index + 1 : left[i] = known[index + i - 1]
    BY <1>1, <2>1, SuffixProperties
  <2> HIDE DEF left, n
  <2>3. Len(left) \in Nat \ {0} /\ Last(left) = known[n]
    BY <1>1, <2>1, <2>2 DEF Last
  <2>4. Increasing(ChangeTimes(left))
    <3> SUFFICES ASSUME NEW i \in 1 .. Len(left), NEW j \in 1 .. Len(left), i < j
                 PROVE  left[i].time < left[j].time
      BY <2>2, TimesOfChanges
    <3>1. left[i] = known[index + i - 1] /\ left[j] = known[index + j - 1]
      BY <2>2
    <3>2. index + i - 1 \in 1 .. n /\ index + j - 1 \in 1 .. n /\ index + i - 1 < index + j - 1
      BY <1>1, <2>1, <2>2
    <3>3. \A k, l \in 1 .. n : k < l => known[k].time < known[l].time
      BY <1>1, TimesOfChanges DEF n
    <3> QED
      BY <3>1, <3>2, <3>3
  <2>5. left \in KnownChanges
    BY <2>2, <2>3, <2>4 DEF KnownChanges
  <2> QED
    BY <2>1, <2>3, <2>5 DEF Last, n
<1> QED
  BY <1>3, <1>4

\* A change that comes after the last one keeps the changes in order.
LEMMA ChangeAdded ==
  ASSUME NEW known \in KnownChanges, NEW time \in Nat, time > Last(known).time, NEW g \in Gait
  PROVE  AddChange(known, time, g) \in KnownChanges /\ Last(AddChange(known, time, g)).time = time
<1> DEFINE n == Len(known)
           last == known[n]
           change == [time |-> time, gait |-> g, phase |-> last.phase + (time - last.time) * last.gait.rate]
           more == AddChange(known, time, g)
<1>1. known \in Seq(Change) /\ n \in Nat \ {0} /\ Increasing(ChangeTimes(known))
  BY DEF KnownChanges
<1>2. last \in Change /\ last.time < time
  BY <1>1 DEF Last
<1>3. change \in Change
  <2>1. last.phase \in Nat /\ last.time \in Nat /\ last.gait.rate \in Nat
    BY <1>2 DEF Change, Gait
  <2>2. time - last.time \in Nat
    BY <1>2, <2>1
  <2>3. \A x, y, z \in Nat : x + y * z \in Nat
    OBVIOUS
  <2>4. last.phase + (time - last.time) * last.gait.rate \in Nat
    BY <2>1, <2>2, <2>3
  <2> QED
    BY <2>4 DEF Change
<1>4. change.time = time
  OBVIOUS
<1>5. more = Append(known, change)
  BY DEF AddChange
<1> HIDE DEF change, more
<1>6. more \in Seq(Change) /\ Len(more) = n + 1 /\ more[n + 1] = change
      /\ \A i \in 1 .. n : more[i] = known[i]
  BY <1>1, <1>3, <1>5, AppendProperties
<1>7. Last(more).time = time
  BY <1>4, <1>6 DEF Last
<1>8. Increasing(ChangeTimes(more))
  <2>1. \A k, l \in 1 .. n : k < l => known[k].time < known[l].time
    BY <1>1, TimesOfChanges
  <2>2. \A k \in 1 .. n : known[k].time <= last.time /\ known[k].time \in Nat
    <3> SUFFICES ASSUME NEW k \in 1 .. n PROVE known[k].time <= last.time /\ known[k].time \in Nat
      OBVIOUS
    <3>1. known[k] \in Change /\ n \in 1 .. n
      BY <1>1
    <3>2. known[k].time \in Nat /\ last.time \in Nat
      BY <1>2, <3>1 DEF Change
    <3>3. k = n \/ known[k].time < last.time
      BY <1>1, <2>1, <3>1
    <3> QED
      BY <3>2, <3>3
  <2> SUFFICES ASSUME NEW i \in 1 .. n + 1, NEW j \in 1 .. n + 1, i < j
               PROVE  more[i].time < more[j].time
    BY <1>6, TimesOfChanges
  <2>4. i \in 1 .. n /\ more[i] = known[i]
    BY <1>1, <1>6
  <2>5. CASE j = n + 1
    <3>1. last.time \in Nat
      BY <1>2 DEF Change
    <3> QED
      BY <1>2, <1>4, <1>6, <2>2, <2>4, <2>5, <3>1
  <2>6. CASE j # n + 1
    BY <1>1, <1>6, <2>1, <2>4, <2>6
  <2> QED
    BY <2>5, <2>6
<1>9. more # <<>>
  BY <1>1, <1>6
<1> QED
  BY <1>6, <1>7, <1>8, <1>9 DEF KnownChanges, more

\* Clamping an offset changes neither the frequency nor the swing ratio.
LEMMA ClampedGait ==
  ASSUME NEW g \in Gait, Steppable(g)
  PROVE  Clamp(g) \in Gait /\ Steppable(Clamp(g))
<1> DEFINE size == EndEffectors - 1
           Near(i) == g.rate # 0 /\ Abs(g.offsets[i] - g.offsets[2]) < MinTime * g.rate
           near == {i \in 1 .. size : size >= 2 /\ i # 2 /\ Near(i)}
           moved == [g EXCEPT !.offsets[2] = g.offsets[Max(near)]]
<1>1. Clamp(g) = IF near = {} THEN g ELSE moved
  BY DEF Clamp
<1>2. size \in Nat
  BY EndEffectorsAssumption
<1>3. CASE near = {}
  BY <1>1, <1>3
<1>4. CASE near # {}
  <2>1. near \in SUBSET (0 .. size) /\ size >= 2
    BY <1>4
  <2>2. Max(near) \in near
    <3> HIDE DEF near, size
    <3> QED
      BY <1>2, <1>4, <2>1, MaxOfNumbers
  <2>3. Max(near) \in 1 .. size
    BY <2>2
  <2> HIDE DEF near
  <2>4. moved \in Gait /\ moved.rate = g.rate /\ moved.swing = g.swing
    BY <1>2, <2>1, <2>3 DEF Gait
  <2>5. \A stance \in BOOLEAN : Duration(moved, stance) = Duration(g, stance)
    BY <2>4 DEF Duration, Ticks
  <2>6. Steppable(moved)
    BY <2>4, <2>5 DEF Steppable
  <2> QED
    BY <1>1, <1>4, <2>4, <2>6
<1> QED
  BY <1>3, <1>4

\* The legs reach their next modes some time, the first of them too.
LEMMA WaitIsNumber ==
  ASSUME NEW g \in Gait, NEW phase \in Int
  PROVE  Min({TimeToNextAfter(LegPhase(g, phase, leg), g) : leg \in Legs}) \in Nat
<1> DEFINE waits == {TimeToNextAfter(LegPhase(g, phase, leg), g) : leg \in Legs}
<1>1. \A leg \in Legs : TimeToNextAfter(LegPhase(g, phase, leg), g) \in Nat
  BY PhaseOfLeg, NextModeLater DEF TimeToNextAfter
<1>2. 0 \in Legs
  BY EndEffectorsAssumption DEF Legs
<1>3. waits \in SUBSET Nat /\ waits # {}
  BY <1>1, <1>2
<1> HIDE DEF waits
<1>4. Min(waits) \in Nat
  BY <1>3, MinOfNumbers
<1> QED
  BY <1>4 DEF waits

-----------------------------------------------------------------------------
(* The planner.                                                            *)

\* The mode schedule.
WellFormed(times, sequence) ==
  /\ times \in Seq(Nat) /\ sequence \in Seq(SUBSET Legs)
  /\ Len(sequence) = Len(times) + 1
  /\ Increasing(times)

\* A schedule that ends with a stance, as each handed over does.
Closed(times, sequence) ==
  WellFormed(times, sequence) /\ Len(times) # 0 /\ sequence[Len(sequence)] = Legs

\* A schedule that is cut before a time and ends later.
LEMMA ScheduleCut ==
  ASSUME NEW times, NEW sequence, WellFormed(times, sequence), NEW time \in Nat,
         NEW end \in Nat, end >= time, NEW mode \in SUBSET Legs
  PROVE  LET index == IndexInTimes(times, time)
         IN  WellFormed(Append(SubSeq(times, 1, index), end), Append(SubSeq(sequence, 1, index + 1), mode))
<1> DEFINE index == IndexInTimes(times, time)
           before == SubSeq(times, 1, index)
           kept == SubSeq(sequence, 1, index + 1)
<1>1. times \in Seq(Nat) /\ sequence \in Seq(SUBSET Legs) /\ Len(sequence) = Len(times) + 1
      /\ Increasing(times) /\ Len(times) \in Nat
  BY DEF WellFormed
<1>2. index \in 0 .. Len(times) /\ \A i \in 1 .. Len(times) : i <= index <=> times[i] < time
  BY <1>1, IndexOfPrefix
<1> HIDE DEF index
<1>3. before \in Seq(Nat) /\ Len(before) = index /\ \A i \in 1 .. index : before[i] = times[i]
  BY <1>1, <1>2, PrefixProperties
<1>4. kept \in Seq(SUBSET Legs) /\ Len(kept) = index + 1
  <2>1. index + 1 \in 0 .. Len(sequence)
    BY <1>1, <1>2
  <2> QED
    BY <1>1, <2>1, PrefixProperties
<1> HIDE DEF before, kept
<1>5. /\ Append(before, end) \in Seq(Nat) /\ Len(Append(before, end)) = index + 1
      /\ \A i \in 1 .. index : Append(before, end)[i] = times[i]
      /\ Append(before, end)[index + 1] = end
  BY <1>3, AppendProperties
<1>6. Append(kept, mode) \in Seq(SUBSET Legs) /\ Len(Append(kept, mode)) = index + 2
  <2>1. \A S : \A s \in Seq(S), x \in S : Append(s, x) \in Seq(S) /\ Len(Append(s, x)) = Len(s) + 1
    BY AppendProperties
  <2> QED
    BY <1>2, <1>4, <2>1
<1>7. \A i \in 1 .. index : times[i] < end /\ times[i] \in Nat
  BY <1>1, <1>2
<1>8. Increasing(Append(before, end))
  <2> SUFFICES ASSUME NEW i \in 1 .. index + 1, NEW j \in 1 .. index + 1, i < j
               PROVE  Append(before, end)[i] < Append(before, end)[j]
    BY <1>5 DEF Increasing
  <2>1. i \in 1 .. index /\ i \in DOMAIN times
    BY <1>1, <1>2
  <2>2. CASE j = index + 1
    BY <1>5, <1>7, <2>1, <2>2
  <2>3. CASE j # index + 1
    <3>1. j \in 1 .. index /\ j \in DOMAIN times
      BY <1>1, <1>2, <2>3
    <3> QED
      BY <1>1, <1>5, <2>1, <3>1 DEF Increasing
  <2> QED
    BY <2>2, <2>3
<1>9. WellFormed(Append(before, end), Append(kept, mode))
  BY <1>2, <1>5, <1>6, <1>8 DEF WellFormed
<1> QED
  BY <1>9 DEF before, kept, index

\* What is kept of a schedule is a plan of the same horizon, if anything is.
LEMMA KeptPlan ==
  ASSUME WellFormed(events, modes), NEW start \in Nat, NEW final \in Nat, start <= final,
         Kept(start, final).events # <<>>
  PROVE  Kept(start, final) \in PlanUntil(final) /\ Last(Kept(start, final).events) < final
<1> DEFINE first == IndexInTimes(events, start)
           last == IndexInTimes(events, final)
           kept == Kept(start, final)
<1>1. events \in Seq(Nat) /\ modes \in Seq(SUBSET Legs) /\ Len(modes) = Len(events) + 1
      /\ Increasing(events) /\ Len(events) \in Nat
  BY DEF WellFormed
<1>2. /\ first \in 0 .. Len(events) /\ last \in 0 .. Len(events)
      /\ \A i \in 1 .. Len(events) : (i <= first <=> events[i] < start) /\ (i <= last <=> events[i] < final)
  <2>1. first \in 0 .. Len(events) /\ \A i \in 1 .. Len(events) : i <= first <=> events[i] < start
    BY <1>1, IndexOfPrefix
  <2>2. last \in 0 .. Len(events) /\ \A i \in 1 .. Len(events) : i <= last <=> events[i] < final
    BY <1>1, IndexOfPrefix
  <2> QED
    BY <2>1, <2>2
<1> HIDE DEF first, last
<1>3. first <= last
  <2>1. first # 0 => events[first] < start /\ events[first] \in Nat
    BY <1>1, <1>2
  <2> QED
    BY <1>1, <1>2, <2>1
<1>4. kept = [events |-> SubSeq(events, first + 1, last), modes |-> SubSeq(modes, first + 1, last)]
  <2>1. first + (last - first) = last
    BY <1>2
  <2> QED
    BY <2>1 DEF Kept, first, last
<1> HIDE DEF kept
<1>5. first + 1 \in Int /\ last \in Int
      /\ (\A i \in first + 1 .. last : events[i] \in Nat) /\ \A i \in first + 1 .. last : modes[i] \in SUBSET Legs
  <2>1. \A i \in first + 1 .. last : i \in 1 .. Len(events) /\ i \in 1 .. Len(modes)
    BY <1>1, <1>2
  <2> QED
    BY <1>1, <1>2, <2>1
<1>6. /\ kept.events \in Seq(Nat) /\ Len(kept.events) = last - first
      /\ \A i \in 1 .. last - first : kept.events[i] = events[first + i]
  <2>1. /\ SubSeq(events, first + 1, last) \in Seq(Nat)
        /\ Len(SubSeq(events, first + 1, last)) = IF first + 1 <= last THEN last - (first + 1) + 1 ELSE 0
        /\ \A i \in 1 .. last - (first + 1) + 1 : SubSeq(events, first + 1, last)[i] = events[first + 1 + i - 1]
    BY <1>5, SubSeqProperties
  <2>2. Len(SubSeq(events, first + 1, last)) = last - first
    BY <1>2, <1>3, <2>1
  <2>3. \A i \in 1 .. last - first : i \in 1 .. last - (first + 1) + 1 /\ first + 1 + i - 1 = first + i
    BY <1>2
  <2> QED
    BY <1>4, <2>1, <2>2, <2>3
<1>7. kept.modes \in Seq(SUBSET Legs) /\ Len(kept.modes) = last - first
  <2>1. /\ SubSeq(modes, first + 1, last) \in Seq(SUBSET Legs)
        /\ Len(SubSeq(modes, first + 1, last)) = IF first + 1 <= last THEN last - (first + 1) + 1 ELSE 0
    BY <1>5, SubSeqProperties
  <2> QED
    BY <1>2, <1>3, <1>4, <2>1
<1>8. kept \in [events : Seq(Nat), modes : Seq(SUBSET Legs)]
  BY <1>4, <1>6, <1>7
<1>9. Len(kept.events) # 0
  <2>1. kept.events # <<>>
    BY DEF kept
  <2> QED
    BY <1>6, <2>1, EmptySeq
<1>10. \A i \in 1 .. last - first : first + i \in 1 .. Len(events) /\ kept.events[i] < final
  <2> SUFFICES ASSUME NEW i \in 1 .. last - first
               PROVE  first + i \in 1 .. Len(events) /\ kept.events[i] < final
    OBVIOUS
  <2>1. first + i \in 1 .. Len(events) /\ first + i <= last
    BY <1>1, <1>2
  <2>2. events[first + i] < final
    BY <1>2, <2>1
  <2> QED
    BY <1>6, <2>1, <2>2
<1>11. Increasing(kept.events)
  <2>1. ASSUME NEW i \in 1 .. last - first, NEW j \in 1 .. last - first, i < j
        PROVE  kept.events[i] < kept.events[j]
    <3>1. first + i \in DOMAIN events /\ first + j \in DOMAIN events /\ first + i < first + j
      <4>1. first + i \in 1 .. Len(events) /\ first + j \in 1 .. Len(events)
        BY <1>10
      <4>2. DOMAIN events = 1 .. Len(events)
        BY <1>1
      <4>3. first + i < first + j
        BY <1>2, <2>1
      <4> QED
        BY <4>1, <4>2, <4>3
    <3>2. events[first + i] < events[first + j]
      BY <1>1, <3>1 DEF Increasing
    <3> QED
      BY <1>6, <3>2
  <2>2. DOMAIN kept.events = 1 .. last - first
    BY <1>6
  <2> QED
    BY <2>1, <2>2 DEF Increasing
<1>12. kept \in PlanUntil(final)
  <2>1. kept \in Plan
    BY <1>6, <1>7, <1>8, <1>9 DEF Plan
  <2>2. \A i \in 1 .. Len(kept.events) - 1 : kept.events[i] < final
    <3>1. \A i \in 1 .. Len(kept.events) - 1 : i \in 1 .. last - first
      BY <1>2, <1>6
    <3> QED
      BY <1>10, <3>1
  <2> QED
    BY <1>11, <2>1, <2>2 DEF PlanUntil
<1>13. Last(kept.events) < final
  <2>1. last - first \in 1 .. last - first
    BY <1>2, <1>3, <1>6, <1>9
  <2> QED
    BY <1>6, <1>10, <2>1 DEF Last
<1> QED
  BY <1>12, <1>13 DEF kept

\* What is tiled: what is kept of the schedule, or else the mode at the start.
TilingTime(start, final) ==
  LET kept == Kept(start, final) IN IF kept.events = <<>> THEN start ELSE Last(kept.events)
TiledPlan(known, start, final) ==
  IF Kept(start, final).events = <<>>
  THEN [events |-> <<start>>, modes |-> <<ContactFlagsAt(known, start)>>]
  ELSE Kept(start, final)

LEMMA TiledPlanOpen ==
  ASSUME WellFormed(events, modes), NEW known \in KnownChanges, NEW start \in Nat, NEW final \in Nat,
         start < final
  PROVE  /\ TiledPlan(known, start, final) \in PlanUntil(final)
         /\ Last(TiledPlan(known, start, final).events) = TilingTime(start, final)
         /\ TilingTime(start, final) < final
<1> DEFINE kept == Kept(start, final)
           tiling == TilingTime(start, final)
           begin == TiledPlan(known, start, final)
<1>1. CASE kept.events = <<>>
  <2> DEFINE flags == ContactFlagsAt(known, start)
  <2>1. flags \in SUBSET Legs
    BY PhaseKnown
  <2>2. begin = [events |-> <<start>>, modes |-> <<flags>>] /\ tiling = start
    BY <1>1 DEF TiledPlan, TilingTime
  <2> HIDE DEF begin, flags, tiling
  <2>3. begin.events \in Seq(Nat) /\ begin.modes \in Seq(SUBSET Legs) /\ Len(begin.events) = 1
        /\ Len(begin.modes) = 1 /\ begin.events[1] = start
        /\ begin \in [events : Seq(Nat), modes : Seq(SUBSET Legs)]
    BY <2>1, <2>2
  <2>4. Increasing(begin.events)
    BY <2>3 DEF Increasing
  <2>5. begin \in PlanUntil(final)
    BY <2>3, <2>4 DEF PlanUntil, Plan
  <2> QED
    BY <2>2, <2>3, <2>5 DEF Last, begin, tiling
<1>2. CASE kept.events # <<>>
  <2>1. kept \in PlanUntil(final) /\ Last(kept.events) < final
    BY <1>2, KeptPlan
  <2>2. begin = kept /\ tiling = Last(kept.events)
    BY <1>2 DEF TiledPlan, TilingTime
  <2> HIDE DEF begin, kept, tiling
  <2> QED
    BY <2>1, <2>2 DEF begin, tiling
<1> QED
  BY <1>1, <1>2

\* A plan that has reached the end becomes a schedule that ends there.
EndsAt(times, final) == \A i \in DOMAIN times : times[i] >= final <=> i = Len(times)

LEMMA PlanIsSchedule ==
  ASSUME NEW final \in Nat, NEW plan \in PlanUntil(final), Last(plan.events) >= final
  PROVE  Closed(plan.events, Append(plan.modes, Legs)) /\ EndsAt(plan.events, final)
<1> DEFINE n == Len(plan.events)
<1>1. /\ plan.events \in Seq(Nat) /\ plan.modes \in Seq(SUBSET Legs) /\ Len(plan.modes) = n
      /\ n \in Nat /\ n # 0 /\ DOMAIN plan.events = 1 .. n /\ Increasing(plan.events)
      /\ \A i \in 1 .. n - 1 : plan.events[i] < final
  BY DEF PlanUntil, Plan
<1>2. /\ Append(plan.modes, Legs) \in Seq(SUBSET Legs) /\ Len(Append(plan.modes, Legs)) = n + 1
      /\ Append(plan.modes, Legs)[n + 1] = Legs
  <2>1. \A S : \A s \in Seq(S), x \in S :
          /\ Append(s, x) \in Seq(S) /\ Len(Append(s, x)) = Len(s) + 1
          /\ Append(s, x)[Len(s) + 1] = x
    BY AppendProperties
  <2>2. Legs \in SUBSET Legs
    OBVIOUS
  <2> QED
    BY <1>1, <2>1, <2>2
<1>3. EndsAt(plan.events, final)
  <2> SUFFICES ASSUME NEW i \in 1 .. n PROVE plan.events[i] >= final <=> i = n
    BY <1>1 DEF EndsAt
  <2>1. plan.events[i] \in Nat
    BY <1>1
  <2>2. CASE i = n
    BY <2>2 DEF Last
  <2>3. CASE i # n
    <3>1. i \in 1 .. n - 1
      BY <1>1, <2>3
    <3> QED
      BY <1>1, <2>1, <2>3, <3>1
  <2> QED
    BY <2>2, <2>3
<1> QED
  BY <1>1, <1>2, <1>3 DEF WellFormed, Closed

\* What the planner keeps true: the schedule is well formed and, when it is handed over,
\* reaches the end of the horizon; the gait in force is one that can be stepped, and the
\* last of the changes.
ScheduleInv == WellFormed(events, modes) /\ (Published => EndsAt(events, FinalTime))
GaitInv ==
  /\ gait \in Gait /\ Steppable(gait)
  /\ changes \in KnownChanges /\ Last(changes).time = gaitTime
ClockInv == {gaitTime, startTime, clock} \subseteq Nat /\ stage \in {"gait", "schedule"}
PlannerInv == ScheduleInv /\ GaitInv /\ ClockInv

LEMMA InvIsWellFormed == PlannerInv => WellFormedSchedule
<1> SUFFICES ASSUME PlannerInv PROVE WellFormedSchedule
  OBVIOUS
<1>1. changes \in Seq([time : Nat, gait : Gait, phase : Nat]) /\ changes # <<>>
  BY DEF PlannerInv, GaitInv, KnownChanges, Change
<1>2. TypeOK
  BY <1>1 DEF PlannerInv, GaitInv, ClockInv, ScheduleInv, WellFormed, TypeOK
<1> QED
  BY <1>2 DEF PlannerInv, ScheduleInv, WellFormed, Increasing, EndsAt, WellFormedSchedule

\* The constructor establishes it.
LEMMA PlannerInit == Init => PlannerInv
<1> SUFFICES ASSUME Init PROVE PlannerInv
  OBVIOUS
<1> DEFINE first == [time |-> 0, gait |-> InitGait, phase |-> InitPhase]
<1>1. first \in Change /\ first.time = 0
  BY GaitsAssumption, TimesAssumption, CycleAssumption DEF Change
<1>2. changes = <<first>>
  BY DEF Init
<1> HIDE DEF first
<1>3. changes \in Seq(Change) /\ Len(changes) = 1 /\ changes[1] = first /\ changes # <<>>
  BY <1>1, <1>2
<1>4. Increasing(ChangeTimes(changes))
  <2>1. \A i, j \in 1 .. 1 : ~(i < j)
    OBVIOUS
  <2> QED
    BY <1>3, <2>1, TimesOfChanges
<1>5. GaitInv
  BY <1>1, <1>3, <1>4, GaitsAssumption, SteppableAssumption DEF GaitInv, KnownChanges, Init, Last
<1>6. ScheduleInv
  <2>1. events \in Seq(Nat) /\ Len(events) = 1 /\ Len(modes) = 2 /\ stage = "schedule"
    BY DEF Init
  <2>2. modes \in Seq(SUBSET Legs)
    <3>1. StanceBefore(InitGait, InitPhase) \in SUBSET Legs
      BY DEF StanceBefore
    <3> QED
      BY <3>1 DEF Init
  <2>3. Increasing(events)
    BY <2>1 DEF Increasing
  <2> QED
    BY <2>1, <2>2, <2>3 DEF ScheduleInv, WellFormed, Published
<1>7. ClockInv
  BY DEF Init, ClockInv
<1> QED
  BY <1>5, <1>6, <1>7 DEF PlannerInv

\* New gait parameters cut the schedule and continue it: the gait begins when it is asked
\* for, or MinTime later.
LEMMA UpdateKeeps ==
  ASSUME PlannerInv, NEW time \in Nat, NEW g \in Gaits, UpdateDynamicParameters(time, g)
  PROVE  /\ WellFormed(events', modes')
         /\ gaitTime' \in {time, time + MinTime}
         /\ gaitTime' > Last(changes).time => GaitInv'
         /\ startTime' = startTime
<1> DEFINE clamped == Clamp(g)
           phase == PhaseAt(changes, time)
           index == IndexInTimes(events, time)
           newMode == StanceBefore(clamped, phase)
<1>1. g \in Gait /\ clamped \in Gait /\ Steppable(clamped)
  BY GaitsAssumption, SteppableAssumption, ClampedGait
<1>2. phase \in Int
  BY PhaseKnown DEF PlannerInv, GaitInv
<1>3. newMode \in SUBSET Legs
  BY DEF StanceBefore
<1>4. WellFormed(events, modes)
  BY DEF PlannerInv, ScheduleInv
<1>5. WellFormed(events', modes') /\ gaitTime' \in {time, time + MinTime}
  <2>1. CASE ContinueMode(time, clamped, index, phase)
    <3> DEFINE wait == Min({TimeToNextAfter(LegPhase(clamped, phase, leg), clamped) : leg \in Legs})
    <3>1. wait \in Nat
      BY <1>1, <1>2, WaitIsNumber
    <3>2. /\ gaitTime' = time
          /\ events' = Append(SubSeq(events, 1, index), time + wait)
          /\ modes' = Append(SubSeq(modes, 1, index + 1), Legs)
      BY <2>1 DEF ContinueMode
    <3> HIDE DEF wait, clamped, phase
    <3>3. time + wait \in Nat /\ time + wait >= time /\ Legs \in SUBSET Legs
      BY <3>1
    <3>4. WellFormed(events', modes')
      BY <1>4, <3>2, <3>3, ScheduleCut
    <3> QED
      BY <3>2, <3>4
  <2>2. CASE ChangeMode(time, clamped, index, newMode)
    <3>1. PICK close \in SwitchClose(time, index) :
                 /\ gaitTime' = ChangeTime(time, close, index)
                 /\ events' = Append(SubSeq(events, 1, index), gaitTime')
                 /\ modes' = Append(SubSeq(modes, 1, index + 1), newMode)
      BY <2>2 DEF ChangeMode
    <3> HIDE DEF newMode
    <3>2. gaitTime' \in {time, time + MinTime}
      BY <3>1 DEF ChangeTime
    <3>3. gaitTime' \in Nat /\ gaitTime' >= time
      BY <3>2, MinTimeAssumption
    <3>4. WellFormed(events', modes')
      BY <1>3, <1>4, <3>1, <3>3, ScheduleCut
    <3> QED
      BY <3>2, <3>4
  <2> QED
    BY <2>1, <2>2 DEF UpdateDynamicParameters
<1>6. ASSUME gaitTime' > Last(changes).time PROVE GaitInv'
  <2>1. changes' = AddChange(changes, gaitTime', clamped) /\ gait' = clamped
    BY DEF UpdateDynamicParameters
  <2>2. changes \in KnownChanges
    BY DEF PlannerInv, GaitInv
  <2>3. gaitTime' \in Nat
    BY <1>5, MinTimeAssumption
  <2> HIDE DEF clamped
  <2>4. changes' \in KnownChanges /\ Last(changes').time = gaitTime'
    BY <1>1, <1>6, <2>1, <2>2, <2>3, ChangeAdded
  <2> QED
    BY <1>1, <2>1, <2>4 DEF GaitInv, Steppable, Duration, Ticks
<1> QED
  BY <1>5, <1>6 DEF UpdateDynamicParameters

\* getModeSchedule tiles the template from the last event it keeps to the end.
LEMMA ScheduleKeeps ==
  ASSUME PlannerInv, NEW start \in Nat, NEW final \in Nat, start < final,
         GetModeSchedule(start, final)
  PROVE  /\ Closed(events', modes') /\ EndsAt(events', final)
         /\ GaitInv' /\ startTime' = start /\ gaitTime' = gaitTime
<1> DEFINE known == RemoveBefore(changes, start)
           tiling == TilingTime(start, final)
           begin == TiledPlan(known, start, final)
           phase == TilingPhase(known, tiling, start)
           template == Template(gait, phase, final - tiling)
           plan == Tile(begin, template, final)
<1>1. /\ changes' = known /\ events' = plan.events /\ modes' = Append(plan.modes, Legs)
      /\ startTime' = start /\ gait' = gait /\ gaitTime' = gaitTime
  BY DEF GetModeSchedule, TilingTime, TiledPlan
<1>2. known \in KnownChanges /\ Last(known) = Last(changes)
  BY ChangesRemoved DEF PlannerInv, GaitInv
<1> HIDE DEF known
<1>3. GaitInv'
  BY <1>1, <1>2 DEF PlannerInv, GaitInv, Steppable, Duration, Ticks
<1>4. begin \in PlanUntil(final) /\ Last(begin.events) = tiling /\ tiling < final
  BY <1>2, TiledPlanOpen DEF PlannerInv, ScheduleInv
<1> HIDE DEF begin, tiling
<1>5. tiling \in Nat
  BY <1>4 DEF PlanUntil, Plan, Last
<1>6. phase \in Int
  BY <1>2, <1>5, PhaseKnown DEF TilingPhase
<1>7. final - tiling \in Nat \ {0}
  BY <1>4, <1>5
<1> HIDE DEF phase
<1>8. gait \in Gait /\ Steppable(gait)
  BY DEF PlannerInv, GaitInv
<1>9. /\ template \in Seq(Pieces)
      /\ \E end \in Nat : end >= final - tiling /\ Covers(template, end, final - tiling)
  BY <1>6, <1>7, <1>8, TemplateCovers
<1> HIDE DEF template
<1>10. plan \in PlanUntil(final) /\ Last(plan.events) >= final
  BY <1>4, <1>9, TileReaches
<1> HIDE DEF plan
<1>11. Closed(events', modes') /\ EndsAt(events', final)
  BY <1>1, <1>10, PlanIsSchedule
<1> QED
  BY <1>1, <1>3, <1>11

\* One step of a generation keeps the invariant.
LEMMA PlannerStep == PlannerInv /\ [Next]_vars => PlannerInv'
<1> SUFFICES ASSUME PlannerInv, [Next]_vars PROVE PlannerInv'
  OBVIOUS
<1>1. CASE ChangeGait
  <2>1. PICK g \in Gaits : UpdateDynamicParameters(UpdateTime, g)
    BY <1>1 DEF ChangeGait
  <2>2. UpdateTime \in Nat
    BY TimesAssumption DEF UpdateTime, PlannerInv, ClockInv
  <2>3. gaitTime' > Last(changes).time /\ stage' = "schedule" /\ clock' = clock
    BY <1>1 DEF ChangeGait
  <2>4. WellFormed(events', modes') /\ gaitTime' \in {UpdateTime, UpdateTime + MinTime} /\ GaitInv'
        /\ startTime' = startTime
    BY <2>1, <2>2, <2>3, UpdateKeeps
  <2>5. ClockInv'
    BY <2>2, <2>3, <2>4, MinTimeAssumption DEF PlannerInv, ClockInv
  <2> QED
    BY <2>3, <2>4, <2>5 DEF PlannerInv, ScheduleInv, Published
<1>2. CASE KeepGait
  BY <1>2 DEF KeepGait, plannerVars, PlannerInv, ScheduleInv, GaitInv, ClockInv, WellFormed, Published,
              Steppable, Duration, Ticks
<1>3. CASE Schedule
  <2>1. GetModeSchedule(clock, clock + Horizon) /\ stage' = "gait"
    BY <1>3 DEF Schedule
  <2>2. clock \in Nat /\ clock + Horizon \in Nat /\ clock < clock + Horizon
    BY TimesAssumption DEF PlannerInv, ClockInv
  <2>3. WellFormed(events', modes') /\ EndsAt(events', clock + Horizon) /\ GaitInv'
        /\ startTime' = clock /\ gaitTime' = gaitTime
    BY <2>1, <2>2, ScheduleKeeps DEF Closed
  <2>4. clock' \in Nat
    BY <1>3, <2>2, TimesAssumption DEF Schedule
  <2>5. ScheduleInv'
    BY <2>3 DEF ScheduleInv, FinalTime
  <2> QED
    BY <2>1, <2>2, <2>3, <2>4, <2>5 DEF PlannerInv, ClockInv
<1>4. CASE UNCHANGED vars
  BY <1>4 DEF vars, plannerVars, PlannerInv, ScheduleInv, GaitInv, ClockInv, WellFormed, Published,
              FinalTime, Steppable, Duration, Ticks
<1> QED
  BY <1>1, <1>2, <1>3, <1>4 DEF Next

\* Every mode schedule the solver is handed is well formed (WellFormedSchedule): whatever
\* gaits are asked for and whenever, its events increase, there is one mode more than
\* there are events, and only the last event is at or after the end of the horizon.
THEOREM ScheduleWellFormed == Spec => []WellFormedSchedule
<1> QED
  BY PlannerInit, PlannerStep, InvIsWellFormed, PTL DEF Spec

-----------------------------------------------------------------------------
(* The order of the changes.                                               *)

\* Generations are further apart than a change of gait may be put off.
Spaced == \A step \in Steps : step > MinTime

\* A change is put off by MinTime at most.
OrderInv ==
  /\ ChangesInOrder
  /\ stage = "schedule" => gaitTime <= UpdateTime + MinTime

LEMMA OrderStep ==
  ASSUME Spaced, PlannerInv, OrderInv, [Next]_vars
  PROVE  OrderInv'
<1>1. clock \in Nat /\ gaitTime \in Nat /\ UpdateTime \in Nat /\ MinTime \in Nat
  BY TimesAssumption, MinTimeAssumption DEF UpdateTime, PlannerInv, ClockInv
<1>2. CASE ChangeGait
  <2>1. PICK g \in Gaits : UpdateDynamicParameters(UpdateTime, g)
    BY <1>2 DEF ChangeGait
  <2>2. gaitTime' \in {UpdateTime, UpdateTime + MinTime}
    BY <1>1, <2>1, UpdateKeeps
  <2>3. stage' = "schedule" /\ UpdateTime' = UpdateTime
    BY <1>2 DEF ChangeGait, UpdateTime
  <2> QED
    BY <1>1, <2>2, <2>3 DEF OrderInv, ChangesInOrder
<1>3. CASE KeepGait
  <2>1. stage = "gait" /\ stage' = "schedule" /\ gaitTime' = gaitTime /\ UpdateTime' = UpdateTime
    BY <1>3 DEF KeepGait, plannerVars, UpdateTime
  <2> QED
    BY <1>1, <2>1 DEF OrderInv, ChangesInOrder
<1>4. CASE Schedule
  <2>1. PICK step \in Steps : clock' = clock + step
    BY <1>4 DEF Schedule
  <2>2. step \in Nat /\ step > MinTime
    BY TimesAssumption DEF Spaced
  <2>3. stage = "schedule" /\ stage' = "gait" /\ gaitTime' = gaitTime
    BY <1>4 DEF Schedule, GetModeSchedule
  <2>4. UpdateTime' = UpdateTime + step
    BY <1>1, <2>1, <2>2, TimesAssumption DEF UpdateTime, PlannerInv, ClockInv
  <2> QED
    BY <1>1, <2>2, <2>3, <2>4 DEF OrderInv, ChangesInOrder
<1>5. CASE UNCHANGED vars
  BY <1>5 DEF vars, plannerVars, OrderInv, ChangesInOrder, UpdateTime
<1> QED
  BY <1>2, <1>3, <1>4, <1>5 DEF Next

LEMMA OrderInit == Init => OrderInv
<1> SUFFICES ASSUME Init PROVE OrderInv
  OBVIOUS
<1>1. UpdateTime \in Nat /\ UpdateTime + MinTime >= 0
  BY TimesAssumption, MinTimeAssumption DEF Init, UpdateTime
<1> QED
  BY <1>1 DEF Init, OrderInv, ChangesInOrder

\* Where generations are spaced, the time of a change is after the last one
\* (ChangesInOrder).
THEOREM SpacedChangesInOrder == ASSUME Spaced PROVE Spec => []ChangesInOrder
<1>1. OrderInv => ChangesInOrder
  BY DEF OrderInv
<1> QED
  BY <1>1, PlannerInit, PlannerStep, OrderInit, OrderStep, PTL DEF Spec

\* The planner of a build without asserts: a change is made whenever it is asked for.
ChangeUnasserted ==
  /\ stage = "gait"
  /\ \E g \in Gaits \ {gait} : UpdateDynamicParameters(UpdateTime, g)
  /\ stage' = "schedule"
  /\ UNCHANGED clock

SpecUnasserted == Init /\ [][ChangeUnasserted \/ KeepGait \/ Schedule]_vars

LEMMA AssertsHold ==
  ASSUME PlannerInv, OrderInv, ChangeUnasserted
  PROVE  ChangeGait
<1>1. PICK g \in Gaits : UpdateDynamicParameters(UpdateTime, g)
  BY DEF ChangeUnasserted
<1>2. UpdateTime \in Nat /\ gaitTime \in Nat /\ MinTime \in Nat
  BY TimesAssumption, MinTimeAssumption DEF UpdateTime, PlannerInv, ClockInv
<1>3. UpdateTime > gaitTime /\ Last(changes).time = gaitTime
  BY DEF ChangeUnasserted, OrderInv, ChangesInOrder, PlannerInv, GaitInv
<1>4. gaitTime' \in {UpdateTime, UpdateTime + MinTime}
  BY <1>1, <1>2, UpdateKeeps
<1> QED
  BY <1>2, <1>3, <1>4 DEF ChangeUnasserted, ChangeGait

\* Where generations are spaced, the asserts of updateDynamicParameters and of the phase
\* controller never fail: without them the planner has the same behaviours.
THEOREM AssertsNeverFail == ASSUME Spaced PROVE SpecUnasserted => Spec
<1>1. ASSUME PlannerInv, OrderInv, [ChangeUnasserted \/ KeepGait \/ Schedule]_vars
      PROVE  [Next]_vars /\ PlannerInv' /\ OrderInv'
  <2>1. [Next]_vars
    BY <1>1, AssertsHold DEF Next
  <2> QED
    BY <1>1, <2>1, PlannerStep, OrderStep
<1> QED
  BY <1>1, PlannerInit, OrderInit, PTL DEF Spec, SpecUnasserted
=============================================================================
