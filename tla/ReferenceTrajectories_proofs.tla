--------------------- MODULE ReferenceTrajectories_proofs ---------------------
(***************************************************************************)
(* The feet of a generation follow the schedule they are planned from, the *)
(* footholds about to be stepped on are kept, and the samples of the       *)
(* reference agree with all of it, for every set of gaits, every horizon   *)
(* and any number of legs.                                                 *)
(***************************************************************************)
EXTENDS ReferenceTrajectories, GaitPlanner_proofs

-----------------------------------------------------------------------------
(* The contacts of a leg.                                                  *)

Run == [first : Nat \ {0}, last : Nat \ {0}]

\* The runs are those of the first n modes: the leg stands in all of their modes, they
\* are apart, and they miss no mode.
RunsOf(leg, sequence, n) ==
  {runs \in Seq(Run) :
     /\ \A c \in 1 .. Len(runs) : /\ runs[c].first <= runs[c].last /\ runs[c].last <= n
                                  /\ \A i \in runs[c].first .. runs[c].last : leg \in sequence[i]
     /\ \A c, d \in 1 .. Len(runs) : c < d => runs[c].last + 1 < runs[d].first
     /\ \A i \in 1 .. n : leg \in sequence[i] =>
          \E c \in 1 .. Len(runs) : i \in runs[c].first .. runs[c].last}

\* Reading one more mode.
LEMMA ModeRead ==
  ASSUME NEW leg, NEW sequence, NEW n \in Nat \ {0}, NEW runs \in RunsOf(leg, sequence, n - 1)
  PROVE  IF leg \in sequence[n] THEN ReadMode(runs, n) \in RunsOf(leg, sequence, n)
         ELSE runs \in RunsOf(leg, sequence, n)
<1> DEFINE K == Len(runs)
<1>0. runs \in Seq(Run) /\ K \in Nat /\ \A c \in 1 .. K : runs[c] \in Run
  BY DEF RunsOf
<1>1. /\ runs \in Seq(Run) /\ K \in Nat
      /\ \A c \in 1 .. K : /\ runs[c] \in Run /\ runs[c].first \in Nat \ {0}
                           /\ runs[c].last \in Nat \ {0}
  BY <1>0 DEF Run
<1>2. /\ \A c \in 1 .. K : /\ runs[c].first <= runs[c].last /\ runs[c].last <= n - 1
                           /\ \A i \in runs[c].first .. runs[c].last : leg \in sequence[i]
      /\ \A c, d \in 1 .. K : c < d => runs[c].last + 1 < runs[d].first
      /\ \A i \in 1 .. n - 1 : leg \in sequence[i] =>
           \E c \in 1 .. K : i \in runs[c].first .. runs[c].last
  BY DEF RunsOf
<1>3. CASE leg \notin sequence[n]
  <2>1. \A c \in 1 .. K : runs[c].last <= n
    BY <1>1, <1>2 DEF Run
  <2>2. \A i \in 1 .. n : leg \in sequence[i] => i \in 1 .. n - 1
    BY <1>3
  <2> QED
    BY <1>1, <1>2, <1>3, <2>1, <2>2 DEF RunsOf
<1>4. CASE leg \in sequence[n] /\ ~(runs # <<>> /\ Last(runs).last = n - 1)
  <2> DEFINE run == [first |-> n, last |-> n]
             next == Append(runs, run)
  <2>1. ReadMode(runs, n) = next
    BY <1>4 DEF ReadMode
  <2>2. run \in Run /\ run.first = n /\ run.last = n
    BY DEF Run
  <2> HIDE DEF run
  <2>3. next \in Seq(Run) /\ Len(next) = K + 1 /\ next[K + 1] = run /\ \A c \in 1 .. K : next[c] = runs[c]
    BY <1>1, <2>2, AppendProperties
  <2> HIDE DEF next, K
  <2>4. \A c \in 1 .. K : runs[c].last + 1 < n
    <3> SUFFICES ASSUME NEW c \in 1 .. K PROVE runs[c].last + 1 < n
      OBVIOUS
    <3>1. runs[K].last # n - 1 /\ K \in 1 .. K
      BY <1>1, <1>4 DEF Last, K
    <3>2. runs[K].last < n - 1 /\ runs[K].last \in Nat
      BY <1>1, <1>2, <3>1 DEF Run
    <3>3. c = K \/ runs[c].last + 1 < runs[K].first
      BY <1>1, <1>2, <3>1
    <3> QED
      BY <1>1, <1>2, <3>1, <3>2, <3>3 DEF Run
  <2>5. \A c \in 1 .. K + 1 : c = K + 1 \/ c \in 1 .. K
    BY <1>1
  <2>6. \A c \in 1 .. K + 1 : /\ next[c].first <= next[c].last /\ next[c].last <= n
                              /\ \A i \in next[c].first .. next[c].last : leg \in sequence[i]
    <3> SUFFICES ASSUME NEW c \in 1 .. K + 1
                 PROVE  /\ next[c].first <= next[c].last /\ next[c].last <= n
                        /\ \A i \in next[c].first .. next[c].last : leg \in sequence[i]
      OBVIOUS
    <3>1. CASE c = K + 1
      <4>1. \A i \in n .. n : i = n
        OBVIOUS
      <4> QED
        BY <1>4, <2>2, <2>3, <3>1, <4>1
    <3>2. CASE c \in 1 .. K
      <4>1. next[c] = runs[c] /\ runs[c].last <= n
        BY <1>1, <1>2, <2>3, <3>2
      <4> QED
        BY <1>2, <3>2, <4>1
    <3> QED
      BY <2>5, <3>1, <3>2
  <2>7. \A c, d \in 1 .. K + 1 : c < d => next[c].last + 1 < next[d].first
    <3> SUFFICES ASSUME NEW c \in 1 .. K + 1, NEW d \in 1 .. K + 1, c < d
                 PROVE  next[c].last + 1 < next[d].first
      OBVIOUS
    <3>1. c \in 1 .. K /\ next[c] = runs[c]
      BY <1>1, <2>3
    <3> QED
      BY <1>2, <2>2, <2>3, <2>4, <2>5, <3>1
  <2>8. \A i \in 1 .. n : leg \in sequence[i] => \E c \in 1 .. K + 1 : i \in next[c].first .. next[c].last
    <3> SUFFICES ASSUME NEW i \in 1 .. n, leg \in sequence[i]
                 PROVE  \E c \in 1 .. K + 1 : i \in next[c].first .. next[c].last
      OBVIOUS
    <3>1. CASE i = n
      BY <1>1, <2>2, <2>3, <3>1
    <3>2. CASE i # n
      <4>1. i \in 1 .. n - 1
        BY <3>2
      <4>2. PICK c \in 1 .. K : i \in runs[c].first .. runs[c].last
        BY <1>2, <4>1
      <4> QED
        BY <1>1, <2>3, <4>2
    <3> QED
      BY <3>1, <3>2
  <2> QED
    BY <1>4, <2>1, <2>3, <2>6, <2>7, <2>8 DEF RunsOf
<1>5. CASE leg \in sequence[n] /\ runs # <<>> /\ Last(runs).last = n - 1
  <2> DEFINE run == [first |-> Last(runs).first, last |-> n]
             front == Front(runs)
             next == Append(front, run)
  <2>1. ReadMode(runs, n) = next
    BY <1>5 DEF ReadMode
  <2>2. K \in 1 .. K /\ Last(runs) = runs[K] /\ runs[K].last = n - 1
    BY <1>1, <1>5 DEF Last
  <2>3. run \in Run /\ run.first = runs[K].first /\ run.last = n
    BY <1>1, <2>2 DEF Run
  <2>4. front \in Seq(Run) /\ Len(front) = K - 1 /\ \A c \in 1 .. K - 1 : front[c] = runs[c]
    <3>1. front = SubSeq(runs, 1, K - 1) /\ K - 1 \in 0 .. Len(runs)
      BY <1>1, <2>2 DEF Front
    <3> HIDE DEF front
    <3> QED
      BY <1>1, <3>1, PrefixProperties
  <2> HIDE DEF run, front
  <2>5. next \in Seq(Run) /\ Len(next) = K /\ next[K] = run /\ \A c \in 1 .. K - 1 : next[c] = runs[c]
    BY <1>1, <2>2, <2>3, <2>4, AppendProperties
  <2> HIDE DEF next, K
  <2>6. \A c \in 1 .. K : c = K \/ (c \in 1 .. K - 1 /\ c < K)
    BY <1>1
  <2>7. \A c \in 1 .. K : next[c].first = runs[c].first
    BY <2>3, <2>5, <2>6
  <2>8. \A i \in run.first .. n : leg \in sequence[i]
    <3> SUFFICES ASSUME NEW i \in run.first .. n PROVE leg \in sequence[i]
      OBVIOUS
    <3>1. i = n \/ i \in runs[K].first .. runs[K].last
      BY <1>1, <2>2, <2>3 DEF Run
    <3> QED
      BY <1>2, <1>5, <2>2, <3>1
  <2>9. \A c \in 1 .. K : /\ next[c].first <= next[c].last /\ next[c].last <= n
                          /\ \A i \in next[c].first .. next[c].last : leg \in sequence[i]
    <3> SUFFICES ASSUME NEW c \in 1 .. K
                 PROVE  /\ next[c].first <= next[c].last /\ next[c].last <= n
                        /\ \A i \in next[c].first .. next[c].last : leg \in sequence[i]
      OBVIOUS
    <3>1. CASE c = K
      BY <1>1, <1>2, <2>2, <2>3, <2>5, <2>8, <3>1 DEF Run
    <3>2. CASE c # K
      <4>1. next[c] = runs[c] /\ runs[c].last <= n
        BY <1>1, <1>2, <2>5, <2>6, <3>2
      <4> QED
        BY <1>2, <4>1
    <3> QED
      BY <3>1, <3>2
  <2>10. \A c, d \in 1 .. K : c < d => next[c].last + 1 < next[d].first
    <3> SUFFICES ASSUME NEW c \in 1 .. K, NEW d \in 1 .. K, c < d PROVE next[c].last + 1 < next[d].first
      OBVIOUS
    <3>1. c \in 1 .. K - 1
      <4>1. K \in Nat
        BY <1>1
      <4> QED
        BY <4>1
    <3>2. next[c] = runs[c]
      BY <2>5, <3>1
    <3>3. runs[c].last + 1 < runs[d].first /\ next[d].first = runs[d].first
      BY <1>2, <2>7
    <3> QED
      BY <3>2, <3>3
  <2>11. \A i \in 1 .. n : leg \in sequence[i] => \E c \in 1 .. K : i \in next[c].first .. next[c].last
    <3> SUFFICES ASSUME NEW i \in 1 .. n, leg \in sequence[i]
                 PROVE  \E c \in 1 .. K : i \in next[c].first .. next[c].last
      OBVIOUS
    <3>1. CASE i = n
      <4>1. n \in next[K].first .. next[K].last
        BY <1>1, <1>2, <2>2, <2>3, <2>5
      <4> QED
        BY <2>2, <3>1, <4>1
    <3>2. CASE i # n
      <4>1. i \in 1 .. n - 1
        BY <3>2
      <4>2. PICK c \in 1 .. K : i \in runs[c].first .. runs[c].last
        BY <1>2, <4>1
      <4>3. i \in next[c].first .. next[c].last
        <5>1. CASE c = K
          BY <1>1, <2>2, <2>3, <2>5, <4>2, <5>1
        <5>2. CASE c # K
          BY <2>5, <2>6, <4>2, <5>2
        <5> QED
          BY <5>1, <5>2
      <4> QED
        BY <4>3
    <3> QED
      BY <3>1, <3>2
  <2> QED
    BY <1>5, <2>1, <2>5, <2>9, <2>10, <2>11 DEF RunsOf
<1> QED
  BY <1>3, <1>4, <1>5

LEMMA ModeReadType ==
  ASSUME NEW runs \in Seq(Run), NEW i \in Nat \ {0}
  PROVE  ReadMode(runs, i) \in Seq(Run)
<1>1. CASE runs # <<>> /\ Last(runs).last = i - 1
  <2>1. Len(runs) \in Nat \ {0} /\ Last(runs) \in Run
    BY <1>1 DEF Last
  <2>2. Front(runs) \in Seq(Run)
    <3>1. Front(runs) = SubSeq(runs, 1, Len(runs) - 1) /\ Len(runs) - 1 \in 0 .. Len(runs)
      BY <2>1 DEF Front
    <3> QED
      BY <3>1, PrefixProperties
  <2>3. [first |-> Last(runs).first, last |-> i] \in Run
    BY <2>1 DEF Run
  <2> QED
    BY <1>1, <2>2, <2>3, AppendProperties DEF ReadMode
<1>2. CASE ~(runs # <<>> /\ Last(runs).last = i - 1)
  <2>1. [first |-> i, last |-> i] \in Run
    BY DEF Run
  <2> QED
    BY <1>2, <2>1, AppendProperties DEF ReadMode
<1> QED
  BY <1>1, <1>2

\* The loop reads all of them.
LEMMA RunsRead ==
  ASSUME NEW leg, NEW sequence, NEW N \in Nat, Len(sequence) = N
  PROVE  StanceRuns(leg, sequence)[N] \in RunsOf(leg, sequence, N)
<1> DEFINE Read(runs, n) == IF leg \in sequence[n] THEN ReadMode(runs, n) ELSE runs
           Equation(f) ==
             f = [n \in 0 .. N |->
                    IF n = 0 THEN <<>>
                    ELSE IF leg \in sequence[n] THEN ReadMode(f[n - 1], n) ELSE f[n - 1]]
           step == [x \in Seq(Run) \X (1 .. N) |-> Read(x[1], x[2])]
           after == StanceRuns(leg, sequence)
<1>1. step \in [Seq(Run) \X (1 .. N) -> Seq(Run)] /\ <<>> \in Seq(Run)
  <2>1. \A x \in Seq(Run) \X (1 .. N) : Read(x[1], x[2]) \in Seq(Run)
    BY ModeReadType
  <2> QED
    BY <2>1
<1> HIDE DEF step
<1>2. PICK f \in [0 .. N -> Seq(Run)] : Passes(f, N, <<>>, step)
  BY <1>1, LoopDefined
<1>3. Equation(f)
  <2>1. \A n \in 1 .. N : n \in 0 .. N /\ n - 1 \in 0 .. N
    OBVIOUS
  <2>2. \A n \in 1 .. N : f[n] = Read(f[n - 1], n)
    BY <1>2, <2>1 DEF step, Passes
  <2>3. \A n \in 0 .. N : f[n] = IF n = 0 THEN <<>>
          ELSE IF leg \in sequence[n] THEN ReadMode(f[n - 1], n) ELSE f[n - 1]
    BY <1>2, <2>2 DEF Passes
  <2> QED
    BY <2>3
<1>4. Equation(after)
  BY <1>3 DEF StanceRuns
<1> HIDE DEF after
<1>5. after[0] = <<>> /\ \A n \in 1 .. N : after[n] = Read(after[n - 1], n)
  BY <1>4
<1> HIDE DEF Equation
<1> DEFINE T == {n \in Nat : n <= N => after[n] \in RunsOf(leg, sequence, n)}
<1>6. 0 \in T
  <2>1. Len(<<>>) = 0 /\ <<>> \in Seq(Run)
    OBVIOUS
  <2>2. <<>> \in RunsOf(leg, sequence, 0)
    BY <2>1 DEF RunsOf
  <2> QED
    BY <1>5, <2>2
<1>7. \A n \in T : n + 1 \in T
  <2> SUFFICES ASSUME NEW n \in T, n + 1 <= N
               PROVE  after[n + 1] \in RunsOf(leg, sequence, n + 1)
    OBVIOUS
  <2>1. n + 1 \in 1 .. N /\ n + 1 \in Nat \ {0} /\ (n + 1) - 1 = n
    OBVIOUS
  <2>2. after[n] \in RunsOf(leg, sequence, n) /\ after[n + 1] = Read(after[n], n + 1)
    BY <1>5, <2>1
  <2> DEFINE m == n + 1
  <2>3. m \in Nat \ {0} /\ after[n] \in RunsOf(leg, sequence, m - 1)
    BY <2>1, <2>2
  <2> HIDE DEF m
  <2>4. Read(after[n], m) \in RunsOf(leg, sequence, m)
    BY <2>3, ModeRead
  <2> QED
    BY <2>2, <2>4 DEF m
<1>8. N \in T
  <2> HIDE DEF T
  <2>1. T \in SUBSET Nat
    BY DEF T
  <2> QED
    BY <1>6, <1>7, <2>1, SetInduction
<1> QED
  BY <1>8 DEF after

\* The timings of a leg's contacts: they are in order, all but the first have a start and
\* all but the last an end, and these are events of the schedule.
Contact == [start : Nat \cup {NoTime}, end : Nat \cup {NoTime}]
Contacts ==
  {contacts \in Seq(Contact) :
     /\ Len(contacts) # 0
     /\ \A c \in 1 .. Len(contacts) :
          /\ HasEnd(contacts[c]) <=> c # Len(contacts)
          /\ HasStart(contacts[c]) \/ c = 1
          /\ HasStart(contacts[c]) /\ HasEnd(contacts[c]) => contacts[c].start < contacts[c].end
     /\ \A c, d \in 1 .. Len(contacts) : c < d => contacts[c].end < contacts[d].start}

During(contact, time) ==
  (HasStart(contact) => contact.start < time) /\ (HasEnd(contact) => time <= contact.end)

\* The contacts of a leg are the times at which the modes have it in stance.
LEMMA ContactsOfSchedule ==
  ASSUME NEW times, NEW sequence, Closed(times, sequence), NEW leg \in Legs
  PROVE  LET contacts == ContactTimings(leg, times, sequence)
         IN  /\ contacts \in Contacts
             /\ \A c \in 1 .. Len(contacts) :
                  /\ HasStart(contacts[c]) => \E i \in 1 .. Len(times) : times[i] = contacts[c].start
                  /\ HasEnd(contacts[c]) => \E i \in 1 .. Len(times) : times[i] = contacts[c].end
             /\ \A time \in Nat : leg \in sequence[IndexInTimes(times, time) + 1] <=>
                  \E c \in 1 .. Len(contacts) : During(contacts[c], time)
<1> DEFINE N == Len(sequence)
           runs == StanceRuns(leg, sequence)[N]
           K == Len(runs)
           contacts == ContactTimings(leg, times, sequence)
<1>1. /\ times \in Seq(Nat) /\ Len(times) \in Nat /\ N = Len(times) + 1 /\ Increasing(times)
      /\ sequence[N] = Legs /\ N \in Nat \ {0} /\ DOMAIN times = 1 .. Len(times)
      /\ \A i \in 1 .. Len(times) : times[i] \in Nat
  BY DEF Closed, WellFormed
<1>2. contacts = [c \in DOMAIN runs |-> [start |-> StartOf(runs[c], times), end |-> EndOf(runs[c], times, N)]]
  BY DEF ContactTimings
<1>3. runs \in RunsOf(leg, sequence, N)
  <2> HIDE DEF runs
  <2> QED
    BY <1>1, RunsRead DEF runs
<1> HIDE DEF contacts, runs, N
<1>4. /\ K \in Nat /\ DOMAIN runs = 1 .. K
      /\ \A c \in 1 .. K : /\ runs[c].first \in 1 .. N /\ runs[c].last \in 1 .. N /\ runs[c].first <= runs[c].last
                           /\ \A i \in runs[c].first .. runs[c].last : leg \in sequence[i]
      /\ \A c, d \in 1 .. K : c < d => runs[c].last + 1 < runs[d].first
      /\ \A i \in 1 .. N : leg \in sequence[i] =>
           \E c \in 1 .. K : i \in runs[c].first .. runs[c].last
  <2>1. runs \in Seq(Run) /\ \A c \in 1 .. K : runs[c].first \in Nat \ {0} /\ runs[c].last \in Nat \ {0}
    <3>1. runs \in Seq(Run)
      BY <1>3 DEF RunsOf
    <3>2. \A c \in 1 .. K : runs[c] \in Run
      BY <3>1
    <3> QED
      BY <3>1, <3>2 DEF Run
  <2>2. \A c \in 1 .. K : runs[c].first <= runs[c].last /\ runs[c].last <= N
    BY <1>3 DEF RunsOf
  <2>3. \A c \in 1 .. K : runs[c].first \in 1 .. N /\ runs[c].last \in 1 .. N
    BY <1>1, <2>1, <2>2
  <2> QED
    BY <1>3, <2>1, <2>2, <2>3 DEF RunsOf
<1> HIDE DEF K
<1>5. Len(contacts) = K /\ DOMAIN contacts = 1 .. K
  BY <1>2, <1>4
\* A mode begins after the event before it and ends with its own.
<1>6. \A c \in 1 .. K : /\ contacts[c].start = IF runs[c].first = 1 THEN NoTime ELSE times[runs[c].first - 1]
                       /\ contacts[c].end = IF runs[c].last = N THEN NoTime ELSE times[runs[c].last]
  BY <1>2, <1>4, <1>5 DEF StartOf, EndOf
<1>7. /\ \A c \in 1 .. K : runs[c].first # 1 => runs[c].first - 1 \in 1 .. Len(times)
      /\ \A c \in 1 .. K : runs[c].last # N => runs[c].last \in 1 .. Len(times)
  BY <1>1, <1>4
<1>8. /\ \A c \in 1 .. K : HasStart(contacts[c]) <=> runs[c].first # 1
      /\ \A c \in 1 .. K : HasEnd(contacts[c]) <=> runs[c].last # N
      /\ \A c \in 1 .. K : HasStart(contacts[c]) => contacts[c].start = times[runs[c].first - 1]
      /\ \A c \in 1 .. K : HasEnd(contacts[c]) => contacts[c].end = times[runs[c].last]
  <2>1. \A i \in 1 .. Len(times) : times[i] # NoTime
    BY <1>1 DEF NoTime
  <2>2. \A c \in 1 .. K : HasStart(contacts[c]) <=> runs[c].first # 1
    BY <1>6, <1>7, <2>1 DEF HasStart
  <2>3. \A c \in 1 .. K : HasEnd(contacts[c]) <=> runs[c].last # N
    BY <1>6, <1>7, <2>1 DEF HasEnd
  <2> QED
    BY <1>6, <2>2, <2>3
<1>9. K # 0 /\ runs[K].last = N
  <2>0. N \in 1 .. N /\ leg \in sequence[N]
    BY <1>1
  <2>1. PICK c \in 1 .. K : N \in runs[c].first .. runs[c].last
    BY <1>4, <2>0
  <2>2. runs[c].last = N
    <3>1. runs[c].first \in 1 .. N /\ runs[c].last \in 1 .. N
      BY <1>4, <2>1
    <3> QED
      BY <1>1, <2>1, <3>1
  <2>3. c = K
    <3>1. K \in 1 .. K /\ (c < K => runs[c].last + 1 < runs[K].first) /\ runs[K].first <= N
      BY <1>4, <2>1
    <3> QED
      BY <1>1, <1>4, <2>1, <2>2, <3>1
  <2> QED
    BY <2>1, <2>2, <2>3
<1>10. \A c \in 1 .. K : runs[c].last # N <=> c # K
  <2> SUFFICES ASSUME NEW c \in 1 .. K, c # K PROVE runs[c].last # N
    BY <1>9
  <2>1. K \in 1 .. K /\ c < K
    BY <1>4
  <2>2. runs[c].last + 1 < runs[K].first /\ runs[K].first <= N
    BY <1>4, <2>1
  <2> QED
    BY <1>1, <1>4, <2>2
<1>11. \A c \in 1 .. K : runs[c].first # 1 \/ c = 1
  <2> SUFFICES ASSUME NEW c \in 1 .. K, c # 1 PROVE runs[c].first # 1
    OBVIOUS
  <2>1. 1 \in 1 .. K /\ 1 < c
    BY <1>4
  <2>2. runs[1].last + 1 < runs[c].first
    BY <1>4, <2>1
  <2> QED
    BY <1>4, <2>1, <2>2
<1>12. contacts \in Seq(Contact)
  <2>1. \A c \in 1 .. K : contacts[c] \in Contact
    BY <1>1, <1>2, <1>4, <1>7 DEF Contact, StartOf, EndOf
  <2>2. contacts \in [1 .. K -> Contact]
    BY <1>2, <1>4, <2>1
  <2> QED
    BY <1>4, <2>2
<1>13. \A c \in 1 .. K : HasStart(contacts[c]) /\ HasEnd(contacts[c]) => contacts[c].start < contacts[c].end
  <2> SUFFICES ASSUME NEW c \in 1 .. K, HasStart(contacts[c]), HasEnd(contacts[c])
               PROVE  contacts[c].start < contacts[c].end
    OBVIOUS
  <2>1. runs[c].first - 1 \in DOMAIN times /\ runs[c].last \in DOMAIN times /\ runs[c].first - 1 < runs[c].last
    BY <1>1, <1>4, <1>7, <1>8
  <2> QED
    BY <1>1, <1>8, <2>1 DEF Increasing
<1>14. \A c, d \in 1 .. K : c < d => contacts[c].end < contacts[d].start
  <2> SUFFICES ASSUME NEW c \in 1 .. K, NEW d \in 1 .. K, c < d
               PROVE  contacts[c].end < contacts[d].start
    OBVIOUS
  <2>1. HasEnd(contacts[c]) /\ HasStart(contacts[d])
    BY <1>4, <1>8, <1>10, <1>11
  <2>2. runs[c].last + 1 < runs[d].first
    BY <1>4
  <2>3. runs[c].last \in DOMAIN times /\ runs[d].first - 1 \in DOMAIN times /\ runs[c].last < runs[d].first - 1
    BY <1>1, <1>4, <1>7, <1>8, <2>1, <2>2
  <2> QED
    BY <1>1, <1>8, <2>1, <2>3 DEF Increasing
<1>15. contacts \in Contacts
  BY <1>5, <1>8, <1>9, <1>10, <1>11, <1>12, <1>13, <1>14 DEF Contacts
<1>16. \A time \in Nat : leg \in sequence[IndexInTimes(times, time) + 1] <=>
         \E c \in 1 .. K : During(contacts[c], time)
  <2> SUFFICES ASSUME NEW time \in Nat
               PROVE  leg \in sequence[IndexInTimes(times, time) + 1] <=>
                        \E c \in 1 .. K : During(contacts[c], time)
    OBVIOUS
  <2> DEFINE index == IndexInTimes(times, time)
  <2>1. index \in 0 .. Len(times) /\ \A i \in 1 .. Len(times) : i <= index <=> times[i] < time
    <3>1. times \in Seq(Nat) /\ Increasing(times) /\ time \in Int
      BY <1>1
    <3> QED
      BY <3>1, IndexOfPrefix
  <2> HIDE DEF index
  <2>2. \A c \in 1 .. K : During(contacts[c], time) <=> index + 1 \in runs[c].first .. runs[c].last
    <3> SUFFICES ASSUME NEW c \in 1 .. K
                 PROVE  During(contacts[c], time) <=> index + 1 \in runs[c].first .. runs[c].last
      OBVIOUS
    <3>1. (HasStart(contacts[c]) => contacts[c].start < time) <=> runs[c].first <= index + 1
      BY <1>1, <1>4, <1>7, <1>8, <2>1
    <3>2. (HasEnd(contacts[c]) => time <= contacts[c].end) <=> index + 1 <= runs[c].last
      BY <1>1, <1>4, <1>7, <1>8, <2>1
    <3> QED
      BY <1>4, <2>1, <3>1, <3>2 DEF During
  <2>3. index + 1 \in 1 .. N
    BY <1>1, <2>1
  <2> QED
    BY <1>4, <2>2, <2>3 DEF index
<1> QED
  BY <1>5, <1>7, <1>8, <1>15, <1>16 DEF contacts

-----------------------------------------------------------------------------
(* The plan of a leg.                                                      *)

\* What generateSwingTrajectories plans from: the contacts, a foothold for some of them,
\* when the leg lifts off, or did last, and the end of the horizon.
Input(g) == g.contacts \in Contacts /\ g.final \in Nat

\* What a phase may be: the stance of a contact or the swing that leads to it; the time
\* before and the time until which the leg is in it.
Roles(g) ==
  {r \in [contact : BOOLEAN, k : 1 .. Len(g.contacts)] : r.contact \/ HasStart(g.contacts[r.k])}

LiftOff(g, r) == IF r.k = 1 THEN g.lift ELSE g.contacts[r.k - 1].end
PhaseOf(g, r) ==
  IF r.contact THEN StancePhase(FootholdAt(g.footholds, r.k))
  ELSE SwingPhase(LiftOff(g, r), g.contacts[r.k].start, FootholdAt(g.footholds, r.k))
Left(g, r) ==
  IF r.contact THEN g.contacts[r.k].start
  ELSE IF r.k = 1 THEN NoTime ELSE g.contacts[r.k - 1].end
Right(g, r) == IF r.contact THEN g.contacts[r.k].end ELSE g.contacts[r.k].start
After(r) == IF r.contact THEN [contact |-> FALSE, k |-> r.k + 1] ELSE [contact |-> TRUE, k |-> r.k]

LEMMA ContactOrder ==
  ASSUME NEW contacts \in Contacts
  PROVE  LET K == Len(contacts)
         IN  /\ K \in Nat \ {0} /\ contacts \in Seq(Contact) /\ DOMAIN contacts = 1 .. K
             /\ \A c \in 1 .. K : contacts[c].start \in Nat \cup {NoTime} /\ contacts[c].end \in Nat \cup {NoTime}
             /\ \A c \in 1 .. K : /\ contacts[c].end # NoTime <=> c # K
                                  /\ contacts[c].start # NoTime \/ c = 1
                                  /\ contacts[c].start # NoTime /\ contacts[c].end # NoTime
                                       => contacts[c].start < contacts[c].end
             /\ \A c, d \in 1 .. K : c < d => contacts[c].end < contacts[d].start
<1>1. contacts \in Seq(Contact) /\ Len(contacts) \in Nat \ {0} /\ DOMAIN contacts = 1 .. Len(contacts)
  BY DEF Contacts
<1>2. \A c \in 1 .. Len(contacts) : contacts[c] \in Contact
  BY <1>1
<1>3. \A c \in 1 .. Len(contacts) :
        contacts[c].start \in Nat \cup {NoTime} /\ contacts[c].end \in Nat \cup {NoTime}
  BY <1>2 DEF Contact
<1> QED
  BY <1>1, <1>3 DEF Contacts, HasStart, HasEnd

\* What follows a phase begins where it ends.
LEMMA RoleAfter ==
  ASSUME NEW g, Input(g), NEW r \in Roles(g), Right(g, r) # NoTime
  PROVE  /\ After(r) \in Roles(g) /\ Left(g, After(r)) = Right(g, r)
         /\ Right(g, r) \in Nat /\ Left(g, r) < Right(g, r)
         /\ Right(g, After(r)) = NoTime \/ Right(g, r) < Right(g, After(r))
<1> DEFINE contacts == g.contacts
           K == Len(contacts)
           k == r.k
<1>1. /\ K \in Nat /\ k \in 1 .. K /\ r.contact \in BOOLEAN /\ r = [contact |-> r.contact, k |-> k]
      /\ r.contact \/ contacts[k].start # NoTime
      /\ \A c \in 1 .. K : contacts[c].start \in Nat \cup {NoTime} /\ contacts[c].end \in Nat \cup {NoTime}
      /\ \A c \in 1 .. K : /\ contacts[c].end # NoTime <=> c # K
                           /\ contacts[c].start # NoTime \/ c = 1
                           /\ contacts[c].start # NoTime /\ contacts[c].end # NoTime
                                => contacts[c].start < contacts[c].end
      /\ \A c, d \in 1 .. K : c < d => contacts[c].end < contacts[d].start
  <2>1. contacts \in Contacts
    BY DEF Input
  <2>2. K \in Nat /\ k \in 1 .. K /\ r.contact \in BOOLEAN /\ r = [contact |-> r.contact, k |-> k]
        /\ (r.contact \/ contacts[k].start # NoTime)
    BY <2>1, ContactOrder DEF Roles, HasStart
  <2> HIDE DEF contacts, K, k
  <2> QED
    BY <2>1, <2>2, ContactOrder DEF K
<1> HIDE DEF contacts, K, k
<1>2. CASE r.contact
  <2>1. Right(g, r) = contacts[k].end /\ Left(g, r) = contacts[k].start /\ After(r) = [contact |-> FALSE, k |-> k + 1]
    BY <1>2 DEF Right, Left, After, contacts, k
  <2>2. k # K /\ k + 1 \in 1 .. K /\ contacts[k].end \in Nat /\ k + 1 # 1 /\ k < k + 1
    BY <1>1, <2>1
  <2>3. contacts[k + 1].start # NoTime
    BY <1>1, <2>2
  <2>4. contacts[k].start < contacts[k].end
    BY <1>1, <2>2 DEF NoTime
  <2>5. contacts[k].end < contacts[k + 1].start
    BY <1>1, <2>2
  <2>6. After(r) \in Roles(g)
    BY <2>1, <2>2, <2>3 DEF Roles, HasStart, contacts, K
  <2>7. Left(g, After(r)) = contacts[k].end /\ Right(g, After(r)) = contacts[k + 1].start
    <3>1. After(r).contact = FALSE /\ After(r).k = k + 1 /\ (k + 1) - 1 = k
      BY <1>1, <2>1
    <3> QED
      BY <2>2, <3>1 DEF Left, Right, contacts
  <2> QED
    BY <2>1, <2>2, <2>4, <2>5, <2>6, <2>7
<1>3. CASE ~r.contact
  <2>1. Right(g, r) = contacts[k].start /\ After(r) = [contact |-> TRUE, k |-> k]
        /\ Left(g, r) = IF k = 1 THEN NoTime ELSE contacts[k - 1].end
    BY <1>3 DEF Right, Left, After, contacts, k
  <2>2. contacts[k].start \in Nat
    BY <1>1, <2>1
  <2>3. Left(g, r) < contacts[k].start
    <3>1. CASE k = 1
      BY <2>1, <2>2, <3>1 DEF NoTime
    <3>2. CASE k # 1
      <4>1. k - 1 \in 1 .. K /\ k - 1 < k
        BY <1>1, <3>2
      <4> QED
        BY <1>1, <2>1, <3>2, <4>1
    <3> QED
      BY <3>1, <3>2
  <2>4. After(r) \in Roles(g)
    BY <1>1, <2>1 DEF Roles, contacts, K
  <2>5. Left(g, After(r)) = contacts[k].start /\ Right(g, After(r)) = contacts[k].end
    BY <2>1 DEF Left, Right, contacts
  <2> QED
    BY <1>1, <2>1, <2>2, <2>3, <2>4, <2>5
<1> QED
  BY <1>2, <1>3

\* The phases of a plan are in these roles, each ends at its event, and no event is after
\* the horizon.
Fits(g, plan, roles) ==
  /\ roles \in Seq(Roles(g)) /\ Len(roles) = Len(plan.events) + 1
  /\ plan.events \in Seq(Nat) /\ Increasing(plan.events)
  /\ \A p \in 1 .. Len(plan.events) : plan.events[p] <= g.final
  /\ plan.phases = [p \in 1 .. Len(roles) |-> PhaseOf(g, roles[p])]
  /\ Left(g, roles[1]) = NoTime
  /\ \A p \in 1 .. Len(plan.events) :
       plan.events[p] = Right(g, roles[p]) /\ roles[p + 1] = After(roles[p])

\* Going on with the phase after the last one.
Continued(g, plan, r) ==
  [events |-> Append(plan.events, Right(g, r)), phases |-> Append(plan.phases, PhaseOf(g, After(r)))]

LEMMA PlanContinued ==
  ASSUME NEW g, Input(g), NEW plan, NEW roles, Fits(g, plan, roles),
         Right(g, Last(roles)) # NoTime, Right(g, Last(roles)) <= g.final
  PROVE  Fits(g, Continued(g, plan, Last(roles)), Append(roles, After(Last(roles))))
<1> DEFINE events_ == plan.events
           n == Len(events_)
           r == Last(roles)
           next == Continued(g, plan, r)
           more == Append(roles, After(r))
<1>1. /\ roles \in Seq(Roles(g)) /\ Len(roles) = n + 1 /\ n \in Nat
      /\ events_ \in Seq(Nat) /\ Increasing(events_) /\ DOMAIN events_ = 1 .. n
      /\ \A p \in 1 .. n : events_[p] \in Nat
  BY DEF Fits
<1>2. r \in Roles(g) /\ r = roles[n + 1]
  BY <1>1 DEF Last
<1>3. /\ After(r) \in Roles(g) /\ Right(g, r) \in Nat /\ Left(g, r) < Right(g, r)
  BY <1>2, RoleAfter
<1> HIDE DEF r
<1>4. /\ next.events \in Seq(Nat) /\ Len(next.events) = n + 1 /\ next.events[n + 1] = Right(g, r)
      /\ \A p \in 1 .. n : next.events[p] = events_[p]
  BY <1>1, <1>3, AppendProperties DEF Continued
<1>5. /\ more \in Seq(Roles(g)) /\ Len(more) = n + 2 /\ more[n + 2] = After(r)
      /\ \A p \in 1 .. n + 1 : more[p] = roles[p]
  <2>1. \A S : \A s \in Seq(S), x \in S :
          /\ Append(s, x) \in Seq(S) /\ Len(Append(s, x)) = Len(s) + 1
          /\ Append(s, x)[Len(s) + 1] = x /\ \A p \in 1 .. Len(s) : Append(s, x)[p] = s[p]
    BY AppendProperties
  <2>2. (n + 1) + 1 = n + 2
    BY <1>1
  <2> QED
    BY <1>1, <1>3, <2>1, <2>2
<1>6. next.phases = [p \in 1 .. n + 2 |-> PhaseOf(g, more[p])]
  <2>1. plan.phases = [p \in 1 .. n + 1 |-> PhaseOf(g, roles[p])]
    BY <1>1 DEF Fits
  <2> DEFINE S == {PhaseOf(g, x) : x \in Roles(g)}
  <2>2. plan.phases \in Seq(S) /\ Len(plan.phases) = n + 1
    <3>1. \A p \in 1 .. n + 1 : PhaseOf(g, roles[p]) \in S
      BY <1>1
    <3>2. plan.phases \in [1 .. n + 1 -> S] /\ n + 1 \in Nat
      BY <1>1, <2>1, <3>1
    <3> HIDE DEF S
    <3> QED
      BY <3>2
  <2>3. PhaseOf(g, After(r)) \in S
    BY <1>3
  <2> HIDE DEF S
  <2> DEFINE longer == Append(plan.phases, PhaseOf(g, After(r)))
  <2>4. /\ longer \in Seq(S) /\ Len(longer) = n + 2 /\ longer[n + 2] = PhaseOf(g, After(r))
        /\ \A p \in 1 .. n + 1 : longer[p] = plan.phases[p]
    <3>1. (n + 1) + 1 = n + 2
      BY <1>1
    <3> QED
      BY <2>2, <2>3, <3>1, AppendProperties
  <2> HIDE DEF longer
  <2>5. \A p \in 1 .. n + 2 : longer[p] = PhaseOf(g, more[p])
    <3> SUFFICES ASSUME NEW p \in 1 .. n + 2 PROVE longer[p] = PhaseOf(g, more[p])
      OBVIOUS
    <3>1. CASE p = n + 2
      BY <1>5, <2>4, <3>1
    <3>2. CASE p \in 1 .. n + 1
      <4>1. longer[p] = plan.phases[p] /\ more[p] = roles[p]
        BY <1>5, <2>4, <3>2
      <4>2. plan.phases[p] = PhaseOf(g, roles[p])
        BY <2>1, <3>2
      <4> QED
        BY <4>1, <4>2
    <3>3. p = n + 2 \/ p \in 1 .. n + 1
      BY <1>1
    <3> QED
      BY <3>1, <3>2, <3>3
  <2>6. longer = [p \in 1 .. n + 2 |-> longer[p]]
    BY <1>1, <2>4
  <2> QED
    BY <2>5, <2>6 DEF longer, Continued
<1>7. \A p \in 1 .. n : events_[p] < Right(g, r)
  <2> SUFFICES ASSUME NEW p \in 1 .. n PROVE events_[p] < Right(g, r)
    OBVIOUS
  <2>1. n \in 1 .. n /\ (p = n \/ events_[p] < events_[n])
    <3>1. n \in 1 .. n /\ (p = n \/ p < n)
      BY <1>1
    <3>2. \A i, j \in 1 .. n : i < j => events_[i] < events_[j]
      BY <1>1 DEF Increasing
    <3> QED
      BY <3>1, <3>2
  <2>2. events_[n] = Right(g, roles[n]) /\ r = After(roles[n]) /\ roles[n] \in Roles(g)
    <3>1. roles[n] \in Roles(g)
      BY <1>1, <2>1
    <3> QED
      BY <1>1, <1>2, <2>1, <3>1 DEF Fits
  <2>3. events_[n] # NoTime
    BY <1>1, <2>1 DEF NoTime
  <2>4. Left(g, r) = events_[n]
    BY <2>2, <2>3, RoleAfter
  <2> QED
    BY <1>1, <1>3, <2>1, <2>4
<1>8. Increasing(next.events)
  <2>1. \A p, q \in 1 .. n : p < q => events_[p] < events_[q]
    BY <1>1 DEF Increasing
  <2>2. ASSUME NEW p \in 1 .. n + 1, NEW q \in 1 .. n + 1, p < q
        PROVE  next.events[p] < next.events[q]
    <3>1. p \in 1 .. n /\ (q = n + 1 \/ q \in 1 .. n)
      BY <1>1, <2>2
    <3>2. CASE q = n + 1
      BY <1>4, <1>7, <3>1, <3>2
    <3>3. CASE q \in 1 .. n
      BY <1>4, <2>1, <2>2, <3>1, <3>3
    <3> QED
      BY <3>1, <3>2, <3>3
  <2>3. DOMAIN next.events = 1 .. n + 1
    BY <1>4
  <2> HIDE DEF next
  <2> QED
    BY <2>2, <2>3 DEF Increasing
<1>9. \A p \in 1 .. n + 1 : next.events[p] <= g.final
  <2>1. \A p \in 1 .. n : events_[p] <= g.final
    BY DEF Fits
  <2>2. Right(g, r) <= g.final
    BY DEF r
  <2>3. \A p \in 1 .. n + 1 : p = n + 1 \/ p \in 1 .. n
    BY <1>1
  <2> QED
    BY <1>4, <2>1, <2>2, <2>3
<1>10. Left(g, more[1]) = NoTime
  BY <1>1, <1>5 DEF Fits
<1>11. \A p \in 1 .. n + 1 : next.events[p] = Right(g, more[p]) /\ more[p + 1] = After(more[p])
  <2> SUFFICES ASSUME NEW p \in 1 .. n + 1
               PROVE  next.events[p] = Right(g, more[p]) /\ more[p + 1] = After(more[p])
    OBVIOUS
  <2>1. CASE p = n + 1
    <3>1. p + 1 = n + 2
      BY <1>1, <2>1
    <3> QED
      BY <1>2, <1>4, <1>5, <2>1, <3>1
  <2>2. CASE p # n + 1
    <3>1. p \in 1 .. n /\ p + 1 \in 1 .. n + 1
      BY <1>1, <2>2
    <3>2. events_[p] = Right(g, roles[p]) /\ roles[p + 1] = After(roles[p])
      BY <3>1 DEF Fits
    <3> QED
      BY <1>4, <1>5, <3>1, <3>2
  <2> QED
    BY <2>1, <2>2
<1> HIDE DEF next, more
<1>12. Fits(g, next, more)
  BY <1>1, <1>4, <1>5, <1>6, <1>8, <1>9, <1>10, <1>11 DEF Fits
<1> QED
  BY <1>12 DEF next, more, r

\* The plan that begins with a phase.
LEMMA PlanBegins ==
  ASSUME NEW g, Input(g), NEW r \in Roles(g), Left(g, r) = NoTime
  PROVE  Fits(g, [events |-> <<>>, phases |-> <<PhaseOf(g, r)>>], <<r>>)
<1> DEFINE plan == [events |-> <<>>, phases |-> <<PhaseOf(g, r)>>]
<1>1. <<r>> \in Seq(Roles(g)) /\ Len(<<r>>) = 1 /\ <<r>>[1] = r
  OBVIOUS
<1>2. plan.events = <<>> /\ <<>> \in Seq(Nat) /\ Len(<<>>) = 0 /\ DOMAIN <<>> = {}
  OBVIOUS
<1>3. plan.phases = [p \in 1 .. 1 |-> PhaseOf(g, <<r>>[p])]
  <2>1. \A x : <<x>> = [p \in 1 .. 1 |-> x]
    OBVIOUS
  <2>2. \A p \in 1 .. 1 : <<r>>[p] = r
    BY <1>1
  <2> QED
    BY <2>1, <2>2
<1>4. Increasing(plan.events)
  BY <1>2 DEF Increasing
<1>5. \A p \in 1 .. 0 : FALSE
  OBVIOUS
<1>6. Left(g, <<r>>[1]) = NoTime /\ Len(<<r>>) = Len(plan.events) + 1 /\ Len(plan.events) = 0
  BY <1>1, <1>2
<1> HIDE DEF plan
<1>7. Fits(g, plan, <<r>>)
  BY <1>1, <1>2, <1>3, <1>4, <1>5, <1>6 DEF Fits
<1> QED
  BY <1>7 DEF plan

\* The loop over the contacts: after n of them, the leg is about to stand on the next
\* one, or its phase lasts beyond the horizon.
Beyond(g, r) == Right(g, r) = NoTime \/ Right(g, r) > g.final

Reached(g, plan, n) ==
  \/ n = 0 /\ ~HasStart(g.contacts[1]) /\ plan = [events |-> <<>>, phases |-> <<>>]
  \/ \E roles \in Seq(Roles(g)) :
       /\ Fits(g, plan, roles)
       /\ \/ Last(roles) = [contact |-> FALSE, k |-> n + 1]
          \/ Last(roles).k <= n /\ Beyond(g, Last(roles))

\* What AddContact adds after the stance of the contact.
WithSwing(g, plan, n) ==
  IF SwingFollows(g.contacts[n], g.final)
  THEN [events |-> Append(plan.events, g.contacts[n].end),
        phases |-> Append(plan.phases,
                     TouchDown(g.contacts, g.footholds, n + 1, g.contacts[n].end, g.final))]
  ELSE plan

LEMMA SwingAdded ==
  ASSUME NEW g, Input(g), NEW n \in 1 .. Len(g.contacts), NEW plan, NEW roles \in Seq(Roles(g)),
         Fits(g, plan, roles), Last(roles) = [contact |-> TRUE, k |-> n]
  PROVE  Reached(g, WithSwing(g, plan, n), n)
<1> DEFINE contact == g.contacts[n]
           r == Last(roles)
<1>1. r \in Roles(g) /\ r.contact = TRUE /\ r.k = n
  BY DEF Fits, Last
<1>2. Right(g, r) = contact.end
  BY <1>1 DEF Right
<1>3. n \in Nat /\ contact.end \in Nat \cup {NoTime} /\ (contact.end # NoTime <=> n # Len(g.contacts))
      /\ DOMAIN g.contacts = 1 .. Len(g.contacts) /\ Len(g.contacts) \in Nat
  BY ContactOrder DEF Input
<1>4. CASE SwingFollows(contact, g.final)
  <2>1. contact.end # NoTime /\ contact.end <= g.final
    BY <1>4 DEF SwingFollows, HasEnd
  <2>2. n + 1 \in DOMAIN g.contacts /\ n + 1 # 1 /\ (n + 1) - 1 = n
    BY <1>3, <2>1
  <2>3. After(r) = [contact |-> FALSE, k |-> n + 1]
    BY <1>1 DEF After
  <2>4. PhaseOf(g, After(r)) = TouchDown(g.contacts, g.footholds, n + 1, contact.end, g.final)
    BY <2>2, <2>3 DEF PhaseOf, LiftOff, TouchDown
  <2>5. WithSwing(g, plan, n) = Continued(g, plan, r)
    BY <1>2, <1>4, <2>4 DEF WithSwing, Continued
  <2> DEFINE more == Append(roles, After(r))
  <2>6. Fits(g, Continued(g, plan, r), more)
    BY <1>2, <2>1, PlanContinued
  <2>7. more \in Seq(Roles(g)) /\ Last(more) = After(r)
    <3>1. After(r) \in Roles(g)
      BY <1>1, <1>2, <2>1, RoleAfter
    <3>2. /\ more \in Seq(Roles(g)) /\ Len(more) = Len(roles) + 1 /\ more[Len(roles) + 1] = After(r)
      <4>1. \A S : \A s \in Seq(S), x \in S :
              /\ Append(s, x) \in Seq(S) /\ Len(Append(s, x)) = Len(s) + 1
              /\ Append(s, x)[Len(s) + 1] = x
        BY AppendProperties
      <4> QED
        BY <3>1, <4>1
    <3> HIDE DEF more
    <3> QED
      BY <3>2 DEF Last
  <2> HIDE DEF more
  <2> QED
    BY <2>3, <2>5, <2>6, <2>7 DEF Reached
<1>5. CASE ~SwingFollows(contact, g.final)
  <2>1. WithSwing(g, plan, n) = plan
    BY <1>5 DEF WithSwing
  <2>2. Beyond(g, r)
    BY <1>2, <1>3, <1>5 DEF SwingFollows, HasEnd, Beyond, Input, NoTime
  <2> QED
    <3>1. Last(roles).k <= n
      BY <1>1, <1>3
    <3> QED
      BY <2>1, <2>2, <3>1 DEF Reached
<1> QED
  BY <1>4, <1>5

LEMMA ContactAdded ==
  ASSUME NEW g, Input(g), NEW n \in 1 .. Len(g.contacts), NEW plan, Reached(g, plan, n - 1)
  PROVE  Reached(g, AddContact(plan, g.contacts, g.footholds, n, g.final), n)
<1> DEFINE contacts == g.contacts
           K == Len(contacts)
           contact == contacts[n]
           next == AddContact(plan, contacts, g.footholds, n, g.final)
           landed == IF HasStart(contact) THEN Append(plan.events, contact.start) ELSE plan.events
           stood == [events |-> landed,
                     phases |-> Append(plan.phases, StancePhase(FootholdAt(g.footholds, n)))]
           stance == [contact |-> TRUE, k |-> n]
<1>1. contacts \in Contacts /\ K \in Nat \ {0} /\ n \in 1 .. K /\ DOMAIN contacts = 1 .. K /\ g.final \in Nat
  BY ContactOrder DEF Input
<1>2. /\ contact.start \in Nat \cup {NoTime}
      /\ contact.start # NoTime \/ n = 1
  BY <1>1, ContactOrder
<1>3. ~(contact.start > g.final) => next = WithSwing(g, stood, n)
  BY DEF AddContact, WithSwing
<1>4. contact.start > g.final => next = plan
  BY DEF AddContact
<1>5. stance \in Roles(g) /\ PhaseOf(g, stance) = StancePhase(FootholdAt(g.footholds, n))
      /\ Left(g, stance) = contact.start
  BY <1>1 DEF Roles, PhaseOf, Left
<1> HIDE DEF next
<1>6. CASE n - 1 = 0 /\ ~HasStart(contacts[1]) /\ plan = [events |-> <<>>, phases |-> <<>>]
  <2>1. contact.start = NoTime /\ n = 1
    BY <1>1, <1>6 DEF HasStart
  <2>2. stood = [events |-> <<>>, phases |-> <<PhaseOf(g, stance)>>]
    BY <1>5, <1>6, <2>1 DEF HasStart
  <2>3. Fits(g, stood, <<stance>>)
    BY <1>5, <2>1, <2>2, PlanBegins
  <2>4. <<stance>> \in Seq(Roles(g)) /\ Last(<<stance>>) = stance
    BY <1>5 DEF Last
  <2>5. ~(contact.start > g.final)
    BY <1>1, <2>1 DEF NoTime
  <2> HIDE DEF stood, contact
  <2>6. Reached(g, WithSwing(g, stood, n), n)
    BY <1>1, <2>3, <2>4, SwingAdded
  <2> QED
    BY <1>3, <2>5, <2>6 DEF next
<1>7. ASSUME NEW roles \in Seq(Roles(g)), Fits(g, plan, roles),
             Last(roles) = [contact |-> FALSE, k |-> n]
      PROVE  Reached(g, next, n)
  <2> DEFINE r == Last(roles)
  <2>1. r \in Roles(g) /\ r.contact = FALSE /\ r.k = n
    BY <1>7 DEF Fits, Last
  <2>2. contact.start # NoTime /\ Right(g, r) = contact.start /\ After(r) = stance
    BY <2>1 DEF Roles, HasStart, Right, After
  <2>3. CASE contact.start > g.final
    <3>1. Beyond(g, r) /\ next = plan /\ r.k <= n
      BY <1>1, <1>4, <2>1, <2>2, <2>3 DEF Beyond
    <3> QED
      BY <1>7, <3>1 DEF Reached
  <2>4. CASE ~(contact.start > g.final)
    <3>1. contact.start <= g.final
      BY <1>1, <1>2, <2>2, <2>4
    <3>2. stood = Continued(g, plan, r)
      BY <1>5, <2>2 DEF Continued, HasStart
    <3> DEFINE more == Append(roles, stance)
    <3>3. Fits(g, stood, more)
      BY <1>7, <2>2, <3>1, <3>2, PlanContinued
    <3>4. more \in Seq(Roles(g)) /\ Last(more) = stance
      <4>1. \A S : \A s \in Seq(S), x \in S :
              /\ Append(s, x) \in Seq(S) /\ Len(Append(s, x)) = Len(s) + 1
              /\ Append(s, x)[Len(s) + 1] = x
        BY AppendProperties
      <4> HIDE DEF stance
      <4>2. /\ more \in Seq(Roles(g)) /\ Len(more) = Len(roles) + 1 /\ more[Len(roles) + 1] = stance
        BY <1>5, <4>1
      <4> HIDE DEF more
      <4> QED
        BY <4>2 DEF Last
    <3> HIDE DEF stood, more, contact
    <3>5. Reached(g, WithSwing(g, stood, n), n)
      BY <1>1, <3>3, <3>4, SwingAdded
    <3> QED
      BY <1>3, <2>4, <3>5
  <2> QED
    BY <2>3, <2>4
<1>8. ASSUME NEW roles \in Seq(Roles(g)), Fits(g, plan, roles),
             Last(roles).k <= n - 1, Beyond(g, Last(roles))
      PROVE  Reached(g, next, n)
  <2> DEFINE r == Last(roles)
             k == r.k
  <2>1. r \in Roles(g)
    BY <1>8 DEF Fits, Last
  <2>2. k \in 1 .. K /\ k < n /\ (r.contact \/ contacts[k].start # NoTime)
    BY <1>1, <1>8, <2>1 DEF Roles, HasStart
  <2>3. /\ contacts[k].end # NoTime <=> k # K
        /\ contacts[k].start # NoTime /\ contacts[k].end # NoTime => contacts[k].start < contacts[k].end
        /\ contacts[k].end < contact.start
        /\ contacts[k].start \in Nat \cup {NoTime} /\ contacts[k].end \in Nat \cup {NoTime}
    BY <1>1, <2>2, ContactOrder
  <2>4. contact.start > g.final
    <3>1. k # K /\ n # 1
      BY <1>1, <2>2
    <3>2. contacts[k].end \in Nat /\ contact.start \in Nat
      BY <1>2, <2>3, <3>1
    <3>3. CASE r.contact
      <4>1. Right(g, r) = contacts[k].end
        BY <3>3 DEF Right
      <4>2. contacts[k].end > g.final
        BY <1>8, <2>3, <3>1, <4>1 DEF Beyond
      <4> QED
        BY <1>1, <2>3, <3>2, <4>2
    <3>4. CASE ~r.contact
      <4>1. Right(g, r) = contacts[k].start
        BY <3>4 DEF Right
      <4>2. contacts[k].start > g.final /\ contacts[k].start \in Nat
        BY <1>8, <2>2, <2>3, <3>4, <4>1 DEF Beyond
      <4> QED
        BY <1>1, <2>2, <2>3, <3>1, <3>2, <3>4, <4>2
    <3> QED
      BY <3>3, <3>4
  <2>5. k <= n
    BY <1>1, <2>2
  <2> QED
    BY <1>4, <1>8, <2>4, <2>5 DEF Reached
<1>9. (n - 1) + 1 = n
  BY <1>1
<1> QED
  BY <1>6, <1>7, <1>8, <1>9 DEF Reached, next

\* What a plan is a sequence of, whatever was added to it.
AnyPhase(g) ==
  {StancePhase(FootholdAt(g.footholds, c)) : c \in 1 .. Len(g.contacts)}
    \cup {TouchDown(g.contacts, g.footholds, c + 1, g.contacts[c].end, g.final) :
            c \in 1 .. Len(g.contacts)}
    \cup {TouchDown(g.contacts, g.footholds, 1, g.lift, g.final)}

AnyPlan(g) == [events : Seq(Nat \cup {NoTime}), phases : Seq(AnyPhase(g))]

LEMMA ContactAddedType ==
  ASSUME NEW g, Input(g), NEW n \in 1 .. Len(g.contacts), NEW plan \in AnyPlan(g)
  PROVE  AddContact(plan, g.contacts, g.footholds, n, g.final) \in AnyPlan(g)
<1> DEFINE contact == g.contacts[n]
           stance == StancePhase(FootholdAt(g.footholds, n))
           swing == TouchDown(g.contacts, g.footholds, n + 1, contact.end, g.final)
           landed == IF HasStart(contact) THEN Append(plan.events, contact.start) ELSE plan.events
           standing == Append(plan.phases, stance)
<1>1. contact.start \in Nat \cup {NoTime} /\ contact.end \in Nat \cup {NoTime}
  BY ContactOrder DEF Input
<1>2. stance \in AnyPhase(g) /\ swing \in AnyPhase(g)
  BY DEF AnyPhase
<1>3. plan.events \in Seq(Nat \cup {NoTime}) /\ plan.phases \in Seq(AnyPhase(g))
  BY DEF AnyPlan
<1>4. AddContact(plan, g.contacts, g.footholds, n, g.final) =
        IF contact.start > g.final THEN plan
        ELSE IF SwingFollows(contact, g.final)
        THEN [events |-> Append(landed, contact.end), phases |-> Append(standing, swing)]
        ELSE [events |-> landed, phases |-> standing]
  BY DEF AddContact
<1> HIDE DEF contact, stance, swing
<1>5. \A S : \A s \in Seq(S), x \in S : Append(s, x) \in Seq(S)
  BY AppendProperties
<1>6. landed \in Seq(Nat \cup {NoTime}) /\ standing \in Seq(AnyPhase(g))
  BY <1>1, <1>2, <1>3, <1>5
<1> HIDE DEF landed, standing
<1>7. Append(landed, contact.end) \in Seq(Nat \cup {NoTime}) /\ Append(standing, swing) \in Seq(AnyPhase(g))
  BY <1>1, <1>2, <1>5, <1>6
<1> QED
  BY <1>4, <1>6, <1>7 DEF AnyPlan

\* The plan has its phases in their roles, up to one that lasts beyond the horizon.
LEMMA PlanOfContacts ==
  ASSUME NEW contacts \in Contacts, NEW footholds, NEW last, NEW final \in Nat
  PROVE  LET g == [contacts |-> contacts, footholds |-> footholds, lift |-> last.time, final |-> final]
         IN  \E roles \in Seq(Roles(g)) :
               /\ Fits(g, SwingTrajectories(contacts, footholds, last, final), roles)
               /\ Beyond(g, Last(roles))
<1> DEFINE g == [contacts |-> contacts, footholds |-> footholds, lift |-> last.time, final |-> final]
           K == Len(contacts)
           begun == IF StartsWithSwing(contacts)
                    THEN <<TouchDown(contacts, footholds, 1, last.time, final)>> ELSE <<>>
           first == [events |-> <<>>, phases |-> begun]
           Equation(f) ==
             f = [n \in 0 .. K |-> IF n = 0 THEN first
                                   ELSE AddContact(f[n - 1], contacts, footholds, n, final)]
           step == [x \in AnyPlan(g) \X (1 .. K) |-> AddContact(x[1], contacts, footholds, x[2], final)]
           after == WithContacts(contacts, footholds, last, final)
<1>1. /\ g.contacts = contacts /\ g.footholds = footholds /\ g.lift = last.time /\ g.final = final
      /\ Input(g) /\ K \in Nat \ {0} /\ DOMAIN contacts = 1 .. K /\ contacts # <<>>
  BY ContactOrder DEF Input
<1> HIDE DEF g
<1>2. first \in AnyPlan(g)
  <2>1. begun \in Seq(AnyPhase(g))
    <3>1. TouchDown(contacts, footholds, 1, last.time, final) \in AnyPhase(g)
      BY <1>1 DEF AnyPhase
    <3>2. \A S : <<>> \in Seq(S) /\ \A x \in S : <<x>> \in Seq(S)
      OBVIOUS
    <3> QED
      BY <3>1, <3>2
  <2> QED
    BY <2>1 DEF AnyPlan
<1>3. \A plan \in AnyPlan(g), n \in 1 .. K : AddContact(plan, contacts, footholds, n, final) \in AnyPlan(g)
  BY <1>1, ContactAddedType
<1> HIDE DEF K
<1>4. step \in [AnyPlan(g) \X (1 .. K) -> AnyPlan(g)]
  <2>1. \A x \in AnyPlan(g) \X (1 .. K) : AddContact(x[1], contacts, footholds, x[2], final) \in AnyPlan(g)
    BY <1>3
  <2> QED
    BY <2>1
<1>5. PICK f \in [0 .. K -> AnyPlan(g)] : Passes(f, K, first, step)
  <2> HIDE DEF first, step
  <2> QED
    BY <1>1, <1>2, <1>4, LoopDefined
<1>6. Equation(f)
  <2>1. \A n \in 1 .. K : n \in 0 .. K /\ n - 1 \in 0 .. K
    BY <1>1
  <2>2. \A n \in 1 .. K : f[n] = AddContact(f[n - 1], contacts, footholds, n, final)
    <3> HIDE DEF first
    <3> QED
      BY <1>5, <2>1 DEF Passes
  <2>3. \A n \in 0 .. K : f[n] = IF n = 0 THEN first ELSE AddContact(f[n - 1], contacts, footholds, n, final)
    <3> HIDE DEF first, step
    <3> QED
      BY <1>5, <2>2 DEF Passes
  <2> HIDE DEF first
  <2> QED
    BY <2>3
<1>7. Equation(after)
  BY <1>6 DEF WithContacts, K
<1> HIDE DEF first, step, after
<1>8. after[0] = first /\ \A n \in 1 .. K : after[n] = AddContact(after[n - 1], contacts, footholds, n, final)
  <2>1. 0 \in 0 .. K /\ \A n \in 1 .. K : n \in 0 .. K /\ n # 0
    BY <1>1
  <2> QED
    BY <1>7, <2>1
<1> HIDE DEF Equation
<1> DEFINE T == {n \in Nat : n <= K => Reached(g, after[n], n)}
<1>9. 0 \in T
  <2>1. CASE StartsWithSwing(contacts)
    <3> DEFINE r == [contact |-> FALSE, k |-> 1]
    <3>1. HasStart(contacts[1])
      BY <1>1, <2>1 DEF StartsWithSwing
    <3>2. r \in Roles(g)
      BY <1>1, <3>1 DEF Roles, K
    <3>3. Left(g, r) = NoTime
      BY DEF Left
    <3>4. PhaseOf(g, r) = TouchDown(contacts, footholds, 1, last.time, final)
      BY <1>1 DEF PhaseOf, LiftOff, TouchDown
    <3>5. first = [events |-> <<>>, phases |-> <<PhaseOf(g, r)>>]
      BY <2>1, <3>4 DEF first
    <3>6. Fits(g, first, <<r>>)
      BY <1>1, <3>2, <3>3, <3>5, PlanBegins
    <3>7. <<r>> \in Seq(Roles(g)) /\ Last(<<r>>) = [contact |-> FALSE, k |-> 0 + 1]
      BY <3>2 DEF Last
    <3> HIDE DEF r
    <3>8. Reached(g, first, 0)
      BY <3>6, <3>7 DEF Reached
    <3> QED
      BY <1>8, <3>8
  <2>2. CASE ~StartsWithSwing(contacts)
    BY <1>1, <1>8, <2>2 DEF StartsWithSwing, first, Reached
  <2> QED
    BY <2>1, <2>2
<1>10. \A n \in T : n + 1 \in T
  <2> SUFFICES ASSUME NEW n \in T, n + 1 <= K PROVE Reached(g, after[n + 1], n + 1)
    OBVIOUS
  <2> DEFINE m == n + 1
  <2>1. m \in 1 .. K /\ m - 1 = n /\ Reached(g, after[n], n)
    BY <1>1
  <2> HIDE DEF m
  <2>2. after[m] = AddContact(after[n], contacts, footholds, m, final) /\ Reached(g, after[n], m - 1)
    BY <1>8, <2>1
  <2>3. Reached(g, after[m], m)
    BY <1>1, <2>1, <2>2, ContactAdded DEF K
  <2> QED
    BY <2>3 DEF m
<1>11. K \in T
  <2> HIDE DEF T
  <2>1. T \in SUBSET Nat
    BY DEF T
  <2> QED
    BY <1>1, <1>9, <1>10, <2>1, SetInduction
<1>12. Reached(g, after[K], K)
  BY <1>1, <1>11
<1>13. PICK roles \in Seq(Roles(g)) :
         /\ Fits(g, after[K], roles)
         /\ \/ Last(roles) = [contact |-> FALSE, k |-> K + 1]
            \/ Last(roles).k <= K /\ Beyond(g, Last(roles))
  BY <1>1, <1>12 DEF Reached
<1>14. Last(roles).k # K + 1
  <2>1. Last(roles) \in Roles(g)
    BY <1>13 DEF Fits, Last
  <2>2. Last(roles).k \in 1 .. K
    BY <1>1, <2>1 DEF Roles, K
  <2> QED
    BY <1>1, <2>2
<1>15. Fits(g, after[K], roles) /\ Beyond(g, Last(roles))
  BY <1>13, <1>14
<1>16. after[K] = SwingTrajectories(contacts, footholds, last, final)
  BY DEF SwingTrajectories, after, K
<1> QED
  BY <1>15, <1>16 DEF g

-----------------------------------------------------------------------------
(* The phase of a time.                                                    *)

\* getFootPhase finds the phase after the events before the time.
LEMMA IndexAtHalf ==
  ASSUME NEW times \in Seq(Nat), Increasing(times), NEW twice \in Int
  PROVE  LET n == Cardinality({i \in DOMAIN times : 2 * times[i] < twice})
         IN  n \in 0 .. Len(times) /\ \A i \in 1 .. Len(times) : i <= n <=> 2 * times[i] < twice
<1> DEFINE doubled == [i \in 1 .. Len(times) |-> 2 * times[i]]
<1>1. Len(times) \in Nat /\ DOMAIN times = 1 .. Len(times) /\ \A i \in 1 .. Len(times) : times[i] \in Nat
  OBVIOUS
<1>2. doubled \in Seq(Nat) /\ Len(doubled) = Len(times) /\ DOMAIN doubled = 1 .. Len(times)
  <2>1. doubled \in [1 .. Len(times) -> Nat]
    BY <1>1
  <2> QED
    BY <1>1, <2>1
<1>3. Increasing(doubled)
  <2> SUFFICES ASSUME NEW i \in 1 .. Len(times), NEW j \in 1 .. Len(times), i < j
               PROVE  2 * times[i] < 2 * times[j]
    BY <1>2 DEF Increasing
  <2>1. times[i] < times[j]
    BY <1>1 DEF Increasing
  <2> QED
    BY <1>1, <2>1
<1>4. {i \in DOMAIN times : 2 * times[i] < twice} = {i \in DOMAIN doubled : doubled[i] < twice}
  BY <1>1
<1>5. /\ IndexInTimes(doubled, twice) \in 0 .. Len(doubled)
      /\ \A i \in 1 .. Len(doubled) : i <= IndexInTimes(doubled, twice) <=> doubled[i] < twice
  <2> HIDE DEF doubled
  <2> QED
    BY <1>2, <1>3, IndexOfPrefix
<1> QED
  BY <1>1, <1>2, <1>4, <1>5 DEF IndexInTimes

\* The role of each phase of a plan.
LEMMA RoleOfPhase ==
  ASSUME NEW g, Input(g), NEW plan, NEW roles, Fits(g, plan, roles), NEW p \in 1 .. Len(roles)
  PROVE  /\ roles[p] \in Roles(g) /\ plan.phases[p] = PhaseOf(g, roles[p])
         /\ Left(g, roles[p]) = IF p = 1 THEN NoTime ELSE plan.events[p - 1]
         /\ Left(g, roles[p]) <= g.final
         /\ p # Len(roles) => plan.events[p] = Right(g, roles[p])
         /\ p = Len(roles) => roles[p] = Last(roles)
<1> DEFINE times == plan.events
<1>1. /\ roles \in Seq(Roles(g)) /\ Len(roles) = Len(times) + 1 /\ Len(times) \in Nat
      /\ times \in Seq(Nat) /\ \A i \in 1 .. Len(times) : times[i] \in Nat
      /\ g.final \in Nat
  BY DEF Fits, Input
<1>2. roles[p] \in Roles(g) /\ plan.phases[p] = PhaseOf(g, roles[p])
  BY <1>1 DEF Fits
<1>3. /\ Left(g, roles[p]) = IF p = 1 THEN NoTime ELSE times[p - 1]
      /\ Left(g, roles[p]) <= g.final
  <2>1. CASE p = 1
    <3>1. Left(g, roles[1]) = NoTime
      BY DEF Fits
    <3> QED
      BY <1>1, <2>1, <3>1 DEF NoTime
  <2>2. CASE p # 1
    <3> DEFINE q == p - 1
    <3>1. q \in 1 .. Len(times) /\ q \in 1 .. Len(roles) /\ q + 1 = p
      BY <1>1, <2>2
    <3> HIDE DEF q
    <3>2. roles[q] \in Roles(g)
      BY <1>1, <3>1
    <3>3. times[q] = Right(g, roles[q]) /\ roles[p] = After(roles[q]) /\ times[q] <= g.final
      BY <3>1 DEF Fits
    <3>4. Right(g, roles[q]) # NoTime
      BY <1>1, <3>1, <3>3 DEF NoTime
    <3>5. Left(g, roles[p]) = times[q]
      BY <3>2, <3>3, <3>4, RoleAfter
    <3> QED
      BY <2>2, <3>3, <3>5 DEF q
  <2> QED
    BY <2>1, <2>2
<1>4. p # Len(roles) => times[p] = Right(g, roles[p])
  <2>1. \A i \in 1 .. Len(times) : times[i] = Right(g, roles[i])
    BY DEF Fits
  <2>2. p # Len(roles) => p \in 1 .. Len(times)
    BY <1>1
  <2> HIDE DEF times
  <2> QED
    BY <2>1, <2>2
<1> QED
  BY <1>2, <1>3, <1>4 DEF Last

\* The role of the phase in force.
LEMMA PhaseInForce ==
  ASSUME NEW g, Input(g), NEW plan, NEW roles, Fits(g, plan, roles), NEW twice \in Int
  PROVE  \E p \in 1 .. Len(roles) :
           /\ PhaseAtHalf(plan, twice) = plan.phases[p]
           /\ Left(g, roles[p]) = NoTime \/ 2 * Left(g, roles[p]) < twice
           /\ p # Len(roles) => twice <= 2 * Right(g, roles[p])
<1> DEFINE times == plan.events
           n == Cardinality({i \in DOMAIN times : 2 * times[i] < twice})
           p == n + 1
<1>1. /\ roles \in Seq(Roles(g)) /\ Len(roles) = Len(times) + 1 /\ Len(times) \in Nat
      /\ times \in Seq(Nat) /\ Increasing(times) /\ \A i \in 1 .. Len(times) : times[i] \in Nat
  BY DEF Fits
<1>2. n \in 0 .. Len(times) /\ \A i \in 1 .. Len(times) : i <= n <=> 2 * times[i] < twice
  <2> HIDE DEF times
  <2> QED
    BY <1>1, IndexAtHalf
<1>3. PhaseAtHalf(plan, twice) = plan.phases[p]
  BY DEF PhaseAtHalf
<1> HIDE DEF n
<1>4. p \in 1 .. Len(roles) /\ p - 1 = n /\ (p # 1 => n \in 1 .. Len(times))
      /\ (p # Len(roles) => p \in 1 .. Len(times) /\ ~(p <= n))
  BY <1>1, <1>2
<1> HIDE DEF p
<1>5. Left(g, roles[p]) = NoTime \/ 2 * Left(g, roles[p]) < twice
  <2>1. Left(g, roles[p]) = IF p = 1 THEN NoTime ELSE times[n]
    BY <1>4, RoleOfPhase
  <2>2. p # 1 => 2 * times[n] < twice
    BY <1>2, <1>4
  <2> HIDE DEF times
  <2> QED
    BY <2>1, <2>2
<1>6. p # Len(roles) => twice <= 2 * Right(g, roles[p])
  <2> SUFFICES ASSUME p # Len(roles) PROVE twice <= 2 * Right(g, roles[p])
    OBVIOUS
  <2>1. times[p] = Right(g, roles[p])
    BY <1>4, RoleOfPhase
  <2>2. ~(2 * times[p] < twice) /\ times[p] \in Nat
    BY <1>1, <1>2, <1>4
  <2> QED
    BY <2>1, <2>2
<1> QED
  BY <1>3, <1>4, <1>5, <1>6

\* The role a time falls in is a stance exactly when it is during a contact.
LEMMA RoleDuring ==
  ASSUME NEW g, Input(g), NEW r \in Roles(g), NEW time \in Nat,
         Left(g, r) < time, Right(g, r) = NoTime \/ time <= Right(g, r)
  PROVE  r.contact <=> \E c \in 1 .. Len(g.contacts) : During(g.contacts[c], time)
<1> DEFINE contacts == g.contacts
           K == Len(contacts)
           k == r.k
<1>1. contacts \in Contacts
  BY DEF Input
<1>2. /\ K \in Nat /\ k \in 1 .. K /\ r.contact \in BOOLEAN
      /\ r.contact \/ contacts[k].start # NoTime
  BY <1>1, ContactOrder DEF Roles, HasStart
<1> HIDE DEF contacts, k
<1>3. CASE r.contact
  <2>1. During(contacts[k], time)
    BY <1>3 DEF During, Left, Right, HasStart, HasEnd, contacts, k
  <2> QED
    BY <1>2, <1>3, <2>1 DEF contacts
<1>4. CASE ~r.contact
  <2> SUFFICES ASSUME NEW c \in 1 .. K, During(contacts[c], time) PROVE FALSE
    BY <1>4 DEF contacts
  <2>1. /\ contacts[c].end # NoTime <=> c # K
        /\ contacts[c].start # NoTime \/ c = 1
        /\ contacts[c].start \in Nat \cup {NoTime} /\ contacts[c].end \in Nat \cup {NoTime}
        /\ contacts[k].start # NoTime /\ contacts[k].end # NoTime => contacts[k].start < contacts[k].end
        /\ contacts[k].start \in Nat \cup {NoTime} /\ contacts[k].end \in Nat \cup {NoTime}
    BY <1>1, <1>2, ContactOrder
  <2>2. Right(g, r) = contacts[k].start /\ contacts[k].start # NoTime /\ time <= contacts[k].start
    BY <1>2, <1>4 DEF Right, contacts, k
  <2>3. CASE c >= k
    <3>1. contacts[c].start # NoTime
      BY <1>2, <2>1, <2>2, <2>3
    <3>2. contacts[c].start < time
      BY <3>1 DEF During, HasStart
    <3>3. CASE c = k
      BY <2>1, <2>2, <3>2, <3>3
    <3>4. CASE c # k
      <4>1. k < c
        BY <1>2, <2>3, <3>4
      <4>2. contacts[k].end < contacts[c].start /\ contacts[k].end # NoTime
        BY <1>1, <1>2, <4>1, ContactOrder
      <4> QED
        BY <2>1, <2>2, <3>1, <3>2, <4>2 DEF NoTime
    <3> QED
      BY <3>3, <3>4
  <2>4. CASE ~(c >= k)
    <3>1. c < k /\ k # 1 /\ k - 1 \in 1 .. K
      BY <1>2, <2>4
    <3>2. Left(g, r) = contacts[k - 1].end
      BY <1>4, <3>1 DEF Left, contacts, k
    <3>3. time <= contacts[c].end /\ contacts[c].end # NoTime
      BY <1>2, <2>1, <3>1 DEF During, HasEnd
    <3>4. CASE c = k - 1
      BY <2>1, <3>2, <3>3, <3>4 DEF NoTime
    <3>5. CASE c # k - 1
      <4>1. c < k - 1 /\ k - 1 # K
        BY <1>2, <3>1, <3>5
      <4>2. /\ contacts[c].end < contacts[k - 1].start
            /\ contacts[k - 1].start \in Nat \cup {NoTime} /\ contacts[k - 1].end \in Nat \cup {NoTime}
            /\ contacts[k - 1].start # NoTime /\ contacts[k - 1].end # NoTime
                 => contacts[k - 1].start < contacts[k - 1].end
            /\ contacts[k - 1].end # NoTime
        BY <1>1, <1>2, <3>1, <4>1, ContactOrder
      <4> QED
        BY <2>1, <3>2, <3>3, <4>2 DEF NoTime
    <3> QED
      BY <3>4, <3>5
  <2> QED
    BY <2>3, <2>4
<1> QED
  BY <1>3, <1>4

\* A foothold was selected for each contact that a phase within the horizon is about.
LEMMA FootholdSelected ==
  ASSUME NEW g, Input(g), NEW r \in Roles(g), Left(g, r) <= g.final
  PROVE  r.k \in Selected(g.contacts, g.final)
<1> DEFINE contacts == g.contacts
           final == g.final
           K == Len(contacts)
           k == r.k
           last == {c \in DOMAIN contacts : HasStart(contacts[c]) /\ ContactEnd(contacts[c], final) > final}
                     \cup {K}
<1>1. contacts \in Contacts /\ final \in Nat
  BY DEF Input
<1>2. K \in Nat \ {0} /\ k \in 1 .. K /\ DOMAIN contacts = 1 .. K
  BY <1>1, ContactOrder DEF Roles
<1>3. Selected(contacts, final) = 1 .. Min(last)
  BY DEF Selected
<1>4. last \in SUBSET Nat /\ last # {}
  BY <1>2
<1> HIDE DEF contacts, final, k
<1>5. \A c \in last : k <= c
  <2> SUFFICES ASSUME NEW c \in 1 .. K, c < k, ContactEnd(contacts[c], final) > final PROVE FALSE
    BY <1>2
  <2>1. /\ contacts[c].end \in Nat /\ contacts[c].end # NoTime /\ contacts[c].end < contacts[k].start
        /\ contacts[k].start \in Nat \cup {NoTime}
    BY <1>1, <1>2, ContactOrder
  <2>2. contacts[c].end > final
    BY <2>1 DEF ContactEnd, HasEnd
  <2>3. Left(g, r) = IF r.contact THEN contacts[k].start ELSE IF k = 1 THEN NoTime ELSE contacts[k - 1].end
    BY DEF Left, contacts, k
  <2>4. CASE r.contact
    BY <1>1, <2>1, <2>2, <2>3, <2>4 DEF final, NoTime
  <2>5. CASE ~r.contact
    <3>1. k # 1 /\ k - 1 \in 1 .. K /\ k - 1 # K
      BY <1>2
    <3>2. contacts[k - 1].end \in Nat
      BY <1>1, <1>2, <3>1, ContactOrder
    <3>3. contacts[c].end <= contacts[k - 1].end
      <4>1. CASE c = k - 1
        BY <2>1, <4>1
      <4>2. CASE c # k - 1
        <5>1. c < k - 1
          BY <1>2, <4>2
        <5>2. /\ contacts[c].end < contacts[k - 1].start
              /\ contacts[k - 1].start \in Nat \cup {NoTime}
              /\ contacts[k - 1].start # NoTime /\ contacts[k - 1].end # NoTime
                   => contacts[k - 1].start < contacts[k - 1].end
              /\ contacts[k - 1].end # NoTime
          BY <1>1, <1>2, <3>1, <5>1, ContactOrder
        <5> QED
          BY <2>1, <3>2, <5>2 DEF NoTime
      <4> QED
        BY <4>1, <4>2
    <3> QED
      BY <1>1, <2>1, <2>2, <2>3, <2>5, <3>1, <3>2, <3>3 DEF final
  <2> QED
    BY <2>4, <2>5
<1> HIDE DEF last
<1>6. Min(last) \in last
  BY <1>4, MinOfNumbers
<1>7. k <= Min(last) /\ Min(last) \in Nat
  BY <1>4, <1>5, <1>6
<1> QED
  BY <1>2, <1>3, <1>7 DEF contacts, final, k

-----------------------------------------------------------------------------
(* The footholds.                                                          *)

\* The plan of the last generation, or none: what a new one may read of it.
KnownPlan(plan, final) ==
  /\ plan.events \in Seq(Nat) /\ Increasing(plan.events)
  /\ \A i \in 1 .. Len(plan.events) : plan.events[i] <= final
  /\ plan.phases # <<>> =>
       /\ Len(plan.phases) = Len(plan.events) + 1 /\ DOMAIN plan.phases = 1 .. Len(plan.phases)
       /\ \A p \in 1 .. Len(plan.phases) : plan.phases[p].foothold # NoFoothold

\* There is a foothold for each contact a phase may be about, and the plan has its phases
\* in their roles, up to one that lasts beyond the horizon.
Follows(g, plan) ==
  /\ Input(g)
  /\ \A c \in Selected(g.contacts, g.final) : FootholdAt(g.footholds, c) # NoFoothold
  /\ \E roles \in Seq(Roles(g)) : Fits(g, plan, roles) /\ Beyond(g, Last(roles))

LEMMA FollowsIsKnown ==
  ASSUME NEW g, NEW plan, Follows(g, plan)
  PROVE  /\ KnownPlan(plan, g.final)
         /\ Len(plan.phases) = Len(plan.events) + 1 /\ Len(plan.events) \in Nat
         /\ DOMAIN plan.phases = 1 .. Len(plan.phases)
         /\ \A p \in 1 .. Len(plan.phases) : plan.phases[p].foothold # NoFoothold
<1>1. PICK roles \in Seq(Roles(g)) : Fits(g, plan, roles) /\ Beyond(g, Last(roles))
  BY DEF Follows
<1>2. /\ plan.events \in Seq(Nat) /\ Increasing(plan.events) /\ Len(plan.events) \in Nat
      /\ \A i \in 1 .. Len(plan.events) : plan.events[i] <= g.final
      /\ Len(roles) = Len(plan.events) + 1
      /\ plan.phases = [p \in 1 .. Len(roles) |-> PhaseOf(g, roles[p])]
  BY <1>1 DEF Fits
<1>3. Len(plan.phases) = Len(roles) /\ DOMAIN plan.phases = 1 .. Len(roles)
  <2> DEFINE phases == [p \in 1 .. Len(roles) |-> PhaseOf(g, roles[p])]
  <2>1. Len(roles) \in Nat
    BY <1>2
  <2>2. phases \in [1 .. Len(roles) -> {PhaseOf(g, roles[p]) : p \in 1 .. Len(roles)}]
    OBVIOUS
  <2>3. \A S : \A n \in Nat : \A f \in [1 .. n -> S] : Len(f) = n
    OBVIOUS
  <2> HIDE DEF phases
  <2>4. Len(phases) = Len(roles)
    BY <2>1, <2>2, <2>3
  <2> QED
    BY <1>2, <2>4 DEF phases
<1>4. \A p \in 1 .. Len(plan.phases) : plan.phases[p].foothold # NoFoothold
  <2> SUFFICES ASSUME NEW p \in 1 .. Len(roles) PROVE plan.phases[p].foothold # NoFoothold
    BY <1>3
  <2> DEFINE r == roles[p]
  <2>1. r \in Roles(g) /\ plan.phases[p] = PhaseOf(g, r) /\ Left(g, r) <= g.final /\ Input(g)
    BY <1>1, RoleOfPhase DEF Follows
  <2> HIDE DEF r
  <2>2. PhaseOf(g, r).foothold = FootholdAt(g.footholds, r.k)
    BY DEF PhaseOf, StancePhase, SwingPhase
  <2>3. r.k \in Selected(g.contacts, g.final)
    BY <2>1, FootholdSelected
  <2> QED
    BY <2>1, <2>2, <2>3 DEF Follows
<1> QED
  BY <1>2, <1>3, <1>4 DEF KnownPlan

\* What a leg is planned from: the plan it has, with the horizon of that, its contacts in
\* the new schedule, where it stands, and the new horizon.
Task(j) ==
  /\ j.contacts \in Contacts /\ {j.start, j.final, j.known} \subseteq Nat
  /\ KnownPlan(j.plan, j.known)
  /\ ~HasStart(j.contacts[1]) => j.last.measured = j.start

FootholdsOf(j) == NominalFootholds(j.plan, j.contacts, j.last, j.start, j.final)
PlanningOf(j) ==
  [contacts |-> j.contacts, footholds |-> FootholdsOf(j), lift |-> j.last.time, final |-> j.final]

\* A foothold is kept from a phase of the known plan or chosen now: never missing.
LEMMA FootholdsChosen ==
  ASSUME NEW j, Task(j), NEW c \in Selected(j.contacts, j.final)
  PROVE  /\ FootholdAt(FootholdsOf(j), c) # NoFoothold
         /\ HasStart(j.contacts[c]) =>
              FootholdAt(FootholdsOf(j), c) =
                LET before == PhaseAtHalf(j.plan, ContactEnd(j.contacts[c], j.final) + j.contacts[c].start)
                IN  IF j.plan.phases # <<>> /\ j.contacts[c].start - j.start < TimeDeadzone /\ before.contact
                    THEN before.foothold
                    ELSE Foothold(j.start, j.contacts[c].start < j.final)
<1> DEFINE contact == j.contacts[c]
           twice == ContactEnd(contact, j.final) + contact.start
           before == PhaseAtHalf(j.plan, twice)
<1>1. j.contacts \in Contacts /\ j.start \in Nat /\ j.final \in Nat /\ KnownPlan(j.plan, j.known)
  BY DEF Task
<1>2. FootholdAt(FootholdsOf(j), c) = FootholdsOf(j)[c]
  BY DEF FootholdAt, FootholdsOf, NominalFootholds
<1>3. c \in DOMAIN Heuristics(j.contacts, j.final)
  BY DEF Heuristics
<1>4. FootholdsOf(j)[c] =
        IF HasStart(contact) THEN TerrainFoothold(j.plan, contact, TRUE, j.start, j.final)
        ELSE Foothold(j.last.measured, FALSE)
  BY <1>3 DEF FootholdsOf, NominalFootholds
<1>5. /\ contact.start \in Nat \cup {NoTime} /\ contact.end \in Nat \cup {NoTime}
      /\ contact.start # NoTime \/ c = 1
  <2>1. c \in 1 .. Len(j.contacts)
    <3> DEFINE last == {d \in DOMAIN j.contacts : HasStart(j.contacts[d]) /\ ContactEnd(j.contacts[d], j.final) > j.final}
                         \cup {Len(j.contacts)}
    <3>1. Selected(j.contacts, j.final) = 1 .. Min(last)
      BY DEF Selected
    <3>2. last \in SUBSET Nat /\ last # {} /\ Len(j.contacts) \in last /\ Len(j.contacts) \in Nat
      BY <1>1, ContactOrder
    <3> HIDE DEF last
    <3>3. Min(last) \in Nat /\ Min(last) <= Len(j.contacts)
      BY <3>2, MinOfNumbers
    <3> QED
      BY <3>1, <3>2, <3>3
  <2> QED
    BY <1>1, <2>1, ContactOrder
<1>6. \A time \in Nat : \A bounded : Foothold(time, bounded) # NoFoothold
  BY DEF Foothold, NoFoothold, NoTime
<1>7. CASE HasStart(contact)
  <2>1. FootholdsOf(j)[c] =
          IF j.plan.phases # <<>> /\ contact.start - j.start < TimeDeadzone /\ before.contact
          THEN before.foothold ELSE Foothold(j.start, contact.start < j.final)
    BY <1>4, <1>7 DEF TerrainFoothold
  <2>2. ASSUME j.plan.phases # <<>> PROVE before.foothold # NoFoothold
    <3>1. twice \in Int
      <4>1. contact.start \in Nat /\ Extension \in Nat
        BY <1>5, <1>7, SwingSettingsAssumption DEF HasStart
      <4>2. ContactEnd(contact, j.final) \in Int
        <5>1. CASE HasEnd(contact)
          BY <1>5, <5>1 DEF ContactEnd, HasEnd
        <5>2. CASE ~HasEnd(contact)
          <6>1. {j.final + Extension, contact.start} \in SUBSET Nat
                /\ {j.final + Extension, contact.start} # {}
            BY <1>1, <4>1
          <6>2. Max({j.final + Extension, contact.start}) \in {j.final + Extension, contact.start}
            <7> DEFINE S == {j.final + Extension, contact.start}
                       n == j.final + Extension + contact.start
            <7>1. n \in Nat /\ S \in SUBSET (0 .. n) /\ S # {}
              BY <1>1, <4>1
            <7> HIDE DEF S, n
            <7>2. Max(S) \in S
              BY <7>1, MaxOfNumbers
            <7> QED
              BY <7>2 DEF S
          <6> QED
            BY <1>1, <4>1, <5>2, <6>2 DEF ContactEnd
        <5> QED
          BY <5>1, <5>2
      <4> QED
        BY <4>1, <4>2
    <3> DEFINE n == Cardinality({i \in DOMAIN j.plan.events : 2 * j.plan.events[i] < twice})
    <3> HIDE DEF twice
    <3>2. /\ j.plan.events \in Seq(Nat) /\ Increasing(j.plan.events)
          /\ Len(j.plan.phases) = Len(j.plan.events) + 1 /\ Len(j.plan.events) \in Nat
          /\ \A p \in 1 .. Len(j.plan.phases) : j.plan.phases[p].foothold # NoFoothold
      BY <1>1, <2>2 DEF KnownPlan
    <3>3. n \in 0 .. Len(j.plan.events)
      BY <3>1, <3>2, IndexAtHalf
    <3>4. before = j.plan.phases[n + 1]
      BY DEF PhaseAtHalf
    <3> HIDE DEF n
    <3> QED
      BY <3>2, <3>3, <3>4
  <2> HIDE DEF before, contact
  <2> QED
    <3>1. FootholdsOf(j)[c] # NoFoothold
      <4>1. Foothold(j.start, contact.start < j.final) # NoFoothold
        BY <1>1, <1>6
      <4> QED
        BY <2>1, <2>2, <4>1
    <3> QED
      BY <1>2, <2>1, <3>1 DEF before, contact, twice
<1>8. CASE ~HasStart(contact)
  <2>1. j.last.measured = j.start
    BY <1>5, <1>8 DEF Task, HasStart
  <2> QED
    BY <1>1, <1>2, <1>4, <1>6, <1>8, <2>1
<1> QED
  BY <1>7, <1>8

\* The plan of a leg follows its contacts.
LEMMA LegPlanned ==
  ASSUME NEW j, Task(j)
  PROVE  Follows(PlanningOf(j), SwingTrajectories(j.contacts, FootholdsOf(j), j.last, j.final))
<1> DEFINE g == PlanningOf(j)
           footholds == FootholdsOf(j)
           plan == SwingTrajectories(j.contacts, footholds, j.last, j.final)
<1>1. /\ g = [contacts |-> j.contacts, footholds |-> footholds, lift |-> j.last.time, final |-> j.final]
      /\ g.contacts = j.contacts /\ g.footholds = footholds /\ g.final = j.final
  BY DEF PlanningOf
<1>2. j.contacts \in Contacts /\ j.final \in Nat
  BY DEF Task
<1>3. Input(g)
  BY <1>1, <1>2 DEF Input
<1>4. \A c \in Selected(g.contacts, g.final) : FootholdAt(g.footholds, c) # NoFoothold
  <2> HIDE DEF g, footholds
  <2> SUFFICES ASSUME NEW c \in Selected(j.contacts, j.final) PROVE FootholdAt(footholds, c) # NoFoothold
    BY <1>1
  <2> QED
    BY FootholdsChosen DEF footholds
<1>5. \E roles \in Seq(Roles(g)) : Fits(g, plan, roles) /\ Beyond(g, Last(roles))
  <2> HIDE DEF footholds
  <2>1. LET k == [contacts |-> j.contacts, footholds |-> footholds, lift |-> j.last.time, final |-> j.final]
        IN  \E roles \in Seq(Roles(k)) : /\ Fits(k, SwingTrajectories(j.contacts, footholds, j.last, j.final), roles)
                                         /\ Beyond(k, Last(roles))
    BY <1>2, PlanOfContacts
  <2> HIDE DEF g
  <2> QED
    BY <1>1, <2>1
<1> HIDE DEF g, plan
<1>6. Follows(g, plan)
  BY <1>3, <1>4, <1>5 DEF Follows
<1> QED
  BY <1>6 DEF g, plan, footholds

-----------------------------------------------------------------------------
(* The swing planner.                                                      *)

PlanOf(leg, footholds) ==
  [contacts |-> ContactTimings(leg, events, modes), footholds |-> footholds,
   lift |-> lastContacts[leg].time, final |-> FinalTime]

\* The constraint of a leg in a mode.
Held(leg, mode) ==
  LET phase == FootPhase(footPlans[leg], events[mode])
  IN  IF mode > 1 /\ leg \in modes[mode] /\ phase.contact /\ phase.foothold.bounded
      THEN phase.foothold ELSE NoFoothold

\* What the swing planner keeps true: the plans are known, and those handed over follow
\* the contacts of the schedule they come with.
FeetKnown ==
  \A leg \in Legs : lastContacts[leg].time \in Nat /\ KnownPlan(footPlans[leg], FinalTime)
FeetFollow ==
  Published =>
    /\ Closed(events, modes)
    /\ \A leg \in Legs :
         /\ \E footholds : Follows(PlanOf(leg, footholds), footPlans[leg])
         /\ HasStart(ContactTimings(leg, events, modes)[1]) => lastContacts[leg].time <= startTime
         /\ \A mode \in 1 .. Len(events) : constraints[mode][leg] = Held(leg, mode)
FeetInv == FeetKnown /\ FeetFollow

LEMMA LastContactKnown ==
  ASSUME NEW last, last.time \in Nat, NEW contacts \in Contacts, NEW start \in Nat, NEW final \in Nat
  PROVE  LET now == LastContact(last, contacts, start, final)
         IN  /\ now.time \in Nat
             /\ HasStart(contacts[1]) => now.time <= start
             /\ ~HasStart(contacts[1]) => now.measured = start
<1>1. contacts # <<>> /\ contacts[1].end \in Nat \cup {NoTime}
  <2>1. Len(contacts) \in Nat \ {0} /\ 1 \in 1 .. Len(contacts)
    BY ContactOrder
  <2>2. contacts[1].end \in Nat \cup {NoTime}
    BY <2>1, ContactOrder
  <2> QED
    BY <2>1, <2>2
<1>2. CASE HasStart(contacts[1])
  <2>1. LastContact(last, contacts, start, final) =
          IF last.time > start THEN [time |-> start, measured |-> start] ELSE last
    BY <1>1, <1>2 DEF LastContact, StartsWithSwing
  <2> QED
    BY <1>2, <2>1
<1>3. CASE ~HasStart(contacts[1])
  <2>1. LastContact(last, contacts, start, final) =
          [time |-> IF HasEnd(contacts[1]) THEN contacts[1].end ELSE final, measured |-> start]
    BY <1>1, <1>3 DEF LastContact, StartsWithSwing
  <2> QED
    BY <1>1, <1>3, <2>1 DEF HasEnd
<1> QED
  BY <1>2, <1>3

\* A generation plans each leg from such a task.
TaskOf(leg) ==
  LET contacts == ContactTimings(leg, events', modes')
  IN  [plan |-> footPlans[leg], known |-> FinalTime, contacts |-> contacts,
       last |-> LastContact(lastContacts[leg], contacts, clock, clock + Horizon),
       start |-> clock, final |-> clock + Horizon]

LEMMA SwingPlanned ==
  ASSUME PlannerInv, FeetKnown, ScheduleAndSwing, NEW leg \in Legs
  PROVE  /\ Closed(events', modes') /\ EndsAt(events', clock + Horizon) /\ startTime' = clock
         /\ clock \in Nat /\ clock + Horizon \in Nat
         /\ Task(TaskOf(leg)) /\ lastContacts'[leg] = TaskOf(leg).last
         /\ footPlans'[leg] =
              SwingTrajectories(TaskOf(leg).contacts, FootholdsOf(TaskOf(leg)), TaskOf(leg).last,
                                TaskOf(leg).final)
         /\ TaskOf(leg).last.time \in Nat
         /\ HasStart(TaskOf(leg).contacts[1]) => TaskOf(leg).last.time <= clock
<1> DEFINE contacts == ContactTimings(leg, events', modes')
           last == LastContact(lastContacts[leg], contacts, clock, clock + Horizon)
           j == TaskOf(leg)
<1>1. GetModeSchedule(clock, clock + Horizon) /\ UpdateSwingMotions(clock, clock + Horizon)
  BY DEF ScheduleAndSwing, Schedule
<1>2. clock \in Nat /\ clock + Horizon \in Nat /\ clock < clock + Horizon /\ FinalTime \in Nat
  BY TimesAssumption DEF PlannerInv, ClockInv, FinalTime
<1>3. Closed(events', modes') /\ EndsAt(events', clock + Horizon) /\ startTime' = clock
  BY <1>1, <1>2, ScheduleKeeps
<1>4. contacts \in Contacts
  BY <1>3, ContactsOfSchedule
<1>5. /\ j.plan = footPlans[leg] /\ j.known = FinalTime /\ j.contacts = contacts /\ j.last = last
      /\ j.start = clock /\ j.final = clock + Horizon
  BY DEF TaskOf
<1>6. lastContacts' = [l \in Legs |->
        LastContact(lastContacts[l], ContactTimings(l, events', modes'), clock, clock + Horizon)]
  BY <1>1 DEF UpdateSwingMotions
<1>7. lastContacts'[leg] = last
  BY <1>6
<1>8. footPlans'[leg] = SwingTrajectories(contacts,
        NominalFootholds(footPlans[leg], contacts, last, clock, clock + Horizon), last, clock + Horizon)
  BY <1>1 DEF UpdateSwingMotions
<1> HIDE DEF contacts, last, j
<1>9. /\ last.time \in Nat
      /\ HasStart(contacts[1]) => last.time <= clock
      /\ ~HasStart(contacts[1]) => last.measured = clock
  <2> DEFINE before == lastContacts[leg]
             final == clock + Horizon
  <2>1. before.time \in Nat /\ final \in Nat
    BY <1>2 DEF FeetKnown
  <2>2. last = LastContact(before, contacts, clock, final)
    BY DEF last
  <2> HIDE DEF before, final
  <2> QED
    <3>1. clock \in Nat
      BY <1>2
    <3>2. LET now == LastContact(before, contacts, clock, final)
          IN  /\ now.time \in Nat
              /\ HasStart(contacts[1]) => now.time <= clock
              /\ ~HasStart(contacts[1]) => now.measured = clock
      BY <1>4, <2>1, <3>1, LastContactKnown
    <3> QED
      BY <2>2, <3>2
<1>10. KnownPlan(footPlans[leg], FinalTime)
  BY DEF FeetKnown
<1>11. Task(j)
  BY <1>2, <1>4, <1>5, <1>9, <1>10 DEF Task
<1>12. footPlans'[leg] = SwingTrajectories(j.contacts, FootholdsOf(j), j.last, j.final)
  BY <1>5, <1>8 DEF FootholdsOf
<1> QED
  BY <1>2, <1>3, <1>5, <1>7, <1>9, <1>11, <1>12 DEF j

LEMMA ConstraintsHeld ==
  ASSUME ScheduleAndSwing, Closed(events', modes'), NEW leg \in Legs, NEW mode \in 1 .. Len(events')
  PROVE  constraints'[mode][leg] = Held(leg, mode)'
<1>1. constraints' = [m \in DOMAIN modes' |-> [l \in Legs |->
        ConstraintIn(footPlans'[l], l, Min({m, Len(modes') - 1}))]]
  BY DEF ScheduleAndSwing, UpdateSwingMotions
<1>2. /\ Len(modes') = Len(events') + 1 /\ Len(events') \in Nat /\ DOMAIN modes' = 1 .. Len(modes')
  BY DEF Closed, WellFormed
<1>3. mode \in DOMAIN modes' /\ mode <= Len(modes') - 1 /\ Len(modes') - 1 \in Nat
  BY <1>2
<1>4. Min({mode, Len(modes') - 1}) = mode
  <2> DEFINE S == {mode, Len(modes') - 1}
  <2>1. S \in SUBSET Nat /\ S # {} /\ mode \in S
    BY <1>3
  <2>2. \A x \in S : mode <= x
    BY <1>3
  <2> HIDE DEF S
  <2>3. Min(S) \in S /\ Min(S) <= mode /\ Min(S) \in Nat
    BY <2>1, MinOfNumbers
  <2>4. Min(S) = mode
    BY <2>2, <2>3
  <2> QED
    BY <2>4 DEF S
<1>5. constraints'[mode][leg] = ConstraintIn(footPlans'[leg], leg, mode)
  BY <1>1, <1>3, <1>4
<1> QED
  BY <1>5 DEF ConstraintIn, Held

LEMMA FeetStep ==
  ASSUME PlannerInv, FeetInv, [ReferenceNext]_<<vars, swingVars, reference>>
  PROVE  FeetInv'
<1>1. CASE Generate
  <2>0. ScheduleAndSwing /\ FeetKnown
    BY <1>1 DEF Generate, FeetInv
  <2>1. ASSUME NEW leg \in Legs
        PROVE  /\ (lastContacts[leg].time \in Nat)' /\ KnownPlan(footPlans[leg], FinalTime)'
               /\ Closed(events', modes')
               /\ (\E footholds : Follows(PlanOf(leg, footholds), footPlans[leg]))'
               /\ (HasStart(ContactTimings(leg, events, modes)[1]) => lastContacts[leg].time <= startTime)'
               /\ \A mode \in 1 .. Len(events') : constraints'[mode][leg] = Held(leg, mode)'
    <3> DEFINE j == TaskOf(leg)
               g == PlanningOf(j)
    <3>1. /\ Closed(events', modes') /\ startTime' = clock
          /\ Task(j) /\ lastContacts'[leg] = j.last
          /\ footPlans'[leg] = SwingTrajectories(j.contacts, FootholdsOf(j), j.last, j.final)
          /\ j.last.time \in Nat
          /\ HasStart(j.contacts[1]) => j.last.time <= clock
      BY <2>0, SwingPlanned
    <3>2. j.contacts = ContactTimings(leg, events', modes') /\ j.final = FinalTime'
      BY <3>1 DEF TaskOf, FinalTime
    <3> HIDE DEF j
    <3>3. Follows(g, footPlans'[leg])
      BY <3>1, LegPlanned
    <3>4. /\ g = [contacts |-> ContactTimings(leg, events', modes'), footholds |-> FootholdsOf(j),
                lift |-> lastContacts'[leg].time, final |-> FinalTime']
          /\ g.final = FinalTime'
      BY <3>1, <3>2 DEF PlanningOf
    <3> HIDE DEF g
    <3>5. KnownPlan(footPlans'[leg], FinalTime')
      BY <3>3, <3>4, FollowsIsKnown
    <3>6. (\E footholds : Follows(PlanOf(leg, footholds), footPlans[leg]))'
      BY <3>3, <3>4 DEF PlanOf
    <3>7. \A mode \in 1 .. Len(events') : constraints'[mode][leg] = Held(leg, mode)'
      BY <2>0, <3>1, ConstraintsHeld
    <3> QED
      BY <3>1, <3>2, <3>5, <3>6, <3>7
  <2>2. FeetKnown'
    BY <2>1 DEF FeetKnown
  <2>3. FeetFollow'
    <3>1. 0 \in Legs
      BY EndEffectorsAssumption DEF Legs
    <3> QED
      BY <2>1, <3>1 DEF FeetFollow
  <2> QED
    BY <2>2, <2>3 DEF FeetInv
<1>2. CASE (ChangeGait \/ KeepGait) /\ UNCHANGED <<swingVars, reference>>
  <2>1. startTime' = startTime /\ stage' = "schedule" /\ UNCHANGED <<lastContacts, footPlans, constraints>>
    BY <1>2 DEF ChangeGait, KeepGait, UpdateDynamicParameters, plannerVars, swingVars
  <2> QED
    BY <2>1 DEF FeetInv, FeetKnown, FeetFollow, FinalTime, Published
<1>3. CASE UNCHANGED <<vars, swingVars, reference>>
  BY <1>3 DEF vars, plannerVars, swingVars, FeetInv, FeetKnown, FeetFollow, FinalTime, Published,
              PlanOf, Held
<1> QED
  BY <1>1, <1>2, <1>3 DEF ReferenceNext

-----------------------------------------------------------------------------
(* Swings.                                                                 *)

\* A positive part of a positive length.
LEMMA PartOfLength ==
  ASSUME NEW m \in 1 .. Cycle - 1, NEW a \in Nat, NEW b \in Nat, a <= b
  PROVE  LET mid == Cycle * a + m * (b - a)
         IN  /\ {Cycle * a, mid, Cycle * b} \subseteq Nat
             /\ Cycle * a <= mid /\ mid <= Cycle * b
             /\ a < b => Cycle * a < mid /\ mid < Cycle * b
<1> DEFINE d == b - a
<1>1. d \in Nat /\ b = a + d /\ m \in Nat \ {0} /\ Cycle \in Nat /\ Cycle - m \in Nat \ {0} /\ (a < b => d \in Nat \ {0})
  BY CycleAssumption
<1> HIDE DEF d
<1>2. \A x, y \in Nat : x * y \in Nat
  OBVIOUS
<1>3. \A x, y \in Nat \ {0} : x * y \in Nat \ {0}
  OBVIOUS
<1>4. m * d \in Nat /\ (Cycle - m) * d \in Nat /\ Cycle * a \in Nat
  BY <1>1, <1>2
<1>5. a < b => m * d \in Nat \ {0} /\ (Cycle - m) * d \in Nat \ {0}
  BY <1>1, <1>3
<1>6. Cycle * b = Cycle * a + m * d + (Cycle - m) * d
  BY <1>1
<1> DEFINE x == m * d
           y == (Cycle - m) * d
           z == Cycle * a
<1>7. Cycle * b = z + x + y /\ x \in Nat /\ y \in Nat /\ z \in Nat /\ (a < b => x \in Nat \ {0} /\ y \in Nat \ {0})
  BY <1>4, <1>5, <1>6
<1>8. z + x = Cycle * a + m * (b - a)
  BY DEF d
<1> HIDE DEF x, y, z
<1> DEFINE mid == z + x
           top == Cycle * b
<1>9. /\ {z, mid, top} \subseteq Nat /\ z <= mid /\ mid <= top
      /\ a < b => z < mid /\ mid < top
  BY <1>7
<1> QED
  BY <1>8, <1>9 DEF z

\* The nodes of a swing are three, the middle one at a part of its length.
LEMMA NodesOfSwing ==
  ASSUME NEW phase, phase.liftOff \in Nat, phase.touchDown \in Nat,
         phase.liftOff <= phase.touchDown, NEW nodes \in Motions(phase)
  PROVE  /\ nodes \in Seq(Nat) /\ Len(nodes) = 3
         /\ nodes[1] = Cycle * phase.liftOff /\ nodes[3] = Cycle * phase.touchDown
         /\ nodes[1] <= nodes[2] /\ nodes[2] <= nodes[3]
         /\ phase.liftOff < phase.touchDown => nodes[1] < nodes[2] /\ nodes[2] < nodes[3]
<1> DEFINE a == phase.liftOff
           b == phase.touchDown
           Mid(m) == Cycle * a + m * (b - a)
<1>1. ASSUME NEW m \in 1 .. Cycle - 1
      PROVE  SwingNodes(phase, <<m>>) = <<Cycle * a>> \o <<Mid(m)>> \o <<Cycle * b>>
  <2> DEFINE middle == [i \in DOMAIN <<m>> |-> Cycle * a + <<m>>[i] * (b - a)]
  <2>1. middle = <<Mid(m)>>
    <3>1. DOMAIN <<m>> = 1 .. 1 /\ <<m>>[1] = m
      OBVIOUS
    <3>2. \A x : <<x>> = [i \in 1 .. 1 |-> x]
      OBVIOUS
    <3>3. \A i \in 1 .. 1 : i = 1
      OBVIOUS
    <3>4. middle = [i \in 1 .. 1 |-> Mid(m)]
      BY <3>1, <3>3
    <3> HIDE DEF middle, Mid
    <3> QED
      BY <3>2, <3>4
  <2>2. SwingNodes(phase, <<m>>) = <<Cycle * a>> \o middle \o <<Cycle * b>>
    BY DEF SwingNodes
  <2> HIDE DEF middle, Mid
  <2> QED
    BY <2>1, <2>2
<1>2. PICK m \in 1 .. Cycle - 1 : nodes = SwingNodes(phase, <<m>>)
  <2>1. MidPhase \in 1 .. Cycle - 1 /\ Cycle \in Nat
    BY SwingSettingsAssumption, CycleAssumption
  <2>2. Cycle \div 2 \in 1 .. Cycle - 1
    BY <2>1
  <2> QED
    BY <2>1, <2>2 DEF Motions, SwingProfile, ClearanceProfile
<1>3. nodes = <<Cycle * a>> \o <<Mid(m)>> \o <<Cycle * b>>
  BY <1>1, <1>2
<1>4. /\ {Cycle * a, Mid(m), Cycle * b} \subseteq Nat
      /\ Cycle * a <= Mid(m) /\ Mid(m) <= Cycle * b
      /\ a < b => Cycle * a < Mid(m) /\ Mid(m) < Cycle * b
  BY PartOfLength
<1> DEFINE x == Cycle * a
           y == Mid(m)
           z == Cycle * b
<1>5. nodes = <<x>> \o <<y>> \o <<z>> /\ x \in Nat /\ y \in Nat /\ z \in Nat
  BY <1>3, <1>4
<1>6. /\ x <= y /\ y <= z
      /\ a < b => x < y /\ y < z
  BY <1>4
<1>7. x = Cycle * phase.liftOff /\ z = Cycle * phase.touchDown
  OBVIOUS
<1> HIDE DEF x, y, z
<1>8. nodes \in Seq(Nat) /\ Len(nodes) = 3 /\ nodes[1] = x /\ nodes[2] = y /\ nodes[3] = z
  <2> DEFINE two == <<x>> \o <<y>>
  <2>1. /\ <<x>> \in Seq(Nat) /\ Len(<<x>>) = 1 /\ <<x>>[1] = x
        /\ <<y>> \in Seq(Nat) /\ Len(<<y>>) = 1 /\ <<y>>[1] = y
        /\ <<z>> \in Seq(Nat) /\ Len(<<z>>) = 1 /\ <<z>>[1] = z
    BY <1>5
  <2>2. two \in Seq(Nat) /\ Len(two) = 2 /\ two[1] = x /\ two[2] = y
    <3>1. /\ two \in Seq(Nat) /\ Len(two) = Len(<<x>>) + Len(<<y>>)
          /\ \A i \in 1 .. Len(<<x>>) + Len(<<y>>) :
               two[i] = IF i <= Len(<<x>>) THEN <<x>>[i] ELSE <<y>>[i - Len(<<x>>)]
      BY <2>1, ConcatProperties
    <3> HIDE DEF two
    <3> QED
      BY <2>1, <3>1
  <2> HIDE DEF two
  <2>3. nodes = two \o <<z>>
    BY <1>5 DEF two
  <2>4. /\ nodes \in Seq(Nat) /\ Len(nodes) = Len(two) + Len(<<z>>)
        /\ \A i \in 1 .. Len(two) + Len(<<z>>) :
             nodes[i] = IF i <= Len(two) THEN two[i] ELSE <<z>>[i - Len(two)]
    <3> DEFINE one == <<z>>
    <3>1. two \in Seq(Nat) /\ one \in Seq(Nat)
      BY <2>1, <2>2
    <3> HIDE DEF one
    <3>2. /\ two \o one \in Seq(Nat) /\ Len(two \o one) = Len(two) + Len(one)
          /\ \A i \in 1 .. Len(two) + Len(one) :
               (two \o one)[i] = IF i <= Len(two) THEN two[i] ELSE one[i - Len(two)]
      BY <3>1, ConcatProperties
    <3> QED
      BY <2>3, <3>2 DEF one
  <2> QED
    BY <2>1, <2>2, <2>4
<1> QED
  BY <1>6, <1>7, <1>8

\* The nodes of a swing of some length increase.
LEMMA NodesIncrease ==
  ASSUME NEW phase, phase.liftOff \in Nat, phase.touchDown \in Nat,
         phase.liftOff < phase.touchDown, NEW nodes \in Motions(phase)
  PROVE  \A s \in DOMAIN Splines(nodes) : Splines(nodes)[s].start < Splines(nodes)[s].end
<1>1. phase.liftOff <= phase.touchDown
  OBVIOUS
<1>2. Len(nodes) = 3 /\ nodes[1] < nodes[2] /\ nodes[2] < nodes[3]
  BY <1>1, NodesOfSwing
<1>3. Splines(nodes) = [s \in 1 .. 2 |-> [start |-> nodes[s], end |-> nodes[s + 1]]]
  BY <1>2 DEF Splines
<1>4. \A s \in 1 .. 2 : s = 1 \/ s = 2
  OBVIOUS
<1> QED
  BY <1>2, <1>3, <1>4

\* A time within a swing is read from the spline that spans it.
LEMMA SplineSpans ==
  ASSUME NEW phase, phase.liftOff \in Nat, phase.touchDown \in Nat,
         NEW time \in Nat, phase.liftOff <= time, time <= phase.touchDown
  PROVE  ReadsItsSpline(phase, time)
<1> SUFFICES ASSUME NEW nodes \in Motions(phase)
             PROVE  /\ SplineAt(nodes, time).start <= Cycle * time
                    /\ Cycle * time <= SplineAt(nodes, time).end
  BY DEF ReadsItsSpline
<1>1. phase.liftOff <= phase.touchDown
  OBVIOUS
<1>2. /\ nodes \in Seq(Nat) /\ Len(nodes) = 3
      /\ nodes[1] = Cycle * phase.liftOff /\ nodes[3] = Cycle * phase.touchDown
  BY <1>1, NodesOfSwing
<1>0. nodes[2] \in Nat
  <2>1. \A s \in Seq(Nat) : \A i \in 1 .. Len(s) : s[i] \in Nat
    OBVIOUS
  <2>2. \A i \in 1 .. Len(nodes) : nodes[i] \in Nat
    BY <1>2, <2>1
  <2>3. 2 \in 1 .. 3 /\ Len(nodes) = 3
    BY <1>2
  <2> QED
    BY <2>2, <2>3
<1> DEFINE t == Cycle * time
           inner == SubSeq(nodes, 2, Len(nodes) - 1)
           index == IndexInTimes(inner, t)
<1>3. t \in Nat /\ nodes[1] <= t /\ t <= nodes[3]
  <2>1. \A x, y \in Nat : x * y \in Nat
    OBVIOUS
  <2>2. Cycle \in Nat /\ time - phase.liftOff \in Nat /\ phase.touchDown - time \in Nat
    BY CycleAssumption
  <2>3. Cycle * time \in Nat /\ Cycle * (time - phase.liftOff) \in Nat /\ Cycle * (phase.touchDown - time) \in Nat
        /\ Cycle * phase.liftOff \in Nat /\ Cycle * phase.touchDown \in Nat
    BY <2>1, <2>2
  <2>4. /\ Cycle * (time - phase.liftOff) = Cycle * time - Cycle * phase.liftOff
        /\ Cycle * (phase.touchDown - time) = Cycle * phase.touchDown - Cycle * time
    BY <2>2
  <2> DEFINE a == Cycle * phase.liftOff
             b == Cycle * phase.touchDown
             before == Cycle * (time - phase.liftOff)
             after == Cycle * (phase.touchDown - time)
  <2>5. /\ t \in Nat /\ before \in Nat /\ after \in Nat /\ a \in Nat /\ b \in Nat
        /\ before = t - a /\ after = b - t
    BY <2>3, <2>4
  <2> HIDE DEF t, a, b, before, after
  <2>6. t \in Nat /\ a <= t /\ t <= b
    BY <2>5
  <2> QED
    BY <1>2, <2>6 DEF a, b
<1>4. inner \in Seq(Nat) /\ Len(inner) = 1 /\ inner[1] = nodes[2]
  <2>1. inner = SubSeq(nodes, 2, 2) /\ 2 \in Int /\ \A i \in 2 .. 2 : nodes[i] \in Nat
    <3>1. Len(nodes) - 1 = 2
      BY <1>2
    <3>2. \A i \in 2 .. 2 : i = 2
      OBVIOUS
    <3>3. \A i \in 2 .. 2 : nodes[i] \in Nat
      BY <1>0, <3>2
    <3>4. inner = SubSeq(nodes, 2, 2)
      BY <3>1
    <3>5. 2 \in Int
      OBVIOUS
    <3> HIDE DEF inner
    <3> QED
      BY <3>3, <3>4, <3>5
  <2>2. /\ SubSeq(nodes, 2, 2) \in Seq(Nat)
        /\ Len(SubSeq(nodes, 2, 2)) = IF 2 <= 2 THEN 2 - 2 + 1 ELSE 0
        /\ \A i \in 1 .. 2 - 2 + 1 : SubSeq(nodes, 2, 2)[i] = nodes[2 + i - 1]
    BY <2>1, SubSeqProperties
  <2>3. 1 \in 1 .. 2 - 2 + 1 /\ 2 + 1 - 1 = 2
    OBVIOUS
  <2> HIDE DEF inner
  <2> QED
    BY <2>1, <2>2, <2>3
<1> HIDE DEF t, inner
<1>5. Increasing(inner)
  <2>1. DOMAIN inner = 1 .. 1 /\ \A i, j \in 1 .. 1 : ~(i < j)
    BY <1>4
  <2> QED
    BY <2>1 DEF Increasing
<1>6. index \in 0 .. 1 /\ (1 <= index <=> nodes[2] < t)
  <2>1. index \in 0 .. Len(inner) /\ \A i \in 1 .. Len(inner) : i <= index <=> inner[i] < t
    <3>1. inner \in Seq(Nat) /\ t \in Int
      BY <1>3, <1>4
    <3> QED
      BY <1>5, <3>1, IndexOfPrefix
  <2> QED
    BY <1>4, <2>1
<1>7. SplineAt(nodes, time) = Splines(nodes)[index + 1]
  BY DEF SplineAt, t, inner
<1> HIDE DEF index
<1>8. Splines(nodes) = [s \in 1 .. 2 |-> [start |-> nodes[s], end |-> nodes[s + 1]]]
  BY <1>2 DEF Splines
<1>10. CASE index = 0
  <2>1. SplineAt(nodes, time) = [start |-> nodes[1], end |-> nodes[2]]
    BY <1>7, <1>8, <1>10
  <2> QED
    BY <1>0, <1>3, <1>6, <1>10, <2>1 DEF t
<1>11. CASE index = 1
  <2>1. SplineAt(nodes, time) = [start |-> nodes[2], end |-> nodes[3]]
    BY <1>7, <1>8, <1>11
  <2> QED
    BY <1>0, <1>3, <1>6, <1>11, <2>1 DEF t
<1> QED
  BY <1>6, <1>10, <1>11

\* Lift-off and touch-down of a swing.
LEMMA SwingOfRole ==
  ASSUME NEW g, Input(g), g.lift \in Nat, NEW r \in Roles(g), ~r.contact
  PROVE  LET phase == PhaseOf(g, r)
         IN  /\ phase.contact = FALSE /\ phase.liftOff \in Nat /\ phase.touchDown \in Nat
             /\ phase.touchDown = Right(g, r)
             /\ r.k = 1 => phase.liftOff = g.lift /\ HasStart(g.contacts[1])
             /\ r.k # 1 => phase.liftOff = Left(g, r) /\ phase.liftOff < phase.touchDown
<1> DEFINE contacts == g.contacts
           k == r.k
           phase == PhaseOf(g, r)
<1>1. contacts \in Contacts /\ k \in 1 .. Len(contacts) /\ contacts[k].start # NoTime
  BY DEF Input, Roles, HasStart
<1>2. /\ phase.contact = FALSE /\ phase.touchDown = contacts[k].start
      /\ phase.liftOff = IF k = 1 THEN g.lift ELSE contacts[k - 1].end
  BY DEF PhaseOf, SwingPhase, LiftOff
<1>3. Right(g, r) = contacts[k].start /\ Left(g, r) = IF k = 1 THEN NoTime ELSE contacts[k - 1].end
  BY DEF Right, Left
<1> HIDE DEF contacts, k, phase
<1>4. contacts[k].start \in Nat /\ Len(contacts) \in Nat
  BY <1>1, ContactOrder
<1>5. k # 1 => contacts[k - 1].end \in Nat /\ contacts[k - 1].end < contacts[k].start
  <2> SUFFICES ASSUME k # 1 PROVE contacts[k - 1].end \in Nat /\ contacts[k - 1].end < contacts[k].start
    OBVIOUS
  <2> DEFINE h == k - 1
  <2>1. h \in 1 .. Len(contacts) /\ h < k /\ h # Len(contacts)
    BY <1>1, <1>4
  <2> HIDE DEF h
  <2>2. contacts[h].end \in Nat /\ contacts[h].end < contacts[k].start
    BY <1>1, <2>1, ContactOrder
  <2> QED
    BY <2>2 DEF h
<1>6. k = 1 => HasStart(contacts[1])
  BY <1>1 DEF HasStart
<1> QED
  BY <1>2, <1>3, <1>4, <1>5, <1>6 DEF contacts, k, phase

-----------------------------------------------------------------------------
(* The feet follow the schedule.                                           *)

\* A generation plans the schedule first, so that its steps are those of the planner.
LEMMA ReferencePlans ==
  /\ ReferenceInit => Init
  /\ [ReferenceNext]_<<vars, swingVars, reference>> => [Next]_vars
BY DEF ReferenceInit, SwingInit, ReferenceNext, Next, Generate, ScheduleAndSwing

LEMMA FeetInit == ReferenceInit => FeetInv
<1> SUFFICES ASSUME ReferenceInit PROVE FeetInv
  OBVIOUS
<1>1. /\ stage = "schedule"
      /\ \A leg \in Legs : lastContacts[leg].time = 0
                           /\ footPlans[leg].events = <<>> /\ footPlans[leg].phases = <<>>
  BY DEF ReferenceInit, SwingInit, Init
<1>2. <<>> \in Seq(Nat) /\ Len(<<>>) = 0 /\ DOMAIN <<>> = {}
  OBVIOUS
<1>3. \A leg \in Legs : KnownPlan(footPlans[leg], FinalTime)
  <2> SUFFICES ASSUME NEW leg \in Legs PROVE KnownPlan(footPlans[leg], FinalTime)
    OBVIOUS
  <2> DEFINE plan == footPlans[leg]
  <2>1. plan.events \in Seq(Nat) /\ Len(plan.events) = 0 /\ plan.phases = <<>>
    BY <1>1, <1>2
  <2>2. Increasing(plan.events)
    BY <1>1, <1>2 DEF Increasing
  <2> HIDE DEF plan
  <2>3. KnownPlan(plan, FinalTime)
    BY <2>1, <2>2 DEF KnownPlan
  <2> QED
    BY <2>3 DEF plan
<1> QED
  BY <1>1, <1>3 DEF FeetInv, FeetKnown, FeetFollow, Published

\* Every event of a plan is one of the schedule.
LEMMA EventsOfPlan ==
  ASSUME NEW leg \in Legs, Closed(events, modes), NEW footholds,
         NEW plan, NEW roles, Fits(PlanOf(leg, footholds), plan, roles), Input(PlanOf(leg, footholds)),
         NEW p \in 1 .. Len(plan.events)
  PROVE  \E i \in 1 .. Len(events) : events[i] = plan.events[p]
<1> DEFINE g == PlanOf(leg, footholds)
           contacts == ContactTimings(leg, events, modes)
           r == roles[p]
<1>1. /\ Len(roles) = Len(plan.events) + 1 /\ Len(plan.events) \in Nat
      /\ plan.events[p] \in Nat
  BY DEF Fits
<1>2. p \in 1 .. Len(roles) /\ p # Len(roles)
  BY <1>1
<1>3. r \in Roles(g) /\ plan.events[p] = Right(g, r)
  <2> HIDE DEF g
  <2> QED
    BY <1>2, RoleOfPhase DEF g
<1>4. g.contacts = contacts
  BY DEF PlanOf
<1> HIDE DEF g, r
<1>5. r.k \in 1 .. Len(contacts)
  BY <1>3, <1>4 DEF Roles
<1>6. Right(g, r) \in {contacts[r.k].start, contacts[r.k].end} \ {NoTime}
  BY <1>1, <1>3, <1>4 DEF Right, NoTime
<1>7. /\ HasStart(contacts[r.k]) => \E i \in 1 .. Len(events) : events[i] = contacts[r.k].start
      /\ HasEnd(contacts[r.k]) => \E i \in 1 .. Len(events) : events[i] = contacts[r.k].end
  <2>1. \A c \in 1 .. Len(contacts) :
          /\ HasStart(contacts[c]) => \E i \in 1 .. Len(events) : events[i] = contacts[c].start
          /\ HasEnd(contacts[c]) => \E i \in 1 .. Len(events) : events[i] = contacts[c].end
    BY ContactsOfSchedule
  <2> HIDE DEF contacts
  <2> QED
    BY <1>5, <2>1
<1> HIDE DEF contacts
<1> QED
  BY <1>3, <1>6, <1>7 DEF HasStart, HasEnd

\* What PlanWellFormed says of the phases: one more than the events, no foothold missing,
\* and increasing nodes in every swing that has a length. A swing that was over when the
\* horizon began may have none.
PhasesInOrder(plan) ==
  /\ Len(plan.phases) = Len(plan.events) + 1
  /\ \A p \in DOMAIN plan.phases :
       /\ plan.phases[p].foothold # NoFoothold
       /\ ~plan.phases[p].contact =>
            /\ plan.phases[p].touchDown > startTime => plan.phases[p].liftOff < plan.phases[p].touchDown
            /\ plan.phases[p].liftOff < plan.phases[p].touchDown =>
                 \A nodes \in Motions(plan.phases[p]) :
                   \A s \in DOMAIN Splines(nodes) : Splines(nodes)[s].start < Splines(nodes)[s].end

LEMMA PhasesFollow ==
  ASSUME PlannerInv, FeetInv, Published, NEW leg \in Legs
  PROVE  PhasesInOrder(footPlans[leg])
<1> DEFINE plan == footPlans[leg]
<1>1. PICK footholds : Follows(PlanOf(leg, footholds), plan)
  BY DEF FeetInv, FeetFollow
<1> DEFINE g == PlanOf(leg, footholds)
<1>2. /\ Len(plan.phases) = Len(plan.events) + 1 /\ DOMAIN plan.phases = 1 .. Len(plan.phases)
      /\ \A p \in 1 .. Len(plan.phases) : plan.phases[p].foothold # NoFoothold
  <2> HIDE DEF plan
  <2> QED
    BY <1>1, FollowsIsKnown
<1>3. PICK roles \in Seq(Roles(g)) : Fits(g, plan, roles)
  BY <1>1 DEF Follows
<1>4. /\ g.lift = lastContacts[leg].time /\ g.lift \in Nat /\ startTime \in Nat /\ Input(g)
      /\ g.contacts = ContactTimings(leg, events, modes)
      /\ HasStart(g.contacts[1]) => g.lift <= startTime
  BY <1>1 DEF PlanOf, FeetInv, FeetKnown, FeetFollow, PlannerInv, ClockInv, Follows
<1>5. Len(roles) = Len(plan.phases)
  BY <1>2, <1>3 DEF Fits
<1> HIDE DEF g, plan
<1>6. ASSUME NEW p \in 1 .. Len(plan.phases), ~plan.phases[p].contact
      PROVE  /\ plan.phases[p].touchDown > startTime => plan.phases[p].liftOff < plan.phases[p].touchDown
             /\ plan.phases[p].liftOff < plan.phases[p].touchDown =>
                  \A nodes \in Motions(plan.phases[p]) :
                    \A s \in DOMAIN Splines(nodes) : Splines(nodes)[s].start < Splines(nodes)[s].end
  <2> DEFINE r == roles[p]
             phase == plan.phases[p]
  <2>1. r \in Roles(g) /\ phase = PhaseOf(g, r)
    BY <1>3, <1>4, <1>5, RoleOfPhase
  <2>2. ~r.contact
    BY <1>6, <2>1 DEF PhaseOf, StancePhase
  <2> HIDE DEF r
  <2>3. /\ phase.liftOff \in Nat /\ phase.touchDown \in Nat
        /\ r.k = 1 => phase.liftOff = g.lift /\ HasStart(g.contacts[1])
        /\ r.k # 1 => phase.liftOff < phase.touchDown
    BY <1>4, <2>1, <2>2, SwingOfRole
  <2> HIDE DEF phase
  <2>4. phase.touchDown > startTime => phase.liftOff < phase.touchDown
    BY <1>4, <2>3
  <2>5. phase.liftOff < phase.touchDown =>
          \A nodes \in Motions(phase) :
            \A s \in DOMAIN Splines(nodes) : Splines(nodes)[s].start < Splines(nodes)[s].end
    BY <2>3, NodesIncrease
  <2> QED
    BY <2>4, <2>5 DEF phase
<1>7. PhasesInOrder(plan)
  BY <1>2, <1>6 DEF PhasesInOrder
<1> QED
  BY <1>7 DEF plan

\* What a foot does at a time, and what its constraint is.
FootInForce(leg, time) ==
  LET phase == FootPhase(footPlans[leg], time)
  IN  /\ phase.contact <=> leg \in ModeAt(time)
      /\ phase.contact \/ ReadsItsSpline(phase, time)
      /\ ConstraintAt(leg, time) \in {NoFoothold} \cup
           (IF phase.contact THEN {phase.foothold} ELSE {})

LEMMA TimesFollow ==
  ASSUME PlannerInv, FeetInv, Published, NEW leg \in Legs, NEW time \in HorizonTimes
  PROVE  FootInForce(leg, time)
<1> DEFINE plan == footPlans[leg]
           phase == FootPhase(plan, time)
           contacts == ContactTimings(leg, events, modes)
<1>1. PICK footholds : Follows(PlanOf(leg, footholds), plan)
  BY DEF FeetInv, FeetFollow
<1> DEFINE g == PlanOf(leg, footholds)
<1>2. PICK roles \in Seq(Roles(g)) : Fits(g, plan, roles) /\ Beyond(g, Last(roles))
  BY <1>1 DEF Follows
<1>3. /\ g.lift = lastContacts[leg].time /\ g.lift \in Nat /\ startTime \in Nat /\ Input(g)
      /\ g.contacts = contacts /\ g.final = FinalTime
      /\ HasStart(contacts[1]) => g.lift <= startTime
      /\ Closed(events, modes) /\ EndsAt(events, FinalTime)
      /\ \A mode \in 1 .. Len(events) : constraints[mode][leg] = Held(leg, mode)
  BY <1>1 DEF PlanOf, FeetInv, FeetKnown, FeetFollow, PlannerInv, ScheduleInv, ClockInv, Follows
<1>4. time \in Nat /\ startTime <= time /\ time <= FinalTime /\ 2 * time \in Int /\ FinalTime \in Nat
  BY <1>3, TimesAssumption DEF HorizonTimes, FinalTime
<1>5. phase = PhaseAtHalf(plan, 2 * time)
  BY DEF FootPhase
<1>6. PICK p \in 1 .. Len(roles) :
        /\ PhaseAtHalf(plan, 2 * time) = plan.phases[p]
        /\ Left(g, roles[p]) = NoTime \/ 2 * Left(g, roles[p]) < 2 * time
        /\ p # Len(roles) => 2 * time <= 2 * Right(g, roles[p])
  <2> HIDE DEF g, plan
  <2> QED
    BY <1>2, <1>3, <1>4, PhaseInForce
<1> DEFINE r == roles[p]
<1>7. /\ r \in Roles(g) /\ plan.phases[p] = PhaseOf(g, r)
      /\ p # Len(roles) => plan.events[p] = Right(g, r)
      /\ p = Len(roles) => r = Last(roles)
      /\ Left(g, r) = IF p = 1 THEN NoTime ELSE plan.events[p - 1]
  <2> HIDE DEF g, plan
  <2> QED
    BY <1>2, <1>3, RoleOfPhase
<1>8. /\ plan.events \in Seq(Nat) /\ Increasing(plan.events) /\ Len(plan.events) \in Nat
      /\ Len(roles) = Len(plan.events) + 1 /\ DOMAIN plan.events = 1 .. Len(plan.events)
      /\ \A i \in 1 .. Len(plan.events) : plan.events[i] \in Nat
  BY <1>2 DEF Fits
<1> HIDE DEF g, plan, r
<1>9. Left(g, r) < time /\ Left(g, r) \in Int
  <2>1. Left(g, r) \in Nat \cup {NoTime}
    <3>1. p # 1 => p - 1 \in 1 .. Len(plan.events)
      BY <1>8
    <3> QED
      BY <1>7, <1>8, <3>1
  <2> QED
    BY <1>4, <1>6, <2>1 DEF NoTime, r
<1>10. Right(g, r) = NoTime \/ time <= Right(g, r)
  <2>1. CASE p # Len(roles)
    <3>1. p \in 1 .. Len(plan.events)
      BY <1>8, <2>1
    <3>2. Right(g, r) \in Nat
      BY <1>7, <1>8, <2>1, <3>1
    <3> QED
      BY <1>4, <1>6, <2>1, <3>2 DEF r
  <2>2. CASE p = Len(roles)
    <3>1. Right(g, r) = NoTime \/ Right(g, r) > FinalTime
      BY <1>2, <1>3, <1>7, <2>2 DEF Beyond
    <3>2. Right(g, r) \in Nat \cup {NoTime}
      <4>1. r.k \in 1 .. Len(g.contacts) /\ g.contacts \in Contacts
        BY <1>3, <1>7 DEF Roles, Input
      <4>2. g.contacts[r.k].start \in Nat \cup {NoTime} /\ g.contacts[r.k].end \in Nat \cup {NoTime}
        BY <4>1, ContactOrder
      <4> QED
        BY <4>2 DEF Right
    <3> QED
      BY <1>4, <3>1, <3>2
  <2> QED
    BY <2>1, <2>2
<1>11. phase.contact = r.contact /\ phase = PhaseOf(g, r)
  <2>1. phase = PhaseOf(g, r)
    BY <1>5, <1>6, <1>7 DEF r
  <2>2. r.contact \in BOOLEAN
    BY <1>7 DEF Roles
  <2>3. PhaseOf(g, r).contact = IF r.contact THEN TRUE ELSE FALSE
    BY DEF PhaseOf, StancePhase, SwingPhase
  <2> HIDE DEF phase
  <2> QED
    BY <2>1, <2>2, <2>3
<1>12. phase.contact <=> leg \in ModeAt(time)
  <2>1. r.contact <=> \E c \in 1 .. Len(g.contacts) : During(g.contacts[c], time)
    BY <1>3, <1>4, <1>7, <1>9, <1>10, RoleDuring
  <2>2. leg \in modes[IndexInTimes(events, time) + 1] <=>
          \E c \in 1 .. Len(contacts) : During(contacts[c], time)
    BY <1>3, <1>4, ContactsOfSchedule
  <2> QED
    BY <1>3, <1>11, <2>1, <2>2 DEF ModeAt
<1>13. phase.contact \/ ReadsItsSpline(phase, time)
  <2> SUFFICES ASSUME ~r.contact PROVE ReadsItsSpline(phase, time)
    BY <1>11
  <2>1. /\ phase.liftOff \in Nat /\ phase.touchDown \in Nat /\ phase.touchDown = Right(g, r)
        /\ r.k = 1 => phase.liftOff = g.lift /\ HasStart(g.contacts[1])
        /\ r.k # 1 => phase.liftOff = Left(g, r)
    BY <1>3, <1>7, <1>11, SwingOfRole
  <2> HIDE DEF phase
  <2>2. phase.liftOff <= time
    BY <1>3, <1>4, <1>9, <2>1
  <2>3. time <= phase.touchDown
    BY <1>4, <1>10, <2>1 DEF NoTime
  <2> QED
    BY <1>4, <2>1, <2>2, <2>3, SplineSpans
<1>14. ConstraintAt(leg, time) \in {NoFoothold} \cup (IF phase.contact THEN {phase.foothold} ELSE {})
  <2> DEFINE index == IndexInTimes(events, time)
             mode == index + 1
  <2>1. /\ events \in Seq(Nat) /\ Increasing(events) /\ Len(events) \in Nat
        /\ DOMAIN events = 1 .. Len(events) /\ \A i \in 1 .. Len(events) : events[i] \in Nat
    BY <1>3 DEF Closed, WellFormed
  <2>2. index \in 0 .. Len(events) /\ \A i \in 1 .. Len(events) : i <= index <=> events[i] < time
    <3>1. time \in Int
      BY <1>4
    <3> QED
      BY <2>1, <3>1, IndexOfPrefix
  <2> HIDE DEF index
  <2>3. mode \in 1 .. Len(events) /\ mode \in DOMAIN events
    <3>1. Len(events) \in DOMAIN events /\ events[Len(events)] \in Nat
      BY <1>3, <2>1 DEF Closed
    <3>2. events[Len(events)] >= FinalTime
      BY <1>3, <3>1 DEF EndsAt
    <3>3. ~(Len(events) <= index)
      BY <1>4, <2>1, <2>2, <3>1, <3>2
    <3> QED
      BY <2>1, <2>2, <3>3
  <2>4. ConstraintAt(leg, time) = Held(leg, mode)
    BY <1>3, <2>3 DEF ConstraintAt, index
  <2>5. \A x \in 1 .. Len(events) : events[x] < time <=> events[x] < events[mode]
    <3> SUFFICES ASSUME NEW x \in 1 .. Len(events) PROVE events[x] < time <=> events[x] < events[mode]
      OBVIOUS
    <3>1. /\ x < mode => events[x] < events[mode]
          /\ mode < x => events[mode] < events[x]
      BY <2>1, <2>3 DEF Increasing
    <3>2. events[x] \in Nat /\ events[mode] \in Nat /\ (x = mode \/ x < mode \/ mode < x) /\ (x <= index <=> x < mode)
      BY <2>1, <2>2, <2>3
    <3> HIDE DEF mode
    <3> QED
      BY <2>2, <3>1, <3>2
  <2>6. \A i \in 1 .. Len(plan.events) : 2 * plan.events[i] < 2 * time <=> 2 * plan.events[i] < 2 * events[mode]
    <3> SUFFICES ASSUME NEW i \in 1 .. Len(plan.events)
                 PROVE  2 * plan.events[i] < 2 * time <=> 2 * plan.events[i] < 2 * events[mode]
      OBVIOUS
    <3>1. PICK x \in 1 .. Len(events) : events[x] = plan.events[i]
      BY <1>2, <1>3, EventsOfPlan DEF g
    <3>2. plan.events[i] < time <=> plan.events[i] < events[mode]
      BY <2>5, <3>1
    <3>3. plan.events[i] \in Nat /\ events[mode] \in Nat
      BY <1>8, <2>1, <2>3
    <3>4. PICK a \in Nat : a = plan.events[i]
      BY <3>3
    <3>5. PICK b \in Nat : b = events[mode]
      BY <3>3
    <3>6. time \in Int /\ (a < time <=> a < b)
      BY <1>4, <3>2, <3>4, <3>5
    <3>7. 2 * a < 2 * time <=> 2 * a < 2 * b
      BY <3>6
    <3> HIDE DEF mode
    <3> QED
      BY <3>4, <3>5, <3>7
  <2>7. FootPhase(plan, events[mode]) = phase
    <3> DEFINE E == events[mode]
    <3> HIDE DEF E
    <3>1. {i \in DOMAIN plan.events : 2 * plan.events[i] < 2 * time} =
            {i \in DOMAIN plan.events : 2 * plan.events[i] < 2 * E}
      BY <1>8, <2>6 DEF E
    <3>2. FootPhase(plan, E) = phase
      BY <3>1 DEF FootPhase, PhaseAtHalf
    <3> QED
      BY <3>2 DEF E
  <2> HIDE DEF mode
  <2>8. Held(leg, mode) \in {NoFoothold} \cup (IF phase.contact THEN {phase.foothold} ELSE {})
    BY <2>7 DEF Held, plan
  <2> QED
    BY <2>4, <2>8
<1> QED
  BY <1>12, <1>13, <1>14 DEF FootInForce, plan

\* The feet do what the mode schedule says (LegsFollowSchedule), for a swing that was
\* over when the horizon began without its length.
FeetFollowSchedule ==
  Published =>
    \A leg \in Legs :
      PhasesInOrder(footPlans[leg]) /\ \A time \in HorizonTimes : FootInForce(leg, time)

LEMMA InvFollows == PlannerInv /\ FeetInv => FeetFollowSchedule
BY PhasesFollow, TimesFollow DEF FeetFollowSchedule

\* Whatever gaits are asked for and however the legs go through them, the plan of a leg
\* and the mode schedule agree at every time of the horizon: the foot stands exactly when
\* the mode has it in contact, a swing is read between its lift-off and its touch-down,
\* no phase lacks a foothold, and the constraint is that of the stance the leg is in.
THEOREM FeetAlwaysFollow == ReferenceSpec => []FeetFollowSchedule
<1>1. ReferenceInit => PlannerInv /\ FeetInv
  BY ReferencePlans, PlannerInit, FeetInit
<1>2. PlannerInv /\ FeetInv /\ [ReferenceNext]_<<vars, swingVars, reference>> => PlannerInv' /\ FeetInv'
  BY ReferencePlans, PlannerStep, FeetStep
<1> QED
  BY <1>1, <1>2, InvFollows, PTL DEF ReferenceSpec

\* A swing that was over when the horizon began has a length nevertheless.
LandedSwingsLast ==
  Published =>
    \A leg \in Legs : \A p \in DOMAIN footPlans[leg].phases :
      LET phase == footPlans[leg].phases[p]
      IN  ~phase.contact /\ ~(phase.touchDown > startTime) => phase.liftOff < phase.touchDown

LEMMA FollowWithLength == FeetFollowSchedule /\ LandedSwingsLast => LegsFollowSchedule
<1> SUFFICES ASSUME FeetFollowSchedule, LandedSwingsLast, Published, NEW leg \in Legs
             PROVE  /\ PlanWellFormed(footPlans[leg])
                    /\ \A time \in HorizonTimes : FootInForce(leg, time)
  BY DEF LegsFollowSchedule, FootInForce
<1>1. PhasesInOrder(footPlans[leg]) /\ \A time \in HorizonTimes : FootInForce(leg, time)
  BY DEF FeetFollowSchedule
<1>2. \A p \in DOMAIN footPlans[leg].phases : ~footPlans[leg].phases[p].contact =>
        footPlans[leg].phases[p].liftOff < footPlans[leg].phases[p].touchDown
  BY <1>1 DEF PhasesInOrder, LandedSwingsLast
<1>3. PlanWellFormed(footPlans[leg])
  BY <1>1, <1>2 DEF PhasesInOrder, PlanWellFormed
<1> QED
  BY <1>1, <1>3

\* The assert of QuinticSwing is all that is left of LegsFollowSchedule: it holds as long
\* as no leg is planned to land at the very start of a horizon without having lifted off
\* before.
THEOREM FollowWhileSwingsLast == ReferenceSpec /\ []LandedSwingsLast => []LegsFollowSchedule
<1> QED
  BY FeetAlwaysFollow, FollowWithLength, PTL

\* In the larger system too, every mode schedule handed over is well formed
\* (WellFormedSchedule).
THEOREM ReferenceWellFormed == ReferenceSpec => []WellFormedSchedule
<1>1. ReferenceInit => PlannerInv
  BY ReferencePlans, PlannerInit
<1>2. PlannerInv /\ [ReferenceNext]_<<vars, swingVars, reference>> => PlannerInv'
  BY ReferencePlans, PlannerStep
<1> QED
  BY <1>1, <1>2, InvIsWellFormed, PTL DEF ReferenceSpec

-----------------------------------------------------------------------------
(* Footholds are kept.                                                     *)

\* Either the solver advances between generations or a contact that goes on is taken to
\* end after the horizon.
Advances == 0 \notin Steps \/ Extension # 0

\* A generation begins when the last one began or later.
LaterInv ==
  \A leg \in Legs : footPlans[leg].phases # <<>> =>
    startTime <= clock /\ (0 \notin Steps => startTime < clock)

LEMMA LaterStep ==
  ASSUME PlannerInv, LaterInv, [ReferenceNext]_<<vars, swingVars, reference>>
  PROVE  LaterInv'
<1>1. clock \in Nat
  BY DEF PlannerInv, ClockInv
<1>2. CASE Generate
  <2>1. PICK step \in Steps : clock' = clock + step
    BY <1>2 DEF Generate, ScheduleAndSwing, Schedule
  <2>2. startTime' = clock
    BY <1>2 DEF Generate, ScheduleAndSwing, Schedule, GetModeSchedule
  <2>3. step \in Nat /\ (0 \notin Steps => step # 0)
    BY TimesAssumption
  <2> QED
    BY <1>1, <2>1, <2>2, <2>3 DEF LaterInv
<1>3. CASE (ChangeGait \/ KeepGait) /\ UNCHANGED <<swingVars, reference>>
  <2>1. startTime' = startTime /\ clock' = clock /\ footPlans' = footPlans
    BY <1>3 DEF ChangeGait, KeepGait, UpdateDynamicParameters, plannerVars, swingVars
  <2> QED
    BY <2>1 DEF LaterInv
<1>4. CASE UNCHANGED <<vars, swingVars, reference>>
  BY <1>4 DEF vars, plannerVars, swingVars, LaterInv
<1> QED
  BY <1>2, <1>3, <1>4 DEF ReferenceNext

\* A contact of the new plan that begins where the last plan had a stance begin lasts past
\* its start, and the middle of it is in that stance.
LEMMA MiddleInStance ==
  ASSUME NEW plan, NEW known \in Nat, KnownPlan(plan, known), plan.phases # <<>>,
         NEW q \in 2 .. Len(plan.phases), NEW end \in Nat, end > plan.events[q - 1],
         q \in DOMAIN plan.events => plan.events[q] = end
  PROVE  PhaseAtHalf(plan, end + plan.events[q - 1]) = plan.phases[q]
<1> DEFINE times == plan.events
           start == times[q - 1]
           twice == end + start
           n == Cardinality({i \in DOMAIN times : 2 * times[i] < twice})
<1>1. /\ times \in Seq(Nat) /\ Increasing(times) /\ Len(times) \in Nat /\ DOMAIN times = 1 .. Len(times)
      /\ Len(plan.phases) = Len(times) + 1 /\ \A i \in 1 .. Len(times) : times[i] \in Nat
  <2>1. times \in Seq(Nat) /\ Increasing(times) /\ Len(plan.phases) = Len(times) + 1
    BY DEF KnownPlan
  <2> HIDE DEF times
  <2> QED
    BY <2>1
<1>2. q - 1 \in 1 .. Len(times) /\ start \in Nat /\ twice \in Int /\ q \in Nat
  BY <1>1
<1> HIDE DEF n, times
<1>3. n \in 0 .. Len(times) /\ \A i \in 1 .. Len(times) : i <= n <=> 2 * times[i] < twice
  <2> HIDE DEF twice
  <2> QED
    BY <1>1, <1>2, IndexAtHalf DEF n
<1>4. q - 1 <= n
  <2>1. 2 * times[q - 1] < twice
    BY <1>2 DEF times
  <2> QED
    BY <1>2, <1>3, <2>1
<1>5. ~(q <= n)
  <2> SUFFICES ASSUME q <= n PROVE FALSE
    OBVIOUS
  <2>1. q \in 1 .. Len(times) /\ times[q] = end
    BY <1>1, <1>2, <1>3 DEF times
  <2>2. 2 * end < twice
    BY <1>3, <2>1
  <2> QED
    BY <1>2, <2>2 DEF times
<1>6. n + 1 = q
  <2>1. n \in Nat /\ q \in Nat
    BY <1>1, <1>2, <1>3
  <2> QED
    BY <1>4, <1>5, <2>1
<1>7. PhaseAtHalf(plan, twice) = plan.phases[n + 1]
  BY DEF PhaseAtHalf, n, times
<1> QED
  BY <1>6, <1>7 DEF times

LEMMA FootholdKept ==
  ASSUME Advances, PlannerInv, FeetInv, LaterInv, ScheduleAndSwing, NEW leg \in Legs,
         NEW old \in Stances(footPlans[leg]), NEW new \in Stances(footPlans'[leg]),
         new.start = old.start, new.start < clock + TimeDeadzone, old.end \in {NoTime, new.end}
  PROVE  new.foothold = old.foothold
<1> DEFINE plan == footPlans[leg]
           next == footPlans'[leg]
           j == TaskOf(leg)
           g == PlanningOf(j)
<1>1. PICK q \in DOMAIN plan.phases :
        /\ q > 1 /\ plan.phases[q].contact
        /\ old.start = plan.events[q - 1] /\ old.foothold = plan.phases[q].foothold
        /\ old.end = IF q \in DOMAIN plan.events THEN plan.events[q] ELSE NoTime
  BY DEF Stances
<1>2. PICK p \in DOMAIN next.phases :
        /\ p > 1 /\ next.phases[p].contact
        /\ new.start = next.events[p - 1] /\ new.foothold = next.phases[p].foothold
        /\ new.end = IF p \in DOMAIN next.events THEN next.events[p] ELSE NoTime
  BY DEF Stances
<1>3. /\ Task(j) /\ next = SwingTrajectories(j.contacts, FootholdsOf(j), j.last, j.final)
      /\ clock \in Nat
  BY SwingPlanned DEF FeetInv
<1>4. /\ j.plan = plan /\ j.known = FinalTime /\ j.start = clock /\ j.final = clock + Horizon
      /\ KnownPlan(plan, FinalTime) /\ FinalTime \in Nat /\ j.final \in Nat /\ Horizon \in Nat
  BY <1>3, TimesAssumption DEF TaskOf, Task
<1> HIDE DEF j, plan, next
<1>5. Follows(g, next) /\ g.contacts = j.contacts /\ g.footholds = FootholdsOf(j) /\ g.final = j.final
  <2>1. Follows(g, next)
    BY <1>3, LegPlanned
  <2> QED
    BY <2>1 DEF PlanningOf
<1> HIDE DEF g
<1>6. PICK roles \in Seq(Roles(g)) : Fits(g, next, roles) /\ Input(g)
  BY <1>5 DEF Follows
<1>7. /\ DOMAIN next.phases = 1 .. Len(next.phases) /\ Len(next.phases) = Len(next.events) + 1
      /\ Len(next.events) \in Nat /\ next.events \in Seq(Nat) /\ DOMAIN next.events = 1 .. Len(next.events)
      /\ Len(roles) = Len(next.events) + 1 /\ \A i \in 1 .. Len(next.events) : next.events[i] \in Nat
  BY <1>5, <1>6, FollowsIsKnown DEF Fits
<1> DEFINE r == roles[p]
           contact == j.contacts[r.k]
<1>8. /\ r \in Roles(g) /\ next.phases[p] = PhaseOf(g, r) /\ p # 1 /\ p \in Nat
      /\ Left(g, r) = next.events[p - 1] /\ Left(g, r) <= g.final
      /\ p # Len(roles) => next.events[p] = Right(g, r)
  <2>1. p \in 1 .. Len(roles) /\ p # 1
    BY <1>2, <1>7
  <2> QED
    BY <1>6, <2>1, RoleOfPhase
<1>9. r.contact /\ new.foothold = FootholdAt(FootholdsOf(j), r.k)
      /\ new.start = contact.start /\ (p # Len(roles) => next.events[p] = contact.end)
  <2>1. r.contact
    BY <1>2, <1>8 DEF PhaseOf, SwingPhase
  <2> QED
    BY <1>2, <1>5, <1>8, <2>1 DEF PhaseOf, StancePhase, Left, Right
<1>10. r.k \in Selected(j.contacts, j.final) /\ r.k \in 1 .. Len(j.contacts)
  BY <1>5, <1>6, <1>8, FootholdSelected DEF Roles
<1> HIDE DEF r
<1>11. /\ contact.start \in Nat /\ HasStart(contact) /\ contact.end \in Nat \cup {NoTime}
       /\ contact.end # NoTime => contact.start < contact.end
  <2>1. new.start \in Nat
    <3>1. p - 1 \in 1 .. Len(next.events)
      BY <1>2, <1>7
    <3> QED
      BY <1>2, <1>7, <3>1
  <2>2. contact.start \in Nat /\ contact.start # NoTime
    BY <1>9, <2>1 DEF NoTime
  <2>3. /\ contact.end \in Nat \cup {NoTime}
        /\ contact.start # NoTime /\ contact.end # NoTime => contact.start < contact.end
    BY <1>3, <1>10, ContactOrder DEF Task
  <2> QED
    BY <2>2, <2>3 DEF HasStart
<1> HIDE DEF contact
<1> DEFINE end == ContactEnd(contact, j.final)
<1>12. /\ plan.events \in Seq(Nat) /\ Len(plan.events) \in Nat /\ DOMAIN plan.events = 1 .. Len(plan.events)
       /\ plan.phases # <<>> /\ Len(plan.phases) = Len(plan.events) + 1
       /\ q - 1 \in 1 .. Len(plan.events) /\ q \in 2 .. Len(plan.phases)
       /\ plan.events[q - 1] <= FinalTime /\ plan.events[q - 1] = contact.start
  <2>1. plan.phases # <<>>
    BY <1>1
  <2>2. /\ plan.events \in Seq(Nat) /\ Len(plan.events) \in Nat /\ DOMAIN plan.events = 1 .. Len(plan.events)
        /\ Len(plan.phases) = Len(plan.events) + 1
        /\ \A i \in 1 .. Len(plan.events) : plan.events[i] <= FinalTime
    BY <1>4, <2>1 DEF KnownPlan
  <2>3. q \in 1 .. Len(plan.phases)
    BY <1>1, <1>4, <2>1 DEF KnownPlan
  <2>4. q - 1 \in 1 .. Len(plan.events) /\ q \in 2 .. Len(plan.phases)
    BY <1>1, <2>2, <2>3
  <2> QED
    BY <1>1, <1>9, <2>1, <2>2, <2>4
<1>13. plan.events[q - 1] \in Nat /\ (q \in DOMAIN plan.events => plan.events[q] \in Nat)
  <2>1. \A S : \A s \in Seq(S) : \A i \in 1 .. Len(s) : s[i] \in S
    OBVIOUS
  <2>2. \A i \in 1 .. Len(plan.events) : plan.events[i] \in Nat
    BY <1>12, <2>1
  <2> QED
    BY <1>12, <2>2
<1>14. q \in DOMAIN plan.events => contact.end = plan.events[q]
  <2> SUFFICES ASSUME q \in DOMAIN plan.events PROVE contact.end = plan.events[q]
    OBVIOUS
  <2>1. old.end = plan.events[q] /\ old.end # NoTime
    BY <1>1, <1>13 DEF NoTime
  <2>2. new.end = plan.events[q] /\ new.end # NoTime
    BY <2>1
  <2>3. p \in DOMAIN next.events /\ new.end = next.events[p]
    BY <1>2, <2>2
  <2>4. p # Len(roles)
    BY <1>7, <1>8, <2>3
  <2> QED
    BY <1>9, <2>2, <2>3, <2>4
<1>15. end \in Nat /\ end > contact.start /\ (q \in DOMAIN plan.events => end = plan.events[q])
  <2>1. CASE contact.end # NoTime
    <3>1. end = contact.end /\ end \in Nat /\ contact.start < end
      BY <1>11, <2>1 DEF ContactEnd, HasEnd
    <3> QED
      BY <1>11, <1>14, <3>1
  <2>2. CASE contact.end = NoTime
    <3> DEFINE ends == {j.final + Extension, contact.start}
               n == j.final + Extension + contact.start
    <3>1. Extension \in Nat /\ j.final + Extension \in Nat
      BY <1>4, SwingSettingsAssumption
    <3>2. end = Max(ends)
      BY <2>2 DEF ContactEnd, HasEnd
    <3>3. n \in Nat /\ ends \in SUBSET (0 .. n) /\ ends # {} /\ j.final + Extension \in ends
      BY <1>4, <1>11, <3>1
    <3>4. \A x \in ends : x \in Nat
      BY <1>11, <3>1
    <3> HIDE DEF ends, n
    <3>5. Max(ends) \in ends /\ \A x \in ends : x <= Max(ends)
      BY <3>3, MaxOfNumbers
    <3>6. end \in Nat /\ j.final + Extension <= end
      BY <3>2, <3>3, <3>4, <3>5
    <3>7. startTime <= clock /\ (0 \notin Steps => startTime < clock)
      BY <1>12 DEF LaterInv, plan
    <3>8. startTime \in Nat /\ FinalTime = startTime + Horizon /\ j.final = clock + Horizon
      BY <1>4 DEF FinalTime, PlannerInv, ClockInv
    <3>9. contact.start < j.final + Extension
      <4>1. PICK s \in Nat : s = contact.start
        BY <1>11
      <4>2. s <= startTime + Horizon
        BY <1>12, <3>8, <4>1
      <4>3. startTime < clock \/ (startTime <= clock /\ Extension # 0)
        BY <3>7 DEF Advances
      <4>4. s < clock + Horizon + Extension
        BY <1>3, <1>4, <3>1, <3>8, <4>2, <4>3
      <4> QED
        BY <3>8, <4>1, <4>4
    <3>10. end > contact.start
      BY <1>11, <3>1, <3>6, <3>9, <1>4
    <3> QED
      BY <1>13, <1>14, <2>2, <3>6, <3>10 DEF NoTime
  <2> QED
    BY <2>1, <2>2
<1> HIDE DEF end
<1>16. PhaseAtHalf(plan, end + contact.start) = plan.phases[q]
  <2>1. end > plan.events[q - 1] /\ (q \in DOMAIN plan.events => plan.events[q] = end)
    BY <1>12, <1>15
  <2>2. PhaseAtHalf(plan, end + plan.events[q - 1]) = plan.phases[q]
    BY <1>4, <1>12, <1>15, <2>1, MiddleInStance
  <2> QED
    BY <1>12, <2>2
<1>17. FootholdAt(FootholdsOf(j), r.k) = plan.phases[q].foothold
  <2>1. j.contacts[r.k].start - j.start < TimeDeadzone
    <3>1. contact.start < clock + TimeDeadzone
      BY <1>9
    <3> QED
      BY <1>3, <1>4, <1>11, <3>1, SwingSettingsAssumption DEF contact
  <2>2. HasStart(j.contacts[r.k])
    BY <1>11 DEF contact
  <2>3. PhaseAtHalf(j.plan, ContactEnd(j.contacts[r.k], j.final) + j.contacts[r.k].start) = plan.phases[q]
    BY <1>4, <1>16 DEF end, contact
  <2>4. j.plan.phases # <<>> /\ plan.phases[q].contact
    BY <1>1, <1>4, <1>12
  <2> QED
    BY <1>3, <1>10, <2>1, <2>2, <2>3, <2>4, FootholdsChosen
<1> QED
  BY <1>1, <1>9, <1>17

\* A foothold about to be stepped on stays where it is (KeepsFootholds), whatever gait
\* is asked for, unless a generation can begin when the last one did with a contact that
\* is taken to end with the horizon: the middle of it is then its start, before which the
\* last plan had a swing.
THEOREM FootholdsStay ==
  ASSUME Advances
  PROVE  ReferenceSpec => KeepsFootholds
<1> DEFINE Kept_ ==
      stage = "schedule" =>
        \A leg \in Legs :
          \A old \in Stances(footPlans[leg]), new \in Stances(footPlans'[leg]) :
            ( /\ new.start = old.start
              /\ new.start < clock + TimeDeadzone
              /\ old.end \in {NoTime, new.end} )
            => new.foothold = old.foothold
<1>1. ReferenceInit => PlannerInv /\ FeetInv /\ LaterInv
  <2>1. ReferenceInit => LaterInv
    BY DEF ReferenceInit, SwingInit, LaterInv
  <2> QED
    BY <2>1, ReferencePlans, PlannerInit, FeetInit
<1>2. PlannerInv /\ FeetInv /\ LaterInv /\ [ReferenceNext]_<<vars, swingVars, reference>>
        => PlannerInv' /\ FeetInv' /\ LaterInv'
  BY ReferencePlans, PlannerStep, FeetStep, LaterStep
<1>3. PlannerInv /\ FeetInv /\ LaterInv /\ [ReferenceNext]_<<vars, swingVars, reference>>
        => [Kept_]_<<vars, swingVars>>
  <2> SUFFICES ASSUME PlannerInv, FeetInv, LaterInv, stage = "schedule",
                      ReferenceNext, NEW leg \in Legs,
                      NEW old \in Stances(footPlans[leg]), NEW new \in Stances(footPlans'[leg]),
                      new.start = old.start, new.start < clock + TimeDeadzone,
                      old.end \in {NoTime, new.end}
               PROVE  new.foothold = old.foothold
    OBVIOUS
  <2>1. ScheduleAndSwing
    BY DEF ReferenceNext, ChangeGait, KeepGait, Generate
  <2> QED
    BY <2>1, FootholdKept
<1> QED
  BY <1>1, <1>2, <1>3, PTL DEF ReferenceSpec, KeepsFootholds

-----------------------------------------------------------------------------
(* The samples.                                                            *)

\* Division of numbers.
LEMMA Quotient ==
  ASSUME NEW n \in Nat, NEW d \in Nat \ {0}
  PROVE  /\ n \div d \in Nat /\ (n \div d) * d <= n /\ n < (n \div d) * d + d
         /\ d <= n => n \div d # 0
<1>1. n \div d \in Nat /\ n % d \in 0 .. d - 1 /\ n = d * (n \div d) + (n % d)
  OBVIOUS
<1>2. d * (n \div d) = (n \div d) * d /\ (n \div d) * d \in Nat
  BY <1>1
<1>3. (n \div d) * d <= n /\ n < (n \div d) * d + d
  BY <1>1, <1>2
<1>4. d <= n => n \div d # 0
  <2> SUFFICES ASSUME d <= n, n \div d = 0 PROVE FALSE
    OBVIOUS
  <2>1. (n \div d) * d = 0
    OBVIOUS
  <2> QED
    BY <1>3, <2>1
<1> QED
  BY <1>1, <1>3, <1>4

\* Samples from a time on, at most so far apart.
SampledFrom(times, start, gap) ==
  /\ times \in Seq(Nat) /\ times # <<>> /\ times[1] = start /\ Increasing(times)
  /\ \A i \in 2 .. Len(times) : times[i] - times[i - 1] \in 1 .. gap

LEMMA BaseSamples ==
  ASSUME NEW start \in Nat, NEW final, final = start + Horizon
  PROVE  LET times == BaseTimes(start, final)
         IN  /\ SampledFrom(times, start, DeltaTime) /\ Len(times) > 1
             /\ Last(times) <= final /\ Last(times) > final - DeltaTime
             /\ \A i \in 1 .. Len(times) : times[i] = start + (i - 1) * DeltaTime
             /\ \A i \in 2 .. Len(times) : times[i] = times[i - 1] + DeltaTime
<1> DEFINE q == Horizon \div DeltaTime
           times == BaseTimes(start, final)
<1>1. Horizon \in Nat /\ DeltaTime \in Nat \ {0} /\ DeltaTime <= Horizon
  BY TimesAssumption, SamplingAssumption
<1>2. /\ q \in Nat /\ q * DeltaTime <= Horizon /\ Horizon < q * DeltaTime + DeltaTime /\ q # 0
  BY <1>1, Quotient
<1>3. times = [i \in 1 .. q + 1 |-> start + (i - 1) * DeltaTime]
  BY <1>1 DEF BaseTimes
<1> HIDE DEF q, times
<1>4. \A i \in 1 .. q + 1 : (i - 1) * DeltaTime \in Nat /\ start + (i - 1) * DeltaTime \in Nat
  BY <1>1, <1>2
<1>5. times \in Seq(Nat) /\ Len(times) = q + 1 /\ DOMAIN times = 1 .. q + 1 /\ times # <<>>
  <2>1. times \in [1 .. q + 1 -> Nat]
    BY <1>3, <1>4
  <2> QED
    BY <1>2, <2>1
<1>6. \A i \in 1 .. q + 1 : times[i] = start + (i - 1) * DeltaTime
  BY <1>3
<1>7. times[1] = start /\ Last(times) = start + q * DeltaTime
  BY <1>1, <1>2, <1>5, <1>6 DEF Last
<1>8. \A i \in 2 .. q + 1 : times[i] = times[i - 1] + DeltaTime
  <2> SUFFICES ASSUME NEW i \in 2 .. q + 1 PROVE times[i] = times[i - 1] + DeltaTime
    OBVIOUS
  <2>1. times[i] = start + (i - 1) * DeltaTime /\ times[i - 1] = start + ((i - 1) - 1) * DeltaTime
    BY <1>2, <1>6
  <2>2. i - 1 \in Nat /\ ((i - 1) - 1) * DeltaTime = (i - 1) * DeltaTime - DeltaTime
    BY <1>1
  <2> QED
    BY <1>1, <1>4, <2>1, <2>2
<1>9. Increasing(times)
  <2> SUFFICES ASSUME NEW i \in 1 .. q + 1, NEW j \in 1 .. q + 1, i < j PROVE times[i] < times[j]
    BY <1>5 DEF Increasing
  <2>1. (i - 1) * DeltaTime < (j - 1) * DeltaTime
    <3>1. j - i \in Nat \ {0} /\ (j - 1) * DeltaTime = (i - 1) * DeltaTime + (j - i) * DeltaTime
      BY <1>1
    <3>2. (j - i) * DeltaTime > 0
      BY <1>1, <3>1
    <3> QED
      BY <1>1, <1>4, <3>1, <3>2
  <2> QED
    BY <1>4, <1>6, <2>1
<1>10. \A i \in 2 .. q + 1 : times[i] - times[i - 1] \in 1 .. DeltaTime
  <2> SUFFICES ASSUME NEW i \in 2 .. q + 1 PROVE times[i] - times[i - 1] \in 1 .. DeltaTime
    OBVIOUS
  <2>1. times[i - 1] \in Nat /\ times[i] = times[i - 1] + DeltaTime
    BY <1>2, <1>5, <1>8
  <2> QED
    BY <1>1, <2>1
<1>11. SampledFrom(times, start, DeltaTime)
  BY <1>5, <1>7, <1>9, <1>10 DEF SampledFrom
<1>12. /\ Len(times) > 1 /\ Last(times) <= final /\ Last(times) > final - DeltaTime
  BY <1>1, <1>2, <1>5, <1>7
<1> QED
  BY <1>5, <1>6, <1>8, <1>11, <1>12 DEF times

LEMMA JoinedThree ==
  ASSUME NEW s \in Seq(Nat), NEW t \in Seq(Nat), NEW u \in Seq(Nat)
  PROVE  /\ s \o t \o u \in Seq(Nat) /\ Len(s \o t \o u) = Len(s) + Len(t) + Len(u)
         /\ \A i \in 1 .. Len(s) : (s \o t \o u)[i] = s[i]
         /\ \A i \in Len(s) + 1 .. Len(s) + Len(t) : (s \o t \o u)[i] = t[i - Len(s)]
         /\ \A i \in 1 .. Len(u) : (s \o t \o u)[Len(s) + Len(t) + i] = u[i]
<1>1. \A p, q \in Seq(Nat) :
        /\ p \o q \in Seq(Nat) /\ Len(p \o q) = Len(p) + Len(q)
        /\ Len(p) \in Nat /\ Len(q) \in Nat
        /\ \A i \in 1 .. Len(p) : (p \o q)[i] = p[i]
        /\ \A i \in Len(p) + 1 .. Len(p) + Len(q) : (p \o q)[i] = q[i - Len(p)]
  OBVIOUS
<1> DEFINE v == s \o t
<1>2. /\ v \in Seq(Nat) /\ Len(v) = Len(s) + Len(t) /\ Len(s) \in Nat /\ Len(t) \in Nat /\ Len(u) \in Nat
      /\ \A i \in 1 .. Len(s) : v[i] = s[i]
      /\ \A i \in Len(s) + 1 .. Len(s) + Len(t) : v[i] = t[i - Len(s)]
  BY <1>1
<1> HIDE DEF v
<1>3. /\ v \o u \in Seq(Nat) /\ Len(v \o u) = Len(v) + Len(u)
      /\ \A i \in 1 .. Len(v) : (v \o u)[i] = v[i]
      /\ \A i \in Len(v) + 1 .. Len(v) + Len(u) : (v \o u)[i] = u[i - Len(v)]
  BY <1>1, <1>2
<1> DEFINE w == v \o u
<1> HIDE DEF w
<1>4. /\ w \in Seq(Nat) /\ Len(w) = Len(v) + Len(u)
      /\ \A i \in 1 .. Len(v) : w[i] = v[i]
      /\ \A i \in Len(v) + 1 .. Len(v) + Len(u) : w[i] = u[i - Len(v)]
  BY <1>3 DEF w
<1>5. \A i \in 1 .. Len(s) : w[i] = s[i]
  <2> SUFFICES ASSUME NEW i \in 1 .. Len(s) PROVE w[i] = s[i]
    OBVIOUS
  <2>1. i \in 1 .. Len(v)
    BY <1>2
  <2> QED
    BY <1>2, <1>4, <2>1
<1>6. \A i \in Len(s) + 1 .. Len(s) + Len(t) : w[i] = t[i - Len(s)]
  <2> SUFFICES ASSUME NEW i \in Len(s) + 1 .. Len(s) + Len(t) PROVE w[i] = t[i - Len(s)]
    OBVIOUS
  <2>1. i \in 1 .. Len(v)
    BY <1>2
  <2> QED
    BY <1>2, <1>4, <2>1
<1>7. \A i \in 1 .. Len(u) : w[Len(s) + Len(t) + i] = u[i]
  <2> SUFFICES ASSUME NEW i \in 1 .. Len(u) PROVE w[Len(s) + Len(t) + i] = u[i]
    OBVIOUS
  <2> DEFINE h == Len(s) + Len(t) + i
  <2>1. h \in Len(v) + 1 .. Len(v) + Len(u) /\ h - Len(v) = i
    BY <1>2
  <2> HIDE DEF h
  <2>2. w[h] = u[h - Len(v)]
    BY <1>4, <2>1
  <2> QED
    BY <2>1, <2>2 DEF h
<1> QED
  BY <1>2, <1>4, <1>5, <1>6, <1>7 DEF w, v

\* Between two samples of the base trajectory come those the interval asks for.
LEMMA SampleAdded ==
  ASSUME NEW start \in Nat, NEW times, SampledFrom(times, start, SampleInterval),
         SampleInterval < DeltaTime,
         NEW final \in Nat, NEW time \in Nat, time <= final, time = Last(times) + DeltaTime
  PROVE  LET more == AddSample(times, time, final)
         IN  /\ SampledFrom(more, start, SampleInterval) /\ Last(more) = time
             /\ Len(more) > Len(times)
<1> DEFINE I == SampleInterval
           L == Len(times)
           last == Last(times)
           missing == (time - last - 1) \div I
           fill == [k \in 1 .. missing |-> last + k * I]
           more == AddSample(times, time, final)
<1>1. /\ I \in Nat \ {0} /\ DeltaTime \in Nat \ {0} /\ I < DeltaTime
      /\ times \in Seq(Nat) /\ times # <<>> /\ L \in Nat \ {0} /\ DOMAIN times = 1 .. L
      /\ \A i \in 1 .. L : times[i] \in Nat
      /\ times[1] = start /\ Increasing(times) /\ last = times[L]
      /\ \A i \in 2 .. L : times[i] - times[i - 1] \in 1 .. I
  BY SamplingAssumption DEF SampledFrom, Last
<1>2. last \in Nat /\ time - last - 1 = DeltaTime - 1 /\ DeltaTime - 1 \in Nat /\ I <= DeltaTime - 1
  BY <1>1
<1> HIDE DEF I, L, last
<1>0. I \in Nat \ {0} /\ DeltaTime \in Nat /\ L \in Nat \ {0} /\ last \in Nat
  BY <1>1, <1>2
<1>3. /\ missing \in Nat /\ missing * I <= DeltaTime - 1 /\ DeltaTime - 1 < missing * I + I
      /\ missing # 0 /\ missing * I \in Nat
  <2>1. missing = (DeltaTime - 1) \div I
    BY <1>2
  <2> HIDE DEF missing
  <2> QED
    BY <1>1, <1>2, <2>1, Quotient
<1>4. more = times \o fill \o <<time>>
  <2>1. ~(time > final)
    OBVIOUS
  <2> QED
    BY <2>1 DEF AddSample, last, I
<1> HIDE DEF missing, more
<1>5. \A k \in 1 .. missing : k * I \in Nat \ {0} /\ k * I <= missing * I /\ last + k * I \in Nat
  <2> SUFFICES ASSUME NEW k \in 1 .. missing
               PROVE  k * I \in Nat \ {0} /\ k * I <= missing * I /\ last + k * I \in Nat
    OBVIOUS
  <2>1. k \in Nat \ {0} /\ k * I \in Nat /\ k * I # 0
    BY <1>1, <1>3
  <2>2. missing * I = k * I + (missing - k) * I /\ missing - k \in Nat /\ (missing - k) * I \in Nat
    BY <1>1, <1>3
  <2> QED
    BY <1>2, <2>1, <2>2
<1>6. fill \in Seq(Nat) /\ Len(fill) = missing /\ \A k \in 1 .. missing : fill[k] = last + k * I
  <2>1. fill \in [1 .. missing -> Nat]
    BY <1>5
  <2> QED
    BY <1>3, <2>1
<1> HIDE DEF fill
<1>7. /\ more \in Seq(Nat) /\ Len(more) = L + missing + 1 /\ DOMAIN more = 1 .. L + missing + 1
      /\ \A i \in 1 .. L : more[i] = times[i]
      /\ \A i \in L + 1 .. L + missing : more[i] = fill[i - L]
      /\ more[L + missing + 1] = time
  <2>1. <<time>> \in Seq(Nat) /\ Len(<<time>>) = 1 /\ <<time>>[1] = time
    OBVIOUS
  <2> DEFINE end == <<time>>
  <2> HIDE DEF end
  <2>2. end \in Seq(Nat) /\ times \in Seq(Nat) /\ fill \in Seq(Nat) /\ Len(times) = L /\ Len(fill) = missing
    BY <1>1, <1>6, <2>1 DEF end, L
  <2>3. /\ times \o fill \o end \in Seq(Nat)
        /\ Len(times \o fill \o end) = Len(times) + Len(fill) + Len(end)
        /\ \A i \in 1 .. Len(times) : (times \o fill \o end)[i] = times[i]
        /\ \A i \in Len(times) + 1 .. Len(times) + Len(fill) :
             (times \o fill \o end)[i] = fill[i - Len(times)]
        /\ \A i \in 1 .. Len(end) : (times \o fill \o end)[Len(times) + Len(fill) + i] = end[i]
    BY <2>2, JoinedThree
  <2>4. more = times \o fill \o end /\ Len(end) = 1 /\ end[1] = time
    BY <1>4, <2>1 DEF end
  <2>5. /\ more \in Seq(Nat) /\ Len(more) = L + missing + 1
        /\ \A i \in 1 .. L : more[i] = times[i]
        /\ \A i \in L + 1 .. L + missing : more[i] = fill[i - L]
    BY <2>2, <2>3, <2>4
  <2>6. more[L + missing + 1] = time
    BY <2>2, <2>3, <2>4
  <2> QED
    BY <2>5, <2>6
<1>8. \A i \in L .. L + missing : more[i] = last + (i - L) * I
  <2> SUFFICES ASSUME NEW i \in L .. L + missing PROVE more[i] = last + (i - L) * I
    OBVIOUS
  <2>1. CASE i = L
    BY <1>1, <1>2, <1>7, <2>1
  <2>2. CASE i # L
    <3>1. i \in L + 1 .. L + missing /\ i - L \in 1 .. missing
      BY <1>1, <1>3, <2>2
    <3> QED
      BY <1>6, <1>7, <3>1
  <2> QED
    BY <2>1, <2>2
<1>9. \A i \in 2 .. L + missing + 1 : more[i] - more[i - 1] \in 1 .. I
  <2> SUFFICES ASSUME NEW i \in 2 .. L + missing + 1 PROVE more[i] - more[i - 1] \in 1 .. I
    OBVIOUS
  <2>1. CASE i <= L
    <3>1. i \in 2 .. L /\ i \in 1 .. L /\ i - 1 \in 1 .. L
      BY <1>1, <1>3, <2>1
    <3> QED
      BY <1>1, <1>7, <3>1
  <2>2. CASE L < i /\ i <= L + missing
    <3>1. i \in L .. L + missing /\ i - 1 \in L .. L + missing
      BY <1>1, <1>3, <2>2
    <3> DEFINE k == i - L
    <3>2. more[i] = last + k * I /\ more[i - 1] = last + (k - 1) * I
      <4>1. (i - 1) - L = k - 1
        BY <1>1, <3>1
      <4> QED
        BY <1>8, <3>1, <4>1
    <3>3. k \in 1 .. missing /\ k * I \in Nat /\ (k - 1) * I = k * I - I
      BY <1>1, <1>3, <1>5, <2>2
    <3> DEFINE x == k * I
    <3>4. more[i] = last + x /\ more[i - 1] = last + (x - I) /\ x \in Nat
      BY <3>2, <3>3
    <3> HIDE DEF k, x
    <3> QED
      BY <1>0, <3>4
  <2>3. CASE i = L + missing + 1
    <3>1. i - 1 = L + missing /\ L + missing \in L .. L + missing /\ (L + missing) - L = missing
      BY <1>1, <1>3, <2>3
    <3>2. more[i] = time /\ more[i - 1] = last + missing * I
      BY <1>7, <1>8, <2>3, <3>1
    <3>3. time = last + DeltaTime
      BY DEF last
    <3> DEFINE x == missing * I
    <3>4. x \in Nat /\ x <= DeltaTime - 1 /\ DeltaTime - 1 < x + I /\ more[i - 1] = last + x
      BY <1>3, <3>2
    <3> HIDE DEF x
    <3> QED
      BY <1>0, <3>2, <3>3, <3>4
  <2> QED
    BY <1>1, <1>3, <2>1, <2>2, <2>3
<1>10. Increasing(more)
  <2> SUFFICES ASSUME NEW i \in 1 .. L + missing + 1, NEW j \in 1 .. L + missing + 1, i < j
               PROVE  more[i] < more[j]
    BY <1>7 DEF Increasing
  <2>1. \A h \in 1 .. L : more[h] <= last
    <3> SUFFICES ASSUME NEW h \in 1 .. L PROVE times[h] <= last
      BY <1>7
    <3>1. L \in 1 .. L /\ h \in DOMAIN times /\ L \in DOMAIN times /\ times[h] \in Nat /\ last = times[L]
      BY <1>1
    <3>2. h < L => times[h] < times[L]
      BY <1>1, <3>1 DEF Increasing
    <3>3. h < L \/ h = L
      BY <1>0
    <3> QED
      BY <1>0, <3>1, <3>2, <3>3
  <2>2. \A h \in 1 .. L + missing : more[h] \in Nat /\ more[h] <= last + missing * I
    <3> SUFFICES ASSUME NEW h \in 1 .. L + missing PROVE more[h] \in Nat /\ more[h] <= last + missing * I
      OBVIOUS
    <3>1. CASE h <= L
      <4>1. h \in 1 .. L
        BY <1>1, <3>1
      <4>2. more[h] \in Nat /\ more[h] <= last
        BY <1>1, <1>7, <2>1, <4>1
      <4> DEFINE x == missing * I
      <4>3. x \in Nat
        BY <1>3
      <4> HIDE DEF x
      <4>4. more[h] <= last + x
        BY <1>2, <4>2, <4>3
      <4> QED
        BY <4>2, <4>4 DEF x
    <3>2. CASE h > L
      <4>1. h \in L .. L + missing /\ h - L \in 1 .. missing
        BY <1>1, <1>3, <3>2
      <4> DEFINE x == missing * I
                 k == h - L
                 y == k * I
      <4>2. k \in 1 .. missing /\ more[h] = last + y
        BY <1>8, <4>1
      <4> HIDE DEF k
      <4>3. y \in Nat /\ y <= x /\ x \in Nat
        BY <1>3, <1>5, <4>2
      <4> HIDE DEF y, x
      <4>4. more[h] \in Nat /\ more[h] <= last + x
        BY <1>2, <4>2, <4>3
      <4> QED
        BY <4>4 DEF x
    <3> QED
      BY <1>1, <1>3, <3>1, <3>2
  <2>3. CASE j <= L
    <3>1. i \in 1 .. L /\ j \in 1 .. L
      BY <1>1, <1>3, <2>3
    <3> QED
      BY <1>1, <1>7, <3>1 DEF Increasing
  <2>4. CASE L < j /\ j <= L + missing
    <3>1. j \in L .. L + missing /\ j - L \in 1 .. missing
      BY <1>1, <1>3, <2>4
    <3>2. more[j] = last + (j - L) * I /\ (j - L) * I \in Nat \ {0}
      BY <1>5, <1>8, <3>1
    <3>3. CASE i <= L
      <4>1. i \in 1 .. L
        BY <1>1, <3>3
      <4>2. more[i] <= last /\ more[i] \in Nat
        BY <1>1, <1>7, <2>1, <4>1
      <4> QED
        BY <1>2, <3>2, <4>2
    <3>4. CASE i > L
      <4> DEFINE a == i - L
                 b == j - L
      <4>1. i \in L .. L + missing /\ a \in 1 .. missing /\ b \in 1 .. missing /\ a < b
        BY <1>1, <1>3, <2>4, <3>4
      <4>2. more[i] = last + a * I
        BY <1>8, <4>1
      <4> HIDE DEF a
      <4>3. more[j] = last + b * I
        BY <3>2
      <4> HIDE DEF b
      <4>4. b * I = a * I + (b - a) * I /\ b - a \in Nat \ {0} /\ a * I \in Nat
        BY <1>1, <1>5, <4>1
      <4>5. (b - a) * I \in Nat /\ (b - a) * I # 0
        BY <1>1, <4>4
      <4> QED
        BY <1>2, <4>2, <4>3, <4>4, <4>5
    <3> QED
      BY <1>1, <3>3, <3>4
  <2>5. CASE j = L + missing + 1
    <3>1. i \in 1 .. L + missing
      BY <1>1, <1>3, <2>5
    <3>2. more[j] = time /\ time = last + DeltaTime
      BY <1>7, <2>5 DEF last
    <3> DEFINE x == missing * I
    <3>3. x \in Nat /\ x <= DeltaTime - 1 /\ more[i] \in Nat /\ more[i] <= last + x
      BY <1>3, <2>2, <3>1
    <3> HIDE DEF x
    <3> QED
      BY <1>0, <3>2, <3>3
  <2> QED
    BY <1>1, <1>3, <2>3, <2>4, <2>5
<1>11. more # <<>> /\ more[1] = start /\ Last(more) = time /\ Len(more) > L
  BY <1>1, <1>3, <1>7 DEF Last
<1>12. SampledFrom(more, start, I)
  BY <1>7, <1>9, <1>10, <1>11 DEF SampledFrom
<1> QED
  BY <1>11, <1>12 DEF more, I, L

LEMMA SampleAddedType ==
  ASSUME NEW times \in Seq(Nat) \ {<<>>}, NEW final \in Nat, NEW time \in Nat
  PROVE  AddSample(times, time, final) \in Seq(Nat) \ {<<>>}
<1> DEFINE base == IF Last(times) <= final /\ time > final THEN Append(times, final) ELSE times
           missing == (time - Last(base) - 1) \div SampleInterval
           fill == [k \in 1 .. missing |-> Last(base) + k * SampleInterval]
<1>1. base \in Seq(Nat) /\ base # <<>>
  BY DEF Last
<1> HIDE DEF base
<1>2. Last(base) \in Nat
  BY <1>1 DEF Last
<1>3. SampleInterval \in Nat \ {0}
  BY SamplingAssumption
<1>4. missing \in Int
  <2>1. time - Last(base) - 1 \in Int
    BY <1>2
  <2>2. \A n \in Int, d \in Nat \ {0} : n \div d \in Int
    OBVIOUS
  <2> QED
    BY <1>3, <2>1, <2>2
<1> HIDE DEF missing
<1>5. \A k \in 1 .. missing : Last(base) + k * SampleInterval \in Nat
  <2> SUFFICES ASSUME NEW k \in 1 .. missing PROVE Last(base) + k * SampleInterval \in Nat
    OBVIOUS
  <2>1. k * SampleInterval \in Nat
    BY <1>3, <1>4
  <2> QED
    BY <1>2, <2>1
<1>6. fill \in Seq(Nat)
  <2>1. fill \in [1 .. missing -> Nat]
    BY <1>5
  <2>2. CASE missing \in Nat
    BY <2>1, <2>2
  <2>3. CASE missing \notin Nat
    <3>1. 1 .. missing = 1 .. 0
      BY <1>4, <2>3
    <3> HIDE DEF fill
    <3>2. fill \in [1 .. 0 -> Nat]
      BY <2>1, <3>1
    <3> QED
      BY <3>2
  <2> QED
    BY <2>2, <2>3
<1> HIDE DEF fill
<1>7. AddSample(times, time, final) = base \o fill \o <<time>>
  BY DEF AddSample, base, missing, fill
<1>8. <<time>> \in Seq(Nat) /\ Len(<<time>>) = 1
  OBVIOUS
<1> DEFINE end == <<time>>
<1> HIDE DEF end
<1>9. /\ base \o fill \o end \in Seq(Nat)
      /\ Len(base \o fill \o end) = Len(base) + Len(fill) + Len(end)
  BY <1>1, <1>6, <1>8, JoinedThree DEF end
<1>10. Len(base) \in Nat /\ Len(fill) \in Nat /\ Len(end) = 1 /\ Len(<<>>) = 0
  BY <1>1, <1>6, <1>8 DEF end
<1> QED
  BY <1>7, <1>9, <1>10 DEF end

\* The samples of the reference, where it is subsampled.
LEMMA SamplesTaken ==
  ASSUME NEW start \in Nat, NEW final \in Nat, final = start + Horizon, SampleInterval < DeltaTime
  PROVE  LET times == BaseTimes(start, final)
             taken == Subsampled(times, start, final)[Len(times)]
         IN  /\ SampledFrom(taken, start, SampleInterval) /\ Len(taken) > 1
             /\ Last(taken) = Last(times)
<1> DEFINE times == BaseTimes(start, final)
           N == Len(times)
           Add(taken, n) == IF times[n] <= start THEN taken ELSE AddSample(taken, times[n], final)
           S == Seq(Nat) \ {<<>>}
           Equation(f) ==
             f = [n \in 0 .. N |->
                    IF n = 0 THEN <<start>>
                    ELSE IF times[n] <= start THEN f[n - 1] ELSE AddSample(f[n - 1], times[n], final)]
           step == [x \in S \X (1 .. N) |-> Add(x[1], x[2])]
           after == Subsampled(times, start, final)
<1>1. /\ SampledFrom(times, start, DeltaTime) /\ N > 1 /\ N \in Nat
      /\ Last(times) <= final
      /\ \A i \in 1 .. N : times[i] \in Nat
      /\ \A i \in 2 .. N : times[i] = times[i - 1] + DeltaTime
      /\ times[1] = start /\ Increasing(times) /\ DOMAIN times = 1 .. N
      /\ Last(times) = times[N]
  <2>1. /\ SampledFrom(times, start, DeltaTime) /\ N > 1
        /\ Last(times) <= final /\ \A i \in 2 .. N : times[i] = times[i - 1] + DeltaTime
    BY BaseSamples
  <2> HIDE DEF times
  <2> QED
    BY <2>1 DEF SampledFrom, Last
<1> HIDE DEF times
<1>2. step \in [S \X (1 .. N) -> S] /\ <<start>> \in S
  <2>1. \A x \in S \X (1 .. N) : Add(x[1], x[2]) \in S
    <3> SUFFICES ASSUME NEW taken \in S, NEW n \in 1 .. N PROVE Add(taken, n) \in S
      OBVIOUS
    <3>1. times[n] \in Nat
      BY <1>1
    <3>2. AddSample(taken, times[n], final) \in S
      BY <3>1, SampleAddedType
    <3> QED
      BY <3>2
  <2> QED
    BY <2>1
<1> HIDE DEF step, N, S
<1>3. PICK f \in [0 .. N -> S] : Passes(f, N, <<start>>, step)
  BY <1>1, <1>2, LoopDefined
<1>4. Equation(f)
  <2>1. \A n \in 1 .. N : n \in 0 .. N /\ n - 1 \in 0 .. N
    BY <1>1
  <2>2. \A n \in 1 .. N : f[n] = Add(f[n - 1], n)
    BY <1>3, <2>1 DEF step, Passes
  <2>3. \A n \in 0 .. N : f[n] = IF n = 0 THEN <<start>>
          ELSE IF times[n] <= start THEN f[n - 1] ELSE AddSample(f[n - 1], times[n], final)
    <3> SUFFICES ASSUME NEW n \in 0 .. N
                 PROVE  f[n] = IF n = 0 THEN <<start>>
                               ELSE IF times[n] <= start THEN f[n - 1]
                               ELSE AddSample(f[n - 1], times[n], final)
      OBVIOUS
    <3>1. n # 0 => n \in 1 .. N
      BY <1>1
    <3>2. f[0] = <<start>>
      BY <1>3 DEF Passes
    <3> QED
      BY <2>2, <3>1, <3>2
  <2> QED
    BY <2>3
<1>5. Equation(after)
  BY <1>4 DEF Subsampled, N
<1> HIDE DEF after
<1>6. after[0] = <<start>> /\ \A n \in 1 .. N : after[n] = Add(after[n - 1], n)
  BY <1>1, <1>5
<1> HIDE DEF Equation
<1> DEFINE Taken(n) == /\ SampledFrom(after[n], start, SampleInterval) /\ Len(after[n]) >= n
                       /\ Last(after[n]) = times[n]
           T == {n \in Nat : n + 1 <= N => Taken(n + 1)}
<1>7. 0 \in T
  <2>1. after[1] = <<start>>
    <3>1. 1 \in 1 .. N /\ 1 - 1 = 0
      BY <1>1
    <3> QED
      BY <1>1, <1>6, <3>1
  <2>2. /\ <<start>> \in Seq(Nat) /\ <<start>> # <<>> /\ Len(<<start>>) = 1 /\ <<start>>[1] = start
        /\ Increasing(<<start>>) /\ Last(<<start>>) = start
    BY DEF Increasing, Last
  <2>3. SampledFrom(<<start>>, start, SampleInterval)
    BY <2>2 DEF SampledFrom
  <2>4. Taken(1)
    BY <1>1, <2>1, <2>2, <2>3
  <2> HIDE DEF Taken
  <2> QED
    BY <2>4
<1>8. \A n \in T : n + 1 \in T
  <2> SUFFICES ASSUME NEW n \in T, (n + 1) + 1 <= N PROVE Taken((n + 1) + 1)
    OBVIOUS
  <2> DEFINE m == (n + 1) + 1
             before == after[m - 1]
  <2>1. m \in 2 .. N /\ m \in 1 .. N /\ m - 1 = n + 1 /\ m - 1 \in 1 .. N /\ N \in 1 .. N /\ n \in Nat
    BY <1>1
  <2>0. Taken(m - 1)
    BY <1>1, <2>1
  <2> HIDE DEF m, T
  <2>2. after[m] = Add(before, m) /\ times[m] = times[m - 1] + DeltaTime /\ times[m] \in Nat
        /\ times[m - 1] \in Nat
    BY <1>1, <1>6, <2>1
  <2>3. times[m] <= final /\ start < times[m]
    <3>0. m \in DOMAIN times /\ N \in DOMAIN times /\ 1 \in DOMAIN times /\ 1 < m
      BY <1>1, <2>1
    <3>1. m < N => times[m] < times[N]
      BY <1>1, <3>0 DEF Increasing
    <3>2. times[1] < times[m]
      BY <1>1, <3>0 DEF Increasing
    <3>3. N \in 1 .. N /\ times[N] \in Nat /\ (m < N \/ m = N)
      BY <1>1, <2>1
    <3> QED
      BY <1>1, <2>2, <3>1, <3>2, <3>3
  <2>4. after[m] = AddSample(before, times[m], final)
    BY <2>2, <2>3
  <2>5. SampledFrom(before, start, SampleInterval) /\ Last(before) = times[m - 1] /\ Len(before) >= m - 1
    BY <2>0, <2>1
  <2> DEFINE time == times[m]
  <2>6. time \in Nat /\ time <= final /\ time = Last(before) + DeltaTime
    BY <2>2, <2>3, <2>5
  <2> HIDE DEF time, before
  <2>7. /\ SampledFrom(AddSample(before, time, final), start, SampleInterval)
        /\ Last(AddSample(before, time, final)) = time
        /\ Len(AddSample(before, time, final)) > Len(before)
    BY <2>5, <2>6, SampleAdded
  <2>8. Len(before) \in Nat /\ Len(AddSample(before, time, final)) \in Nat
    BY <2>5, <2>7 DEF SampledFrom
  <2>9. Taken(m)
    BY <2>1, <2>4, <2>5, <2>7, <2>8 DEF time
  <2> QED
    BY <2>9 DEF m
<1>9. N - 1 \in T
  <2> HIDE DEF T
  <2>1. T \in SUBSET Nat
    BY DEF T
  <2>2. N - 1 \in Nat
    BY <1>1
  <2> QED
    BY <1>7, <1>8, <2>1, <2>2, SetInduction
<1>10. Taken(N)
  BY <1>1, <1>9
<1>11. Len(after[N]) \in Nat
  BY <1>10 DEF SampledFrom
<1> QED
  BY <1>1, <1>10, <1>11 DEF after, N, times

\* Whether or not the reference is subsampled.
LEMMA SamplesPublished ==
  ASSUME NEW start \in Nat, NEW final \in Nat, final = start + Horizon
  PROVE  LET times == BaseTimes(start, final)
             published == PublishedReference(times, start, final)
         IN  /\ SampledFrom(published.times, start, Min({DeltaTime, SampleInterval}))
             /\ Len(published.times) > 1 /\ Last(published.times) = Last(times)
             /\ published.feet = StandingFeet(published.times)
             /\ published.forces = Forces(published.times)
             /\ published.joints = JointGoals(times, StandingFeet(times))
<1> DEFINE times == BaseTimes(start, final)
           sampled == IF SampleInterval < DeltaTime THEN Subsampled(times, start, final)[Len(times)] ELSE times
           gap == Min({DeltaTime, SampleInterval})
           published == PublishedReference(times, start, final)
<1>1. gap = IF SampleInterval < DeltaTime THEN SampleInterval ELSE DeltaTime
  <2>1. {DeltaTime, SampleInterval} \in SUBSET Nat /\ {DeltaTime, SampleInterval} # {}
    BY SamplingAssumption
  <2> DEFINE S == {DeltaTime, SampleInterval}
  <2>2. DeltaTime \in S /\ SampleInterval \in S /\ \A x \in S : x = DeltaTime \/ x = SampleInterval
    OBVIOUS
  <2> HIDE DEF S
  <2>3. Min(S) \in S /\ Min(S) <= DeltaTime /\ Min(S) <= SampleInterval
    BY <2>1, <2>2, MinOfNumbers DEF S
  <2>4. gap = Min(S)
    BY DEF S
  <2> HIDE DEF gap
  <2> QED
    BY <2>2, <2>3, <2>4, SamplingAssumption
<1>2. SampledFrom(sampled, start, gap) /\ Len(sampled) > 1 /\ Last(sampled) = Last(times)
  <2>1. CASE SampleInterval < DeltaTime
    BY <1>1, <2>1, SamplesTaken
  <2>2. CASE ~(SampleInterval < DeltaTime)
    BY <1>1, <2>2, BaseSamples
  <2> QED
    BY <2>1, <2>2
<1>3. published = [times |-> sampled, feet |-> StandingFeet(sampled), forces |-> Forces(sampled),
                   joints |-> JointGoals(times, StandingFeet(times))]
  BY DEF PublishedReference
<1> HIDE DEF sampled, published, times, gap
<1>4. published.times = sampled /\ published.feet = StandingFeet(sampled)
      /\ published.forces = Forces(sampled)
      /\ published.joints = JointGoals(times, StandingFeet(times))
  BY <1>3
<1> QED
  BY <1>2, <1>4 DEF published, times, gap

\* A sample that takes the forces of the one before it takes those of its own mode.
LEMMA ForcesOfModes ==
  ASSUME NEW times, NEW N \in Nat, DOMAIN times = 1 .. N
  PROVE  Forces(times) = [i \in DOMAIN times |-> modes'[IndexInTimes(events', times[i]) + 1]]
<1> DEFINE mode == [i \in DOMAIN times |-> IndexInTimes(events', times[i]) + 1]
           Equation(f) ==
             f = [i \in DOMAIN times |->
                    IF i > 1 /\ mode[i] = mode[i - 1] /\ SixDofContacts = 0 THEN f[i - 1]
                    ELSE WeightCompensation(modes'[mode[i]])]
           own == [i \in DOMAIN times |-> modes'[mode[i]]]
           forces == Forces(times)
<1> HIDE DEF mode
<1>1. Equation(own)
  <2>1. \A i \in DOMAIN times : own[i] =
          IF i > 1 /\ mode[i] = mode[i - 1] /\ SixDofContacts = 0 THEN own[i - 1]
          ELSE WeightCompensation(modes'[mode[i]])
    <3> SUFFICES ASSUME NEW i \in 1 .. N
                 PROVE  own[i] = IF i > 1 /\ mode[i] = mode[i - 1] /\ SixDofContacts = 0 THEN own[i - 1]
                                 ELSE WeightCompensation(modes'[mode[i]])
      OBVIOUS
    <3>1. own[i] = modes'[mode[i]] /\ (i > 1 => i - 1 \in 1 .. N /\ own[i - 1] = modes'[mode[i - 1]])
      OBVIOUS
    <3> QED
      BY <3>1 DEF WeightCompensation
  <2> QED
    BY <2>1
<1>2. Equation(forces)
  BY <1>1 DEF Forces, mode
<1> HIDE DEF forces
<1>3. \A i \in 1 .. N : forces[i] =
        IF i > 1 /\ mode[i] = mode[i - 1] /\ SixDofContacts = 0 THEN forces[i - 1]
        ELSE modes'[mode[i]]
  BY <1>2 DEF WeightCompensation
<1>4. forces = [i \in 1 .. N |-> forces[i]]
  BY <1>2
<1> HIDE DEF Equation
<1> DEFINE T == {n \in Nat : n + 1 <= N => forces[n + 1] = modes'[mode[n + 1]]}
<1>5. 0 \in T
  BY <1>3
<1>6. \A n \in T : n + 1 \in T
  <2> SUFFICES ASSUME NEW n \in T, (n + 1) + 1 <= N
               PROVE  forces[(n + 1) + 1] = modes'[mode[(n + 1) + 1]]
    OBVIOUS
  <2> DEFINE m == (n + 1) + 1
  <2>1. m \in 1 .. N /\ m - 1 = n + 1 /\ m - 1 \in 1 .. N
    OBVIOUS
  <2>2. forces[m - 1] = modes'[mode[m - 1]]
    BY <2>1
  <2> HIDE DEF m, T
  <2>3. forces[m] = modes'[mode[m]]
    BY <1>3, <2>1, <2>2
  <2> QED
    BY <2>3 DEF m
<1>7. \A n \in Nat : n \in T
  <2> HIDE DEF T
  <2>1. T \in SUBSET Nat
    BY DEF T
  <2> QED
    BY <1>5, <1>6, <2>1, SetInduction
<1>8. \A i \in 1 .. N : forces[i] = modes'[mode[i]]
  <2> SUFFICES ASSUME NEW i \in 1 .. N PROVE forces[i] = modes'[mode[i]]
    OBVIOUS
  <2>1. i - 1 \in Nat /\ (i - 1) + 1 = i
    OBVIOUS
  <2> QED
    BY <1>7, <2>1
<1>9. forces = [i \in DOMAIN times |-> modes'[mode[i]]]
  BY <1>4, <1>8
<1> QED
  BY <1>9 DEF forces, mode

\* The getters of the feet read two samples.
LEMMA TwoSamplesRead ==
  ASSUME NEW times \in Seq(Nat), Increasing(times), Len(times) > 1, NEW time \in Int
  PROVE  LET index == Segment(times, time)
             first == IF index > 1 /\ times[index] > time THEN index - 1 ELSE index
         IN  {first, first + 1} \subseteq 1 .. Len(times)
<1> DEFINE before == IndexInTimes(times, time)
           L == Len(times)
           index == Segment(times, time)
           S == {L - 1, 1}
           R == {before, Max(S)}
<1>1. L \in Nat /\ L > 1 /\ before \in 0 .. L
  BY IndexOfPrefix
<1> HIDE DEF before, L
<1>2. Max(S) = L - 1
  <2>1. S \in SUBSET (0 .. L) /\ S # {} /\ \A x \in S : x = L - 1 \/ x = 1
    BY <1>1
  <2>2. L - 1 \in S
    OBVIOUS
  <2> HIDE DEF S
  <2>3. Max(S) \in S /\ L - 1 <= Max(S)
    BY <1>1, <2>1, <2>2, MaxOfNumbers
  <2> DEFINE m == Max(S)
  <2>4. (m = L - 1 \/ m = 1) /\ L - 1 <= m
    BY <2>1, <2>3
  <2> HIDE DEF m
  <2>5. m = L - 1
    BY <1>1, <2>4
  <2> QED
    BY <2>5 DEF m
<1> HIDE DEF S
<1>3. Min(R) \in R /\ Min(R) <= L - 1
  <2>1. R \in SUBSET Nat /\ R # {} /\ L - 1 \in R
    BY <1>1, <1>2
  <2> HIDE DEF R
  <2> QED
    BY <2>1, MinOfNumbers
<1>4. before # 0 => Min(R) \in 1 .. L - 1
  BY <1>1, <1>2, <1>3
<1>5. index = IF before = 0 THEN 1 ELSE Min(R)
  BY DEF Segment, before, L, S
<1> HIDE DEF R, index
<1>6. index \in 1 .. L - 1
  BY <1>1, <1>4, <1>5
<1> QED
  BY <1>1, <1>6 DEF index, L

LEMMA SamplesWithin ==
  ASSUME NEW start \in Nat, NEW final \in Nat, NEW times, NEW gap,
         SampledFrom(times, start, gap), Last(times) <= final
  PROVE  /\ DOMAIN times = 1 .. Len(times) /\ Len(times) \in Nat
         /\ \A i \in 1 .. Len(times) : times[i] \in start .. final
<1> DEFINE n == Len(times)
<1>1. times \in Seq(Nat) /\ times # <<>> /\ times[1] = start /\ Increasing(times)
  BY DEF SampledFrom
<1>2. n \in Nat \ {0} /\ DOMAIN times = 1 .. n /\ \A i \in 1 .. n : times[i] \in Nat
  BY <1>1
<1>3. times[n] <= final
  BY DEF Last
<1> HIDE DEF n
<1>4. 1 \in 1 .. n /\ n \in 1 .. n
  BY <1>2
<1>5. \A i \in 1 .. n : times[i] \in start .. final
  <2> SUFFICES ASSUME NEW i \in 1 .. n PROVE times[i] \in start .. final
    OBVIOUS
  <2>1. times[i] \in Nat /\ times[n] \in Nat
    BY <1>2, <1>4
  <2>2. 1 < i => times[1] < times[i]
    BY <1>1, <1>2, <1>4 DEF Increasing
  <2>3. i < n => times[i] < times[n]
    BY <1>1, <1>2, <1>4 DEF Increasing
  <2>4. (i = 1 \/ 1 < i) /\ (i = n \/ i < n)
    BY <1>2
  <2> QED
    BY <1>1, <1>3, <2>1, <2>2, <2>3, <2>4
<1> QED
  BY <1>2, <1>5 DEF n

\* What a generation publishes.
LEMMA ReferenceAgrees ==
  ASSUME PlannerInv, PlannerInv', FeetFollowSchedule', Generate
  PROVE  ReferencesAgree'
<1> DEFINE start == clock
           final == clock + Horizon
           base == BaseTimes(start, final)
           times == reference'.times
           Now(time) == modes'[IndexInTimes(events', time) + 1]
           Within(ts) == \A i \in 1 .. Len(ts) : ts[i] \in start .. final
<1>1. /\ start \in Nat /\ final \in Nat /\ final = start + Horizon
      /\ startTime' = start /\ FinalTime' = final /\ Published'
      /\ reference' = PublishedReference(base, start, final)
  <2>1. clock \in Nat /\ Horizon \in Nat
    BY TimesAssumption DEF PlannerInv, ClockInv
  <2>2. startTime' = clock /\ stage' = "gait"
    BY DEF Generate, ScheduleAndSwing, Schedule, GetModeSchedule
  <2> QED
    BY <2>1, <2>2 DEF FinalTime, Published, Generate, PlanReference
<1> HIDE DEF final
<1>2. /\ SampledFrom(base, start, DeltaTime) /\ Len(base) > 1
      /\ Last(base) <= final /\ Last(base) > final - DeltaTime
      /\ \A i \in 1 .. Len(base) : base[i] = start + (i - 1) * DeltaTime
  BY <1>1, BaseSamples
<1>3. /\ SampledFrom(times, start, Min({DeltaTime, SampleInterval})) /\ Len(times) > 1
      /\ Last(times) = Last(base)
      /\ reference'.feet = StandingFeet(times) /\ reference'.forces = Forces(times)
      /\ reference'.joints = JointGoals(base, StandingFeet(base))
  BY <1>1, SamplesPublished
<1> HIDE DEF base
<1>4. ASSUME NEW ts, NEW gap, SampledFrom(ts, start, gap), Last(ts) <= final
      PROVE  DOMAIN ts = 1 .. Len(ts) /\ Len(ts) \in Nat /\ Within(ts)
  <2>1. start \in Nat /\ final \in Nat
    BY <1>1
  <2> HIDE DEF start
  <2> QED
    BY <1>4, <2>1, SamplesWithin
<1>5. /\ DOMAIN base = 1 .. Len(base) /\ Len(base) \in Nat /\ Within(base)
      /\ DOMAIN times = 1 .. Len(times) /\ Len(times) \in Nat /\ Within(times)
  <2>1. Last(times) <= final
    BY <1>2, <1>3
  <2> HIDE DEF times, Within
  <2> QED
    BY <1>2, <1>3, <1>4, <2>1
<1>6. \A time \in start .. final :
        {leg \in Legs : FootPhase(footPlans'[leg], time).contact} = Now(time)
  <2> SUFFICES ASSUME NEW time \in start .. final
               PROVE  {leg \in Legs : FootPhase(footPlans'[leg], time).contact} = Now(time)
    OBVIOUS
  <2>1. \A leg \in Legs : FootPhase(footPlans'[leg], time).contact <=> leg \in Now(time)
    <3>1. time \in HorizonTimes'
      BY <1>1 DEF HorizonTimes
    <3> QED
      BY <1>1, <3>1 DEF FeetFollowSchedule, FootInForce, ModeAt
  <2>2. Now(time) \subseteq Legs
    <3>1. events' \in Seq(Nat) /\ Increasing(events') /\ modes' \in Seq(SUBSET Legs)
          /\ Len(modes') = Len(events') + 1
      BY DEF PlannerInv, ScheduleInv, WellFormed, Increasing
    <3>2. time \in Int
      BY <1>1
    <3>3. IndexInTimes(events', time) \in 0 .. Len(events') /\ Len(events') \in Nat
      BY <3>1, <3>2, IndexOfPrefix
    <3>4. IndexInTimes(events', time) + 1 \in 1 .. Len(modes')
      BY <3>1, <3>3
    <3> QED
      BY <3>1, <3>4
  <2> QED
    BY <2>1, <2>2
<1>7. reference'.feet = [i \in DOMAIN times |-> Now(times[i])]
  BY <1>3, <1>5, <1>6 DEF StandingFeet
<1>8. reference'.forces = [i \in DOMAIN times |-> Now(times[i])]
  <2> HIDE DEF times
  <2> QED
    BY <1>3, <1>5, ForcesOfModes
<1>9. \A i \in 2 .. Len(reference'.joints) : reference'.joints[i] = Now(start + (i - 1) * DeltaTime)
  <2> DEFINE goals == [i \in 1 .. Len(base) |-> IF i = 1 THEN Legs ELSE Now(base[i])]
  <2>1. StandingFeet(base) = [i \in 1 .. Len(base) |-> Now(base[i])]
    BY <1>5, <1>6 DEF StandingFeet
  <2>2. reference'.joints = goals
    BY <1>3, <1>5, <2>1 DEF JointGoals
  <2>3. Len(goals) = Len(base)
    <3>1. goals \in [1 .. Len(base) -> {goals[i] : i \in 1 .. Len(base)}]
      OBVIOUS
    <3>2. \A S : \A n \in Nat : \A f \in [1 .. n -> S] : Len(f) = n
      OBVIOUS
    <3> HIDE DEF goals
    <3> QED
      BY <1>5, <3>1, <3>2
  <2> SUFFICES ASSUME NEW i \in 2 .. Len(base) PROVE goals[i] = Now(start + (i - 1) * DeltaTime)
    BY <2>2, <2>3
  <2>4. i \in 1 .. Len(base) /\ i # 1
    BY <1>5
  <2>5. goals[i] = Now(base[i])
    BY <2>4
  <2> QED
    BY <1>2, <2>4, <2>5
<1>10. \A time \in HorizonTimes' : PointReads(time)' \subseteq 1 .. Len(times)
  <2> SUFFICES ASSUME NEW time \in start .. final PROVE PointReads(time)' \subseteq 1 .. Len(times)
    BY <1>1 DEF HorizonTimes
  <2>1. time \in Int
    BY <1>1
  <2>2. times \in Seq(Nat) /\ Increasing(times) /\ Len(times) > 1
    BY <1>3 DEF SampledFrom
  <2> HIDE DEF times
  <2>3. LET index == Segment(times, time)
            first == IF index > 1 /\ times[index] > time THEN index - 1 ELSE index
        IN  {first, first + 1} \subseteq 1 .. Len(times)
    BY <2>1, <2>2, TwoSamplesRead
  <2> QED
    BY <2>3 DEF PointReads, times
<1>11. /\ times[1] = startTime' /\ Last(times) > FinalTime' - DeltaTime
       /\ \A i \in 2 .. Len(times) : times[i] - times[i - 1] \in 1 .. Min({DeltaTime, SampleInterval})
  BY <1>1, <1>2, <1>3 DEF SampledFrom
<1>12. /\ DOMAIN reference'.feet = DOMAIN times
       /\ \A i \in DOMAIN times : reference'.feet[i] = Now(times[i]) /\ reference'.forces[i] = Now(times[i])
  BY <1>7, <1>8
<1> QED
  BY <1>1, <1>5, <1>9, <1>10, <1>11, <1>12 DEF ReferencesAgree, ModeAt

\* The planners of a generation tell the solver one story (ReferencesAgree): wherever the
\* samples of the reference are put, and whatever gaits led to the schedule, the feet, the
\* forces and the joints of each sample are those of the mode of its time, the samples are
\* as close as the settings ask and leave less than one base interval uncovered, and the
\* getters of the feet always find two of them.
THEOREM ReferencesAlwaysAgree == ReferenceSpec => []ReferencesAgree
<1>1. ReferenceInit => PlannerInv /\ FeetInv
  BY ReferencePlans, PlannerInit, FeetInit
<1>2. PlannerInv /\ FeetInv /\ [ReferenceNext]_<<vars, swingVars, reference>> => PlannerInv' /\ FeetInv'
  BY ReferencePlans, PlannerStep, FeetStep
<1>3. ReferenceInit => ReferencesAgree
  BY DEF ReferenceInit, SwingInit, Init, ReferencesAgree, Published
<1>4. ASSUME PlannerInv, PlannerInv', FeetFollowSchedule', ReferencesAgree,
             [ReferenceNext]_<<vars, swingVars, reference>>
      PROVE  ReferencesAgree'
  <2>1. CASE Generate
    BY <1>4, <2>1, ReferenceAgrees
  <2>2. CASE (ChangeGait \/ KeepGait) /\ UNCHANGED <<swingVars, reference>>
    BY <2>2 DEF ChangeGait, KeepGait, ReferencesAgree, Published
  <2>3. CASE UNCHANGED <<vars, swingVars, reference>>
    BY <1>4, <2>3 DEF vars, plannerVars, swingVars, ReferencesAgree, Published, FinalTime, ModeAt,
                      HorizonTimes, PointReads
  <2> QED
    BY <1>4, <2>1, <2>2, <2>3 DEF ReferenceNext
<1> QED
  BY <1>1, <1>2, <1>3, <1>4, InvFollows, PTL DEF ReferenceSpec
=============================================================================
