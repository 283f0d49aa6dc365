----------------------- MODULE ControllerNode_proofs -----------------------
(***************************************************************************)
(* The safety of the controller node, whatever the number of activations:  *)
(* the two threads never work on the same transition, and setupMpc never   *)
(* replaces a solver that the MPC thread uses. Then of what it observes:   *)
(* the solver goes back in time only from the time of the clock, for every *)
(* bound of the clock. What keeps that true: the newest of the stamps      *)
(* never gets older, an observation of the sensors is no newer than it,    *)
(* and while the observation has the time of the clock the solver has run  *)
(* on it.                                                                  *)
(***************************************************************************)
EXTENDS ControllerObservation, TLAPS

\* The MPC thread exists from runMpc until the join: a node that is not active, or
\* sets its solver up, has none.
ThreadInv ==
  /\ lifecycle \in {"unconfigured", "inactive"} => thread = "none"
  /\ executor \in {"setup", "error", "run"} => thread = "none"

\* The publisher follows the transitions; a setup has a number left.
TransitionInv ==
  /\ executor \in {"setup", "error", "run", "started", "join"} => ~publisher
  /\ executor = "setup" => interface < MaxSetups

\* The inductive invariant.
NodeInv ==
  /\ TypeOK /\ SetupAlone /\ SilentUnlessActive
  /\ ThreadInv /\ TransitionInv

\* The flags are Booleans at the start, whatever value the constructor leaves.
LEMMA FlagsInit == Init => FlagsOK
BY DEF Init, FlagsOK

\* No callback and no step of the thread gives a flag another value.
LEMMA FlagsNext == FlagsOK /\ [Next]_vars => FlagsOK'
<1> SUFFICES ASSUME FlagsOK, [Next]_vars PROVE FlagsOK'
  OBVIOUS
<1>1. CASE Configure \/ Cleanup \/ Shutdown \/ BeginActivate \/ BeginDeactivate
  BY <1>1 DEF FlagsOK, Configure, Cleanup, Shutdown, BeginActivate, BeginDeactivate
<1>2. CASE Message \/ BeginSend
  BY <1>2 DEF FlagsOK, Message, BeginSend
<1>3. CASE TerrainMessage
  BY <1>3 DEF FlagsOK, TerrainMessage, FindsManager
<1>4. CASE Serve
  BY <1>4 DEF FlagsOK, Serve, SetupMpc, ActivateError, RunMpc, FinishActivate, Activated,
              StopController, Deactivated, EndSend, Stop
<1>5. CASE Work
  BY <1>5 DEF FlagsOK, Work, Loop, Advance, Fail, FailStops, Ask, StopItself, JoinItself, Stop
<1>6. CASE UNCHANGED vars
  BY <1>6 DEF FlagsOK, vars
<1> QED
  BY <1>1, <1>2, <1>3, <1>4, <1>5, <1>6 DEF Next

\* The node starts with no thread and nothing published.
LEMMA NodeInit == Init => NodeInv
BY MaxSetupsAssumption, FlagsInit
   DEF Init, NodeInv, TypeOK, SetupAlone, SilentUnlessActive, ThreadInv,
       TransitionInv, Null, Garbage

\* Every step keeps the invariant: one case for each action.
LEMMA NodeNext == NodeInv /\ [Next]_vars => NodeInv'
<1> SUFFICES ASSUME NodeInv, [Next]_vars PROVE NodeInv'
  OBVIOUS
<1>0. FlagsOK'
  BY FlagsNext DEF NodeInv, TypeOK
<1> USE <1>0, MaxSetupsAssumption
    DEF NodeInv, TypeOK, SetupAlone, SilentUnlessActive, ThreadInv,
        TransitionInv, Null, Garbage
<1>1. CASE Configure \/ Cleanup \/ Shutdown
  <2>1. CASE Configure
    <3>1. /\ executor = "idle" /\ lifecycle = "unconfigured"
          /\ lifecycle' \in {"inactive", "finalized"}
          /\ UNCHANGED <<executor, thread, running, publisher, interface, manager, map, ground, seen>>
      BY <2>1 DEF Configure
    <3> QED
      BY <3>1
  <2>2. CASE Cleanup \/ Shutdown
    BY <2>2 DEF Cleanup, Shutdown
  <2> QED
    BY <1>1, <2>1, <2>2
<1>2. CASE BeginActivate \/ ActivateError
  BY <1>2 DEF BeginActivate, ActivateError
<1>3. CASE SetupMpc
  <2>1. /\ executor = "setup" /\ executor' \in {"run", "error"} /\ interface < MaxSetups
        /\ UNCHANGED <<lifecycle, thread, publisher>>
    BY <1>3 DEF SetupMpc
  <2>2. CASE interface' = interface + 1 /\ manager' = interface' /\ ground' \in {"plane", "map"}
    BY <2>1, <2>2
  <2>3. CASE UNCHANGED <<interface, manager, ground>>
    BY <2>1, <2>3
  <2>4. \/ interface' = interface + 1 /\ manager' = interface' /\ ground' \in {"plane", "map"}
        \/ UNCHANGED <<interface, manager, ground>>
    BY <1>3 DEF SetupMpc
  <2> QED
    BY <2>2, <2>3, <2>4
<1>4. CASE RunMpc \/ FinishActivate \/ Activated
  BY <1>4 DEF RunMpc, FinishActivate, Activated
<1>5. CASE BeginDeactivate \/ StopController \/ Deactivated
  BY <1>5 DEF BeginDeactivate, StopController, Deactivated, MayDeactivate, Stop, JoinThread
<1>6. CASE Message \/ BeginSend \/ EndSend
  BY <1>6 DEF Message, BeginSend, EndSend
<1>7. CASE TerrainMessage
  <2>1. /\ executor = "idle" /\ executor' \in {"idle", "crashed"} /\ ground' \in {"plane", "map"}
        /\ UNCHANGED <<lifecycle, thread, publisher, interface, manager>>
    BY <1>7 DEF TerrainMessage
  <2> QED
    BY <2>1
<1>8. CASE Loop \/ Advance \/ Fail \/ Ask
  BY <1>8 DEF Loop, Advance, Fail, FailStops, Ask, MayDeactivate
<1>9. CASE StopItself \/ JoinItself
  BY <1>9 DEF StopItself, JoinItself, Stop
<1>10. CASE UNCHANGED vars
  BY <1>10 DEF vars
<1> QED
  BY <1>1, <1>2, <1>3, <1>4, <1>5, <1>6, <1>7, <1>8, <1>9, <1>10 DEF Next, Serve, Work

\* The invariant holds whatever the executor and the MPC thread do, for every number
\* of activations.
THEOREM NodeCorrect == Spec => []NodeInv
BY NodeInit, NodeNext, PTL DEF Spec

\* A transition in progress is the work of one thread only.
THEOREM TransitionsExclusive == Spec => []TypeOK
<1>1. NodeInv => TypeOK
  BY DEF NodeInv
<1> QED
  BY <1>1, NodeCorrect, PTL

\* No activation replaces the solver under the MPC thread, or loses that thread.
THEOREM SetupIsAlone == Spec => []SetupAlone
<1>1. NodeInv => SetupAlone
  BY DEF NodeInv
<1> QED
  BY <1>1, NodeCorrect, PTL

\* A node that has been deactivated or cleaned up does not command the robot.
THEOREM InactiveIsSilent == Spec => []SilentUnlessActive
<1>1. NodeInv => SilentUnlessActive
  BY DEF NodeInv
<1> QED
  BY <1>1, NodeCorrect, PTL

-----------------------------------------------------------------------------
(* The observation.                                                        *)

Origins == {"nowhere", "sensors", "clock"}

Timed == [time : Nat, from : Origins]

\* An observation of the sensors is as old as some message, or older.
Backed == observed.from = "clock" \/ \E topic \in DOMAIN Topics : observed.time <= last[topic]

\* The solver is behind the observation, unless it has run on the clock.
Behind ==
  solved.from # "clock" => observed.from # "clock" /\ solved.time <= observed.time

ClockInv ==
  /\ now \in Nat
  /\ last \in [DOMAIN Topics -> 0 .. now]
  /\ observed \in Timed /\ observed.time <= now
  /\ solved \in Timed /\ solved.time <= now
  /\ Backed
  /\ Behind

-----------------------------------------------------------------------------
\* The newest stamp of up to three topics is one of them and none is newer.
LEMMA NewestStamp ==
  ASSUME NEW stamps \in [DOMAIN Topics -> Nat]
  PROVE  LET newest == Max({stamps[topic] : topic \in DOMAIN Topics})
         IN  /\ newest \in {stamps[topic] : topic \in DOMAIN Topics}
             /\ \A topic \in DOMAIN Topics : newest >= stamps[topic]
<1> DEFINE S == {stamps[topic] : topic \in DOMAIN Topics}
<1>1. DOMAIN Topics \in {{1}, {1, 2}, {1, 2, 3}}
  BY TopicsAssumption
<1>2. \E x \in S : \A y \in S : x >= y
  <2>1. CASE DOMAIN Topics = {1}
    BY <2>1
  <2>2. CASE DOMAIN Topics = {1, 2}
    BY <2>2
  <2>3. CASE DOMAIN Topics = {1, 2, 3}
    BY <2>3
  <2> QED BY <1>1, <2>1, <2>2, <2>3
<1>3. Max(S) \in S /\ \A y \in S : Max(S) >= y
  BY <1>2 DEF Max
<1> QED BY <1>3

\* A poll takes over stamps that are no older, and none of the future.
LEMMA StampsAdvance ==
  ASSUME ClockInv, NEW poll \in Polls
  PROVE  /\ Stamps(poll) \in [DOMAIN Topics -> 0 .. now]
         /\ \A topic \in DOMAIN Topics : last[topic] <= Stamps(poll)[topic]
<1>1. ASSUME NEW topic \in DOMAIN Topics, topic \in Taken(poll)
      PROVE  poll[topic].stamp \in last[topic] .. now
  <2>1. poll[topic] \in Arrivals(topic)
    BY DEF Polls
  <2>2. poll[topic].sort \in {"whole", "unknown"}
    BY <1>1 DEF Taken
  <2> QED BY <2>1, <2>2 DEF Arrivals, Message_, Nothing
<1>2. ASSUME NEW topic \in DOMAIN Topics
      PROVE  Stamps(poll)[topic] \in last[topic] .. now
  BY <1>1 DEF Stamps, ClockInv
<1>3. \A topic \in DOMAIN Topics : last[topic] \in 0 .. now
  BY DEF ClockInv
<1>4. Stamps(poll) \in [DOMAIN Topics -> 0 .. now]
  BY <1>2, <1>3 DEF Stamps, ClockInv
<1> QED BY <1>2, <1>3, <1>4 DEF ClockInv

\* What a poll makes of the observation is backed by its stamps, and older than the
\* observation before it only where that had the time of the clock.
LEMMA ObservationAdvances ==
  ASSUME ClockInv, NEW poll \in Polls
  PROVE  /\ Observation(poll) \in Timed /\ Observation(poll).time <= now
         /\ \/ Observation(poll).from = "clock"
            \/ \E topic \in DOMAIN Topics : Observation(poll).time <= Stamps(poll)[topic]
         /\ observed.from # "clock" =>
              Observation(poll).from # "clock" /\ observed.time <= Observation(poll).time
<1> DEFINE stamps == Stamps(poll)
<1>1. /\ stamps \in [DOMAIN Topics -> 0 .. now]
      /\ \A topic \in DOMAIN Topics : last[topic] <= stamps[topic]
  BY StampsAdvance
<1>2. \A topic \in DOMAIN Topics : last[topic] \in 0 .. now /\ stamps[topic] \in 0 .. now
  BY <1>1 DEF ClockInv
<1>3. CASE Throws(poll) \/ Ends(poll)
  <2>1. Observation(poll) = observed
    BY <1>3 DEF Observation
  <2>2. observed.time \in Nat
    BY DEF ClockInv, Timed
  <2>3. observed.from = "clock" \/ \E topic \in DOMAIN Topics : observed.time <= stamps[topic]
    BY <1>1, <1>2, <2>2 DEF ClockInv, Backed
  <2> QED BY <2>1, <2>2, <2>3 DEF ClockInv
<1>4. CASE ~(Throws(poll) \/ Ends(poll))
  <2> DEFINE newest == ObservationTime(poll)
  <2>1. Observation(poll) = [time |-> newest, from |-> "sensors"]
    BY <1>4 DEF Observation
  <2>2. stamps \in [DOMAIN Topics -> Nat]
    BY <1>1 DEF ClockInv
  <2>3. /\ newest \in {stamps[topic] : topic \in DOMAIN Topics}
        /\ \A topic \in DOMAIN Topics : newest >= stamps[topic]
    BY <2>2, NewestStamp DEF ObservationTime
  <2>4. newest \in Nat /\ newest <= now
    BY <1>2, <2>3 DEF ClockInv
  <2>5. \E topic \in DOMAIN Topics : newest <= stamps[topic]
    BY <2>3, <2>4
  <2>6. observed.from # "clock" => observed.time <= newest
    BY <1>1, <1>2, <2>3, <2>4 DEF ClockInv, Backed, Timed
  <2> HIDE DEF newest, stamps
  <2> QED BY <2>1, <2>4, <2>5, <2>6 DEF Timed, Origins, stamps
<1> QED BY <1>3, <1>4

-----------------------------------------------------------------------------
LEMMA ClockInit == ObservationInit => ClockInv
<1> SUFFICES ASSUME ObservationInit PROVE ClockInv
  OBVIOUS
<1>1. 1 \in DOMAIN Topics
  BY TopicsAssumption
<1> QED BY <1>1 DEF ObservationInit, NoObservation, ClockInv, Backed, Behind, Timed, Origins

LEMMA ClockStep ==
  ASSUME ClockInv, [ObservationNext]_<<vars, observationVars>>
  PROVE  ClockInv'
<1>1. ASSUME UNCHANGED observationVars PROVE ClockInv'
  BY <1>1 DEF ClockInv, Backed, Behind, observationVars
<1>2. ASSUME Tick PROVE ClockInv'
  <2>1. /\ now' = now + 1 /\ last' = last /\ observed' = observed /\ solved' = solved
    BY <1>2 DEF Tick, observation
  <2>2. 0 .. now \subseteq 0 .. now + 1
    BY DEF ClockInv
  <2>3. last' \in [DOMAIN Topics -> 0 .. now']
    BY <2>1, <2>2 DEF ClockInv
  <2> QED BY <2>1, <2>3 DEF ClockInv, Backed, Behind, Timed
<1>3. ASSUME NEW poll \in Polls, SendOnObservation(poll) PROVE ClockInv'
  <2>1. /\ now' = now /\ solved' = solved
        /\ last' = Stamps(poll) /\ observed' = Observation(poll)
    BY <1>3 DEF SendOnObservation, UpdateCurrentObservation
  <2>2. Behind'
    BY <2>1, ObservationAdvances DEF Behind, ClockInv, Timed
  <2> QED BY <2>1, <2>2, StampsAdvance, ObservationAdvances DEF ClockInv, Backed
<1>4. ASSUME NEW poll \in Polls, SetupOnObservation(poll) PROVE ClockInv'
  <2>1. now' = now /\ last' = Stamps(poll)
    BY <1>4 DEF SetupOnObservation
  <2>2. CASE observed' = [time |-> now, from |-> "clock"] /\ solved' = observed'
    BY <2>1, <2>2, StampsAdvance DEF ClockInv, Backed, Behind, Timed, Origins
  <2>3. CASE observed' = Observation(poll) /\ solved' = solved
    <3>1. Behind'
      BY <2>3, ObservationAdvances DEF Behind, ClockInv, Timed
    <3> QED BY <2>1, <2>3, <3>1, StampsAdvance, ObservationAdvances DEF ClockInv, Backed
  <2> QED BY <1>4, <2>2, <2>3 DEF SetupOnObservation
<1>5. ASSUME AdvanceOnObservation PROVE ClockInv'
  BY <1>5 DEF AdvanceOnObservation, observation, ClockInv, Backed, Behind, Timed
<1> QED
  BY <1>1, <1>2, <1>3, <1>4, <1>5
  DEF ObservationNext, ServeObserving, WorkObserving

\* The solver is asked to go back in time only right after an activation, from the time
\* of the clock that setupMpc took, to that of the sensors (ObservationInOrder).
THEOREM SolverTimeInOrder == ObservationSpec => ObservationInOrder
<1>1. ASSUME ClockInv, [ObservationNext]_<<vars, observationVars>>
      PROVE  [solved'.time < solved.time => solved.from = "clock"]_<<vars, observationVars>>
  <2> SUFFICES ASSUME ObservationNext PROVE solved'.time < solved.time => solved.from = "clock"
    BY <1>1
  <2>0. solved.time \in Nat /\ solved.time <= now /\ now \in Nat
    BY <1>1 DEF ClockInv, Timed
  <2>1. CASE solved' = solved
    BY <2>0, <2>1
  <2>2. ASSUME NEW poll \in Polls, SetupOnObservation(poll), solved' # solved
        PROVE  ~(solved'.time < solved.time)
    BY <2>0, <2>2 DEF SetupOnObservation
  <2>3. CASE AdvanceOnObservation
    BY <1>1, <2>3 DEF AdvanceOnObservation, ClockInv, Behind, Timed
  <2> QED
    BY <2>1, <2>2, <2>3
    DEF ObservationNext, ServeObserving, WorkObserving, Tick, SendOnObservation, observationVars
<1> QED BY <1>1, ClockInit, ClockStep, PTL DEF ObservationSpec, ObservationInOrder

\* The node that observes is a ControllerNode: each of its steps is one of that, or leaves
\* the lifecycle and the threads alone.
LEMMA StepOfNode == [ObservationNext]_<<vars, observationVars>> => [Next]_vars
<1> SUFFICES ASSUME [ObservationNext]_<<vars, observationVars>> PROVE [Next]_vars
  OBVIOUS
<1>1. CASE UNCHANGED <<vars, observationVars>>
  BY <1>1
<1>2. CASE Tick
  BY <1>2 DEF Tick
<1>3. CASE \E poll \in Polls : SendOnObservation(poll) \/ SetupOnObservation(poll)
  BY <1>3 DEF SendOnObservation, SetupOnObservation, Next, Serve
<1>4. CASE AdvanceOnObservation
  BY <1>4 DEF AdvanceOnObservation, Next, Work
<1> QED
  BY <1>1, <1>2, <1>3, <1>4
  DEF ObservationNext, ServeObserving, WorkObserving, Next, Serve, Work

\* What holds of the node holds of the node that observes: no activation meets the thread
\* of the last one, and an inactive node is silent.
THEOREM ObservingNodeCorrect ==
  ObservationSpec => [](SetupAlone /\ SilentUnlessActive)
<1>1. ObservationInit => NodeInv
  BY NodeInit DEF ObservationInit
<1>2. NodeInv /\ [ObservationNext]_<<vars, observationVars>> => NodeInv'
  BY StepOfNode, NodeNext
<1>3. NodeInv => SetupAlone /\ SilentUnlessActive
  BY DEF NodeInv
<1> QED
  BY <1>1, <1>2, <1>3, PTL DEF ObservationSpec
=============================================================================
