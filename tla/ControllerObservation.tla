----------------------- MODULE ControllerObservation -----------------------
(***************************************************************************)
(* What the controller node observes, in the lifecycle of ControllerNode:  *)
(* updateCurrentObservation polls the topics of the sensors in setupMpc    *)
(* and in each sendJointTrajectory, and gives the observation a time; the  *)
(* solver then runs on it, in the setup and in the MPC thread. Each topic  *)
(* keeps one message: what a poll finds is any message that can have come  *)
(* since the last. The stamps of a topic do not decrease, and the sensors  *)
(* use the clock of the node. The contact flags, which go to the reference *)
(* manager and not into the observation, are left out.                     *)
(*                                                                         *)
(* Definitions named Faulty... are what the definition that follows them   *)
(* would be with a plausible mistake; they are not part of the model.      *)
(***************************************************************************)
EXTENDS ControllerNode, Sequences, FiniteSetsExt

CONSTANTS
  Topics,    \* the topics of the state in the order they are polled, the joints last
  MaxTime    \* bound on the clock

\* The base transform, the base twist and the joint states.
ASSUME TopicsAssumption == Len(Topics) \in 1 .. 3 /\ DOMAIN Topics = 1 .. Len(Topics)
ASSUME MaxTimeAssumption == MaxTime \in Nat

VARIABLES
  now,        \* the clock of the node
  last,       \* lastBaseTransformTime_, lastBaseTwistTime_, lastJointStateTime_
  observed,   \* currentObservation_: its time, and where that is from
  solved      \* the observation the solver has last run on

observation == <<last, observed>>
observationVars == <<now, last, observed, solved>>

NoObservation == [time |-> 0, from |-> "nowhere"]

\* The constructor stamps every topic with the time.
ObservationInit ==
  /\ Init
  /\ now = 0
  /\ last = [topic \in DOMAIN Topics |-> now]
  /\ observed = NoObservation
  /\ solved = NoObservation

-----------------------------------------------------------------------------
(* updateCurrentObservation. A message of the wrong frame or size ends the *)
(* poll: the topics behind it are not taken, the time is not updated. A    *)
(* joint that is not known throws, after its stamp was taken over.         *)

Message_(sort, stamp) == [sort |-> sort, stamp |-> stamp]
Nothing == Message_("nothing", 0)

Arrivals(topic) ==
  {Nothing, Message_("invalid", 0)}
    \cup {Message_("whole", stamp) : stamp \in last[topic] .. now}
    \cup (IF topic = Len(Topics)
          THEN {Message_("unknown", stamp) : stamp \in last[topic] .. now} ELSE {})

\* One for each topic.
Polls == {poll \in [DOMAIN Topics -> UNION {Arrivals(topic) : topic \in DOMAIN Topics}] :
            \A topic \in DOMAIN Topics : poll[topic] \in Arrivals(topic)}

Taken(poll) ==
  {topic \in DOMAIN Topics :
     /\ poll[topic].sort \in {"whole", "unknown"}
     /\ \A before \in 1 .. topic : poll[before].sort # "invalid"}

Throws(poll) == \E topic \in Taken(poll) : poll[topic].sort = "unknown"
Ends(poll) == \E topic \in DOMAIN Topics : poll[topic].sort = "invalid"

Stamps(poll) ==
  [topic \in DOMAIN Topics |-> IF topic \in Taken(poll) THEN poll[topic].stamp ELSE last[topic]]

\* The newest stamp of a topic, be it of this poll or of an earlier one.
FaultyObservationTime(poll) ==
  IF Taken(poll) = {} THEN observed.time ELSE poll[Max(Taken(poll))].stamp
ObservationTime(poll) == Max({Stamps(poll)[topic] : topic \in DOMAIN Topics})

Observation(poll) ==
  IF Throws(poll) \/ Ends(poll) THEN observed
  ELSE [time |-> ObservationTime(poll), from |-> "sensors"]

UpdateCurrentObservation(poll) ==
  /\ last' = Stamps(poll)
  /\ observed' = Observation(poll)

-----------------------------------------------------------------------------
(* Its callers, and the solver.                                            *)

\* setupMpc polls, builds the interface, then gives the observation the time of the
\* clock and runs the solver on it. It fails in the poll or in the building with the
\* time of the sensors.
SetupOnObservation(poll) ==
  /\ SetupMpc
  /\ Throws(poll) => interface' = interface /\ map' = map
  /\ last' = Stamps(poll)
  /\ \/ /\ interface' # interface
        /\ observed' = [time |-> now, from |-> "clock"]
        /\ solved' = observed'
     \/ /\ executor' = "error"
        /\ observed' = Observation(poll)
        /\ UNCHANGED solved
  /\ UNCHANGED now

\* sendJointTrajectory hands the observation to the solver and evaluates the policy at
\* its time.
SendOnObservation(poll) ==
  /\ BeginSend
  /\ executor' = (IF Throws(poll) THEN "crashed" ELSE "send")
  /\ UpdateCurrentObservation(poll)
  /\ UNCHANGED <<now, solved>>

\* advanceMpc runs the solver on the newest observation.
AdvanceOnObservation ==
  /\ Advance
  /\ solved' = observed
  /\ UNCHANGED <<now, observation>>

Tick ==
  /\ now < MaxTime
  /\ now' = now + 1
  /\ UNCHANGED <<vars, observation, solved>>

ServeObserving ==
  \/ \E poll \in Polls : SetupOnObservation(poll)
  \/ /\ ActivateError \/ RunMpc \/ FinishActivate \/ Activated
          \/ StopController \/ Deactivated \/ EndSend
     /\ UNCHANGED observationVars

WorkObserving ==
  \/ AdvanceOnObservation
  \/ (Loop \/ Fail \/ Ask \/ StopItself \/ JoinItself) /\ UNCHANGED observationVars

ObservationNext ==
  \/ Tick
  \/ /\ Configure \/ Cleanup \/ Shutdown \/ BeginActivate \/ BeginDeactivate
          \/ Message \/ TerrainMessage
     /\ UNCHANGED observationVars
  \/ \E poll \in Polls : SendOnObservation(poll)
  \/ ServeObserving
  \/ WorkObserving

ObservationSpec ==
  /\ ObservationInit
  /\ [][ObservationNext]_<<vars, observationVars>>
  /\ WF_<<vars, observationVars>>(ServeObserving)
  /\ WF_<<vars, observationVars>>(WorkObserving)
-----------------------------------------------------------------------------
(* Properties.                                                             *)

\* The solver is not asked to go back in time, which its gait planner asserts, although
\* the topics are polled one by one, with messages missing, invalid or late, and
\* although the MPC thread runs beside the callbacks: a run is on an observation that is
\* older than that of the run before only where setupMpc took the time of the clock for
\* the latter, which is newer than every message.
ObservationInOrder ==
  [][solved'.time < solved.time => solved.from = "clock"]_<<vars, observationVars>>
=============================================================================
