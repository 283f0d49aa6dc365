--------------------------- MODULE ControllerNode ---------------------------
(***************************************************************************)
(* LeggedLocomotionMpcControllerNode: the lifecycle of the controller node *)
(* and its two threads. The executor runs one callback at a time, because  *)
(* subscriptions, timer and lifecycle services share the node's default    *)
(* group; the MPC thread runs beside it, and asks for a transition itself  *)
(* when its solver fails. The transitions are those of the lifecycle node  *)
(* of rclcpp: a callback that returns ERROR or throws ends in finalized,   *)
(* and a request the state does not allow is refused.                      *)
(*                                                                         *)
(* A LeggedInterface is named by the number of the setup that built it.    *)
(*                                                                         *)
(* Definitions named Faulty... are what the definition that follows them   *)
(* would be with a plausible mistake; they are not part of the model.      *)
(***************************************************************************)
EXTENDS Integers

CONSTANT MaxSetups   \* bound on the number of activations

ASSUME MaxSetupsAssumption == MaxSetups \in Nat \ {0}

VARIABLES
  lifecycle,    \* the state of the lifecycle node
  executor,     \* where the callback the executor runs has got to
  thread,       \* mpcThread_: where its loop has got to; "none": not joinable
  running,      \* controllerRunning_
  publisher,    \* jointTrajectoryPublisher_ is activated
  subscribed,   \* on_configure has made the subscriptions and the timer
  interface,    \* leggedInterfacePtr_ with mpcPtr_ and mpcMrtPtr_; 0: null
  manager,      \* referenceManagerPtr_: the interface it points into
  map,          \* terrainModelPtr_ holds a map
  ground,       \* the terrain of the interface: "plane" or "map"
  seen          \* a map has been received since the node was built

vars == <<lifecycle, executor, thread, running, publisher, subscribed,
          interface, manager, map, ground, seen>>

Null == 0
Garbage == -1

\* The constructor gives neither the flag nor the manager pointer a value.
Init ==
  /\ lifecycle = "unconfigured" /\ executor = "idle" /\ thread = "none"
  /\ running \in BOOLEAN /\ manager \in {Null, Garbage}
  /\ publisher = FALSE /\ subscribed = FALSE /\ interface = Null
  /\ map = FALSE /\ ground = "plane" /\ seen = FALSE

-----------------------------------------------------------------------------
(* The transitions the executor serves.                                    *)

\* on_configure: a missing file finalizes the node, and so do bad settings of the MPC, which
\* are loaded after the subscriptions.
Configure ==
  /\ executor = "idle" /\ lifecycle = "unconfigured"
  /\ \/ lifecycle' = "inactive" /\ subscribed' = TRUE
     \/ lifecycle' = "finalized" /\ subscribed' \in {subscribed, TRUE}
  /\ UNCHANGED <<executor, thread, running, publisher, interface, manager, map, ground, seen>>

\* The transitions the node leaves as they are: they change nothing else.
Cleanup ==
  /\ executor = "idle" /\ lifecycle = "inactive"
  /\ lifecycle' = "unconfigured"
  /\ UNCHANGED <<executor, thread, running, publisher, subscribed, interface, manager,
                 map, ground, seen>>

Shutdown ==
  /\ executor = "idle" /\ lifecycle \in {"unconfigured", "inactive", "active"}
  /\ lifecycle' = "finalized"
  /\ UNCHANGED <<executor, thread, running, publisher, subscribed, interface, manager,
                 map, ground, seen>>

BeginActivate ==
  /\ executor = "idle" /\ lifecycle = "inactive" /\ interface < MaxSetups
  /\ lifecycle' = "activating" /\ executor' = "setup"
  /\ UNCHANGED <<thread, running, publisher, subscribed, interface, manager, map, ground, seen>>

\* setupMpc: the interface takes the terrain. A failure leaves the old interface
\* (no observation, or a bad model), or the new one (no first policy).
SetupMpc ==
  /\ executor = "setup"
  /\ \/ /\ executor' \in {"run", "error"}
        /\ interface' = interface + 1 /\ manager' = interface'
        /\ ground' = (IF map THEN "map" ELSE "plane") /\ map' = FALSE
     \/ /\ executor' = "error" /\ map' \in {map, FALSE}
        /\ UNCHANGED <<interface, manager, ground>>
  /\ UNCHANGED <<lifecycle, thread, running, publisher, subscribed, seen>>

ActivateError ==
  /\ executor = "error"
  /\ lifecycle' = "finalized" /\ executor' = "idle"
  /\ UNCHANGED <<thread, running, publisher, subscribed, interface, manager, map, ground, seen>>

\* runMpc, then the rest of on_activate, then the transition of the node.
RunMpc ==
  /\ executor = "run"
  /\ thread' = "loop" /\ executor' = "started"
  /\ UNCHANGED <<lifecycle, running, publisher, subscribed, interface, manager, map, ground, seen>>

FinishActivate ==
  /\ executor = "started"
  /\ publisher' = TRUE /\ running' = TRUE /\ executor' = "activated"
  /\ UNCHANGED <<lifecycle, thread, subscribed, interface, manager, map, ground, seen>>

Activated ==
  /\ executor = "activated"
  /\ lifecycle' = "active" /\ executor' = "idle"
  /\ UNCHANGED <<thread, running, publisher, subscribed, interface, manager, map, ground, seen>>

\* on_deactivate: it stops the loop and the commands, then joins the thread.
FaultyMayDeactivate(state) == TRUE
FaultyMayCleanup(state) == state = "inactive"
MayDeactivate(state) == state = "active"

FaultyStop == UNCHANGED running /\ publisher' = FALSE
FaultyKeepPublishing == running' = FALSE /\ UNCHANGED publisher
Stop == running' = FALSE /\ publisher' = FALSE

FaultyJoinThread == UNCHANGED thread
JoinThread == thread \in {"none", "done"} /\ thread' = "none"

BeginDeactivate ==
  /\ executor = "idle" /\ MayDeactivate(lifecycle)
  /\ lifecycle' = "deactivating" /\ executor' = "stop"
  /\ UNCHANGED <<thread, running, publisher, subscribed, interface, manager, map, ground, seen>>

StopController ==
  /\ executor = "stop"
  /\ Stop /\ executor' = "join"
  /\ UNCHANGED <<lifecycle, thread, subscribed, interface, manager, map, ground, seen>>

Deactivated ==
  /\ executor = "join"
  /\ JoinThread
  /\ lifecycle' = "inactive" /\ executor' = "idle"
  /\ UNCHANGED <<running, publisher, subscribed, interface, manager, map, ground, seen>>

-----------------------------------------------------------------------------
(* The other callbacks of the executor.                                    *)

\* What the callbacks of the subscriptions find: a manager to hand the message
\* to, nothing, or a pointer that ends the program.
FindsManager == running /\ manager # Null

\* updateCommand, updateGaitParameters, updateSwingParameters.
Message ==
  /\ executor = "idle" /\ subscribed
  /\ FindsManager
  /\ executor' = IF manager = Garbage THEN "crashed" ELSE "idle"
  /\ UNCHANGED <<lifecycle, thread, running, publisher, subscribed, interface, manager,
                 map, ground, seen>>

\* updateSegmentedTerrain: the new map goes to the manager, or waits for one.
TerrainMessage ==
  /\ executor = "idle" /\ subscribed
  /\ seen' = TRUE
  /\ map' = ~FindsManager
  /\ executor' = IF FindsManager /\ manager = Garbage THEN "crashed" ELSE "idle"
  /\ ground' = IF FindsManager THEN "map" ELSE ground
  /\ UNCHANGED <<lifecycle, thread, running, publisher, subscribed, interface, manager>>

\* sendJointTrajectory: it reads the flag, then works and publishes; a joint it
\* does not know throws, which ends the program.
BeginSend ==
  /\ executor = "idle" /\ subscribed
  /\ interface # Null /\ running
  /\ executor' \in {"send", "crashed"}
  /\ UNCHANGED <<lifecycle, thread, running, publisher, subscribed, interface, manager,
                 map, ground, seen>>

EndSend ==
  /\ executor = "send"
  /\ executor' = "idle"
  /\ UNCHANGED <<lifecycle, thread, running, publisher, subscribed, interface, manager,
                 map, ground, seen>>

-----------------------------------------------------------------------------
(* The MPC thread.                                                         *)

Alive == executor # "crashed"

Loop ==
  /\ Alive /\ thread = "loop"
  /\ thread' = IF running THEN "advance" ELSE "done"
  /\ UNCHANGED <<lifecycle, executor, running, publisher, subscribed, interface, manager,
                 map, ground, seen>>

\* advanceMpc and the sleep that follows it.
Advance ==
  /\ Alive /\ thread = "advance"
  /\ thread' \in {"loop", "failed"}
  /\ UNCHANGED <<lifecycle, executor, running, publisher, subscribed, interface, manager,
                 map, ground, seen>>

\* The handler of its exceptions, which then asks for the transition.
FaultyFailStops == UNCHANGED running
FailStops == running' = FALSE

Fail ==
  /\ Alive /\ thread = "failed"
  /\ FailStops /\ thread' = "ask"
  /\ UNCHANGED <<lifecycle, executor, publisher, subscribed, interface, manager,
                 map, ground, seen>>

Ask ==
  /\ Alive /\ thread = "ask"
  /\ IF MayDeactivate(lifecycle)
     THEN lifecycle' = "deactivating" /\ thread' = "stop"
     ELSE thread' = "loop" /\ UNCHANGED lifecycle
  /\ UNCHANGED <<executor, running, publisher, subscribed, interface, manager, map, ground, seen>>

\* on_deactivate in the thread itself: a join of itself throws, and the error
\* finalizes the node.
StopItself ==
  /\ Alive /\ thread = "stop"
  /\ Stop /\ thread' = "join"
  /\ UNCHANGED <<lifecycle, executor, subscribed, interface, manager, map, ground, seen>>

JoinItself ==
  /\ Alive /\ thread = "join"
  /\ lifecycle' = "finalized" /\ thread' = "loop"
  /\ UNCHANGED <<executor, running, publisher, subscribed, interface, manager,
                 map, ground, seen>>

Serve == SetupMpc \/ ActivateError \/ RunMpc \/ FinishActivate \/ Activated
           \/ StopController \/ Deactivated \/ EndSend
Work == Loop \/ Advance \/ Fail \/ Ask \/ StopItself \/ JoinItself

Next ==
  \/ Configure \/ Cleanup \/ Shutdown \/ BeginActivate \/ BeginDeactivate
  \/ Message \/ TerrainMessage \/ BeginSend
  \/ Serve \/ Work

\* A callback that has begun goes on, and so does the thread.
Spec == Init /\ [][Next]_vars /\ WF_vars(Serve) /\ WF_vars(Work)
-----------------------------------------------------------------------------
(* Properties.                                                             *)

FlagsOK ==
  /\ running \in BOOLEAN /\ publisher \in BOOLEAN /\ subscribed \in BOOLEAN
  /\ map \in BOOLEAN /\ seen \in BOOLEAN

\* The variables have their types, and a transition in progress is the work of
\* one thread: the executor activates or deactivates, or the MPC thread does.
TypeOK ==
  /\ lifecycle \in {"unconfigured", "inactive", "activating", "active", "deactivating",
                    "finalized"}
  /\ executor \in {"idle", "setup", "error", "run", "started", "activated", "stop", "join",
                   "send", "crashed"}
  /\ thread \in {"none", "loop", "advance", "failed", "ask", "stop", "join", "done"}
  /\ FlagsOK
  /\ interface \in 0 .. MaxSetups /\ manager \in Garbage .. MaxSetups
  /\ ground \in {"plane", "map"}
  /\ lifecycle = "activating" <=> executor \in {"setup", "error", "run", "started", "activated"}
  /\ executor \in {"stop", "join"} => lifecycle = "deactivating"
  /\ thread \in {"stop", "join"} => lifecycle = "deactivating"
  /\ ~(executor \in {"stop", "join"} /\ thread \in {"stop", "join"})

\* Nothing uses the solver while setupMpc replaces it, and no thread is lost when
\* runMpc starts another: the last thread has been joined.
SetupAlone == executor \in {"setup", "run"} => thread = "none"

\* A node that has been deactivated or cleaned up does not command the robot.
SilentUnlessActive == lifecycle \in {"unconfigured", "inactive"} => ~publisher

\* A deactivation ends, whichever thread does it and whatever the other one does:
\* the join never waits for a thread that waits for the transition.
DeactivationEnds ==
  lifecycle = "deactivating" ~> (lifecycle \in {"inactive", "finalized"} \/ ~Alive)

\* A solver that fails in an active node does not leave the node active.
FailureEndsActive ==
  (thread = "failed" /\ lifecycle = "active") ~> (lifecycle # "active" \/ ~Alive)

\* A loop whose solver failed ends, also where its request for the transition is refused: the
\* node was shut down, is being deactivated, or is finalized by the join that failed. (While
\* the node is being activated on_activate may set the flag after the handler cleared it.)
FailedThreadEnds ==
  (thread = "failed" /\ lifecycle # "activating") ~> (thread \in {"none", "done"} \/ ~Alive)

\* An active node runs its MPC loop (the log of on_activate: "MPC/MRT loop
\* activated!").
ActiveRunsMpc == lifecycle = "active" => thread # "done"

\* An activation uses a map that has been received (the warning of setupMpc for a
\* plane: "Did not get any segmented plane terrain").
MapIsUsed == executor = "run" /\ seen => ground = "map"
=============================================================================
