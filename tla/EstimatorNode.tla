--------------------------- MODULE EstimatorNode ---------------------------
(***************************************************************************)
(* LeggedStateEstimatorNode: its lifecycle, its timer and the three sensor *)
(* topics it polls. The subscriptions are never served by the executor:    *)
(* each keeps its last message until updateCurrentSensorData takes it. The *)
(* timer and the transitions share the default group of the node and run   *)
(* one at a time; messages arrive at any moment.                           *)
(*                                                                         *)
(* Each sensor is a record of the queue of its subscription (empty, or the *)
(* last message), the value the node has stored and the flag that says the *)
(* value is ready. A stored number is "new", "used" by an update or an     *)
(* init, or "garbage": the vectors of the joints are resized without being *)
(* filled.                                                                 *)
(*                                                                         *)
(* Definitions named Faulty... are what the definition that follows them   *)
(* would be with a plausible mistake; they are not part of the model.      *)
(***************************************************************************)
EXTENDS LeggedStateEstimator

CONSTANTS
  Joints,          \* jointNames_
  JointMessages,   \* what may come on /joint_states
  ContactMessages  \* what may come on /contacts

\* fits: the sizes agree. The names are read in order: named are the joints met
\* before the end, or before the first name that is not known.
JointMessage == [fits : BOOLEAN, known : BOOLEAN, named : SUBSET Joints]

\* An unknown frame is stored under an index that no foot has.
ContactMessage == [fits : BOOLEAN, named : SUBSET Feet]

ASSUME JointMessagesAssumption == JointMessages \subseteq JointMessage
ASSUME ContactMessagesAssumption == ContactMessages \subseteq ContactMessage

VARIABLES
  lifecycle,   \* the state of the lifecycle node, "crashed" when the program ended
  running,     \* estimatorRunning_
  byForces,    \* settings.use_contact_estimator
  offered,     \* a start pose has been published; its publisher keeps the last one
  transform,   \* startBaseTransformSubscriber_ holds a message
  joints,      \* jointStateSubscriber_; jointPositions_ and its like; jointsReady_
  imu,         \* imuSubscriber_; quaterion_ and its like; imuReady_
  contacts,    \* contactsSubscriber_; contactFlags_; contactsReady_
  filter,      \* the estimator has been initialised since it was built
  estimator,   \* leggedStateEstimator_: what its memory comes from
  left,        \* history: the node has been deactivated since it was built
  output       \* history: what the timer did last, "estimate" or "nothing"

sensors == <<joints, imu, contacts>>
vars == <<lifecycle, running, byForces, offered, transform, sensors, filter, estimator, left, output>>

Numbers == {"new", "used", "garbage"}
NoJoints == [j \in {} |-> "used"]
NoFlags == [f \in {} |-> "used"]

Init ==
  /\ lifecycle = "unconfigured" /\ running = FALSE /\ byForces = FALSE
  /\ offered = FALSE /\ transform = FALSE
  /\ joints = [queue |-> {}, value |-> NoJoints, ready |-> FALSE]
  /\ imu = [queue |-> {}, value |-> "zero", ready |-> FALSE]
  /\ contacts = [queue |-> {}, value |-> NoFlags, ready |-> FALSE]
  /\ filter = FALSE /\ estimator = Fresh /\ left = FALSE /\ output = "nothing"

Alive == lifecycle # "crashed"
-----------------------------------------------------------------------------
(* updateCurrentSensorData: what one poll makes of the three sensors.      *)

\* The vectors are resized, then filled name by name.
Filled(message) == [j \in Joints |-> IF j \in message.named THEN "new" ELSE "garbage"]

FaultyJointsFrom(message) ==
  IF ~message.fits
  THEN [joints EXCEPT !.queue = {}, !.ready = TRUE]
  ELSE [queue |-> {}, value |-> Filled(message), ready |-> TRUE]
JointsFrom(message) ==
  IF ~message.fits
  THEN [joints EXCEPT !.queue = {}]
  ELSE [queue |-> {}, value |-> Filled(message), ready |-> joints.ready \/ message.known]

JointsTaken ==
  IF joints.queue = {} THEN joints ELSE JointsFrom(CHOOSE m \in joints.queue : TRUE)
JointsRejected == \E m \in joints.queue : ~m.fits \/ ~m.known

\* A message of the IMU is right or has another frame.
ImuTaken ==
  IF "right" \in imu.queue THEN [queue |-> {}, value |-> "new", ready |-> TRUE]
                           ELSE [imu EXCEPT !.queue = {}]
ImuRejected == "frame" \in imu.queue

FaultyContactsFrom(message) ==
  IF ~message.fits
  THEN [contacts EXCEPT !.queue = {}]
  ELSE [contacts EXCEPT !.queue = {}, !.value = [f \in message.named |-> "new"]]
ContactsFrom(message) ==
  IF ~message.fits
  THEN [contacts EXCEPT !.queue = {}]
  ELSE [queue |-> {}, value |-> [f \in message.named |-> "new"], ready |-> TRUE]

ContactsTaken ==
  IF contacts.queue = {} THEN contacts ELSE ContactsFrom(CHOOSE m \in contacts.queue : TRUE)

\* A message that is refused ends the poll: the sensors after it keep their queue.
Sensed ==
  [joints |-> JointsTaken,
   imu |-> IF JointsRejected THEN imu ELSE ImuTaken,
   contacts |-> IF JointsRejected \/ ImuRejected \/ byForces THEN contacts ELSE ContactsTaken]

-----------------------------------------------------------------------------
(* LeggedStateEstimator: init and update refuse vectors of another size.   *)

RightSize(value) == DOMAIN value = Joints

AfterUse(value) == [j \in DOMAIN value |-> IF value[j] = "new" THEN "used" ELSE value[j]]

\* What is left of a sensor whose value has been handed over.
FaultySpent(sensor) == [sensor EXCEPT !.value = AfterUse(@)]
Spent(sensor) == [sensor EXCEPT !.value = AfterUse(@), !.ready = FALSE]

-----------------------------------------------------------------------------
(* The transitions.                                                        *)

\* on_configure makes the estimator and the subscriptions anew; the topic of the
\* start pose hands its last message to a new subscription.
Configure ==
  /\ lifecycle = "unconfigured"
  /\ \/ /\ lifecycle' = "inactive" /\ byForces' \in BOOLEAN
        /\ transform' = offered
        /\ joints' = [joints EXCEPT !.queue = {}] /\ imu' = [imu EXCEPT !.queue = {}]
        /\ contacts' = [contacts EXCEPT !.queue = {}]
        /\ filter' = FALSE /\ estimator' = Fresh
     \/ /\ lifecycle' = "finalized"
        /\ UNCHANGED <<byForces, transform, sensors, filter, estimator>>
  /\ UNCHANGED <<running, offered, left, output>>

\* The transitions the node leaves as they are: they change nothing else.
Cleanup ==
  /\ lifecycle = "inactive"
  /\ lifecycle' = "unconfigured"
  /\ UNCHANGED <<running, byForces, offered, transform, sensors, filter, estimator, left, output>>

Shutdown ==
  /\ lifecycle \in {"unconfigured", "inactive", "active"}
  /\ lifecycle' = "finalized"
  /\ UNCHANGED <<running, byForces, offered, transform, sensors, filter, estimator, left, output>>

\* on_activate without a start pose.
ActivateUnplaced ==
  /\ lifecycle = "inactive" /\ ~transform
  /\ UNCHANGED vars

\* on_activate with a start pose, which it takes, and a poll that leaves the joints
\* or the IMU not ready: the pose is lost.
ActivateUnready ==
  /\ lifecycle = "inactive" /\ transform
  /\ ~(Sensed.joints.ready /\ Sensed.imu.ready)
  /\ transform' = FALSE
  /\ joints' = Sensed.joints /\ imu' = Sensed.imu /\ contacts' = Sensed.contacts
  /\ UNCHANGED <<lifecycle, running, byForces, offered, filter, estimator, left, output>>

\* on_activate with all it needs: init uses the positions of the joints, and
\* refuses them when a deactivation has emptied them; the error finalizes the node.
Activate ==
  /\ lifecycle = "inactive" /\ transform
  /\ Sensed.joints.ready /\ Sensed.imu.ready
  /\ transform' = FALSE
  /\ joints' = Spent(Sensed.joints)
  /\ imu' = [Sensed.imu EXCEPT !.ready = FALSE] /\ contacts' = Sensed.contacts
  /\ IF RightSize(Sensed.joints.value)
     THEN /\ lifecycle' = "active" /\ running' = TRUE
          /\ filter' = TRUE /\ estimator' = Started(estimator)
     ELSE lifecycle' = "finalized" /\ UNCHANGED <<running, filter, estimator>>
  /\ UNCHANGED <<byForces, offered, left, output>>

FaultyStopEstimates == UNCHANGED running
StopEstimates == running' = FALSE

\* on_deactivate empties the values and leaves the flags and the queues.
Deactivate ==
  /\ lifecycle = "active"
  /\ StopEstimates
  /\ lifecycle' = "inactive" /\ left' = TRUE
  /\ joints' = [joints EXCEPT !.value = NoJoints]
  /\ imu' = [imu EXCEPT !.value = "zero"]
  /\ contacts' = [contacts EXCEPT !.value = NoFlags]
  /\ UNCHANGED <<byForces, offered, transform, filter, estimator, output>>

-----------------------------------------------------------------------------
(* sendStateEstimations.                                                   *)

AllReady == Sensed.joints.ready /\ Sensed.imu.ready /\ Sensed.contacts.ready

\* A vector of another size throws out of the timer and ends the program.
Estimate ==
  /\ Alive /\ running
  /\ AllReady
  /\ joints' = Spent(Sensed.joints) /\ contacts' = Spent(Sensed.contacts)
  /\ imu' = [Sensed.imu EXCEPT !.value = IF @ = "new" THEN "used" ELSE @, !.ready = FALSE]
  /\ IF RightSize(Sensed.joints.value)
     THEN /\ \E on \in SUBSET DOMAIN Sensed.contacts.value :
               estimator' = Updated(estimator, on, DOMAIN Sensed.contacts.value \ on)
          /\ output' = "estimate" /\ UNCHANGED lifecycle
     ELSE output' = "nothing" /\ lifecycle' = "crashed" /\ UNCHANGED estimator
  /\ UNCHANGED <<running, byForces, offered, transform, filter, left>>

NoEstimate ==
  /\ Alive /\ running
  /\ ~AllReady
  /\ joints' = Sensed.joints /\ imu' = Sensed.imu /\ contacts' = Sensed.contacts
  /\ output' = "nothing"
  /\ UNCHANGED <<lifecycle, running, byForces, offered, transform, filter, estimator, left>>

Timer == Estimate \/ NoEstimate
-----------------------------------------------------------------------------
(* The topics, once on_configure has subscribed: the last message stays.   *)

Subscribed == lifecycle \in {"inactive", "active"} \/ (lifecycle = "finalized" /\ running)

PoseArrives ==
  /\ Alive
  /\ offered' = TRUE /\ transform' = Subscribed
  /\ UNCHANGED <<lifecycle, running, byForces, sensors, filter, estimator, left, output>>

JointsArrive(message) ==
  /\ Subscribed
  /\ joints' = [joints EXCEPT !.queue = {message}]
  /\ UNCHANGED <<lifecycle, running, byForces, offered, transform, imu, contacts,
                 filter, estimator, left, output>>

ImuArrives(message) ==
  /\ Subscribed
  /\ imu' = [imu EXCEPT !.queue = {message}]
  /\ UNCHANGED <<lifecycle, running, byForces, offered, transform, joints, contacts,
                 filter, estimator, left, output>>

ContactsArrive(message) ==
  /\ Subscribed /\ ~byForces
  /\ contacts' = [contacts EXCEPT !.queue = {message}]
  /\ UNCHANGED <<lifecycle, running, byForces, offered, transform, joints, imu,
                 filter, estimator, left, output>>

WholeJoints == [fits |-> TRUE, known |-> TRUE, named |-> Joints]
WholeContacts == [fits |-> TRUE, named |-> Feet]

Arrive ==
  \/ PoseArrives
  \/ \E message \in JointMessages : JointsArrive(message)
  \/ \E message \in {"right", "frame"} : ImuArrives(message)
  \/ \E message \in ContactMessages : ContactsArrive(message)

Next ==
  \/ Configure \/ Cleanup \/ Shutdown \/ Deactivate
  \/ ActivateUnplaced \/ ActivateUnready \/ Activate
  \/ Timer \/ Arrive

\* The timer fires, and the sensors go on publishing right messages among others.
Fairness ==
  /\ WF_vars(Timer)
  /\ WF_vars(JointsArrive(WholeJoints)) /\ WF_vars(ImuArrives("right"))
  /\ WF_vars(ContactsArrive(WholeContacts))

Spec == Init /\ [][Next]_vars /\ Fairness
-----------------------------------------------------------------------------
(* Properties.                                                             *)

\* The variables have their types, and the queues hold at most one message.
TypeOK ==
  /\ lifecycle \in {"unconfigured", "inactive", "active", "finalized", "crashed"}
  /\ running \in BOOLEAN /\ byForces \in BOOLEAN /\ offered \in BOOLEAN
  /\ transform \in BOOLEAN /\ filter \in BOOLEAN /\ left \in BOOLEAN
  /\ output \in {"estimate", "nothing"} /\ estimator \in Estimators
  /\ joints \in [queue : {{}} \cup {{m} : m \in JointMessage},
                 value : {NoJoints} \cup [Joints -> Numbers], ready : BOOLEAN]
  /\ imu \in [queue : {{}, {"right"}, {"frame"}}, value : {"zero", "new", "used"},
              ready : BOOLEAN]
  /\ contacts \in [queue : {{}} \cup {{m} : m \in ContactMessage},
                   value : UNION {[feet -> Numbers] : feet \in SUBSET Feet}, ready : BOOLEAN]

\* A measurement goes into the filter once: whatever the messages, failed
\* activations and deactivations in between, a flag never stands for a value that an
\* update or an init has used.
UsedOnce ==
  /\ joints.ready => \A j \in DOMAIN joints.value : joints.value[j] # "used"
  /\ imu.ready => imu.value # "used"
  /\ contacts.ready => \A f \in DOMAIN contacts.value : contacts.value[f] # "used"

\* Until the first deactivation a flag stands for a value that was received, so
\* that neither init nor update refuses its vectors.
ReadyMeansReceived ==
  ~left =>
    /\ Alive
    /\ joints.ready => DOMAIN joints.value = Joints
    /\ imu.ready => imu.value = "new"

\* An estimate is made by a filter that has been initialised in this activation,
\* and a node that is inactive or unconfigured makes none.
EstimatesWhileActive ==
  /\ running => filter
  /\ lifecycle \in {"unconfigured", "inactive"} => ~running

\* Activated again, the node publishes nothing of the activations before: the pose,
\* the velocities and the torques computed since the last init come from it and from
\* what was handed over since, as long as init never met a foot in contact.
PublishesThisStart ==
  ~estimator.lost => \A q \in Published : OfThisStart(estimator, q)

\* While it runs and all its messages are right in the end, the node estimates
\* again and again, if the contacts come from a topic.
RightMessages ==
  /\ joints.queue \subseteq {WholeJoints} /\ imu.queue \subseteq {"right"}
  /\ contacts.queue \subseteq {WholeContacts}

EstimatesFlow ==
  (<>[](Alive /\ running /\ ~byForces /\ RightMessages)) => []<>(output = "estimate")
=============================================================================
