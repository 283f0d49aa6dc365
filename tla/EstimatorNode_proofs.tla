------------------------ MODULE EstimatorNode_proofs ------------------------
(***************************************************************************)
(* The safety properties of EstimatorNode, for every set of joints, feet   *)
(* and messages. Each is inductive once the types are known: an action is  *)
(* a poll of the sensors, a use of what it left, or leaves them alone.     *)
(***************************************************************************)
EXTENDS EstimatorNode, TLAPS

JointsType == [queue : {{}} \cup {{m} : m \in JointMessage},
               value : {NoJoints} \cup [Joints -> Numbers], ready : BOOLEAN]
ImuType == [queue : {{}, {"right"}, {"frame"}}, value : {"zero", "new", "used"}, ready : BOOLEAN]
ContactsType == [queue : {{}} \cup {{m} : m \in ContactMessage},
                 value : UNION {[feet -> Numbers] : feet \in SUBSET Feet}, ready : BOOLEAN]

\* What a poll leaves in the joints has the type of the joints, is whole when the
\* vectors were, and is ready only with numbers no update has used.
LEMMA JointsPolled ==
  ASSUME joints \in JointsType
  PROVE  /\ JointsTaken \in JointsType
         /\ (joints.ready => DOMAIN joints.value = Joints)
              => (JointsTaken.ready => DOMAIN JointsTaken.value = Joints)
         /\ (joints.ready => \A j \in DOMAIN joints.value : joints.value[j] # "used")
              => (JointsTaken.ready =>
                    \A j \in DOMAIN JointsTaken.value : JointsTaken.value[j] # "used")
<1>1. CASE joints.queue = {}
  <2>1. JointsTaken = joints
    BY <1>1 DEF JointsTaken
  <2> QED
    BY <2>1
<1>2. CASE joints.queue # {}
  <2> DEFINE m == CHOOSE n \in joints.queue : TRUE
  <2>1. m \in JointMessage
    <3>1. PICK k \in JointMessage : joints.queue = {k}
      BY <1>2 DEF JointsType
    <3> QED
      BY <3>1
  <2>2. JointsTaken = JointsFrom(m)
    BY <1>2 DEF JointsTaken
  <2> HIDE DEF m
  <2>3. Filled(m) \in [Joints -> Numbers] /\ DOMAIN Filled(m) = Joints
        /\ \A j \in Joints : Filled(m)[j] # "used"
    BY <2>1 DEF Filled, Numbers, JointMessage
  <2>4. CASE ~m.fits
    <3>1. JointsTaken = [joints EXCEPT !.queue = {}]
      BY <2>2, <2>4 DEF JointsFrom
    <3> QED
      BY <3>1 DEF JointsType
  <2>5. CASE m.fits
    <3>1. JointsTaken = [queue |-> {}, value |-> Filled(m), ready |-> joints.ready \/ m.known]
      BY <2>2, <2>5 DEF JointsFrom
    <3>2. (joints.ready \/ m.known) \in BOOLEAN
      BY <2>1 DEF JointsType, JointMessage
    <3> QED
      BY <3>1, <3>2, <2>3 DEF JointsType
  <2> QED
    BY <2>4, <2>5
<1> QED
  BY <1>1, <1>2

\* The same of the IMU: a poll that makes it ready has stored a new value.
LEMMA ImuPolled ==
  ASSUME imu \in ImuType
  PROVE  /\ ImuTaken \in ImuType
         /\ (imu.ready => imu.value # "used") => (ImuTaken.ready => ImuTaken.value # "used")
         /\ (imu.ready => imu.value = "new") => (ImuTaken.ready => ImuTaken.value = "new")
<1>1. CASE "right" \in imu.queue
  BY <1>1 DEF ImuTaken, ImuType
<1>2. CASE "right" \notin imu.queue
  <2>1. ImuTaken = [imu EXCEPT !.queue = {}]
    BY <1>2 DEF ImuTaken
  <2> QED
    BY <2>1 DEF ImuType
<1> QED
  BY <1>1, <1>2

\* The same of the contact flags.
LEMMA ContactsPolled ==
  ASSUME contacts \in ContactsType
  PROVE  /\ ContactsTaken \in ContactsType
         /\ (contacts.ready => \A f \in DOMAIN contacts.value : contacts.value[f] # "used")
              => (ContactsTaken.ready =>
                    \A f \in DOMAIN ContactsTaken.value : ContactsTaken.value[f] # "used")
<1>1. CASE contacts.queue = {}
  <2>1. ContactsTaken = contacts
    BY <1>1 DEF ContactsTaken
  <2> QED
    BY <2>1
<1>2. CASE contacts.queue # {}
  <2> DEFINE m == CHOOSE n \in contacts.queue : TRUE
  <2>1. m \in ContactMessage
    <3>1. PICK k \in ContactMessage : contacts.queue = {k}
      BY <1>2 DEF ContactsType
    <3> QED
      BY <3>1
  <2>2. ContactsTaken = ContactsFrom(m)
    BY <1>2 DEF ContactsTaken
  <2> HIDE DEF m
  <2>3. CASE ~m.fits
    <3>1. ContactsTaken = [contacts EXCEPT !.queue = {}]
      BY <2>2, <2>3 DEF ContactsFrom
    <3> QED
      BY <3>1 DEF ContactsType
  <2>4. CASE m.fits
    <3> DEFINE flags == [f \in m.named |-> "new"]
    <3>1. ContactsTaken = [queue |-> {}, value |-> flags, ready |-> TRUE]
      BY <2>2, <2>4 DEF ContactsFrom
    <3>2. m.named \in SUBSET Feet
      BY <2>1 DEF ContactMessage
    <3>3. flags \in [m.named -> Numbers]
      BY DEF Numbers
    <3>4. flags \in UNION {[feet -> Numbers] : feet \in SUBSET Feet}
      BY <3>2, <3>3
    <3>5. \A f \in DOMAIN flags : flags[f] # "used"
      OBVIOUS
    <3> HIDE DEF flags
    <3> QED
      BY <3>1, <3>4, <3>5 DEF ContactsType
  <2> QED
    BY <2>3, <2>4
<1> QED
  BY <1>1, <1>2

\* What is handed over keeps its type and size, and is no longer ready.
LEMMA JointsSpent ==
  ASSUME NEW s \in JointsType
  PROVE  /\ Spent(s) \in JointsType
         /\ Spent(s).ready = FALSE
<1>1. AfterUse(s.value) \in {NoJoints} \cup [Joints -> Numbers]
  <2>1. CASE s.value = NoJoints
    <3>1. AfterUse(s.value) = NoJoints
      BY <2>1 DEF AfterUse, NoJoints
    <3> QED
      BY <3>1
  <2>2. CASE s.value \in [Joints -> Numbers]
    BY <2>2 DEF AfterUse, Numbers
  <2> QED
    BY <2>1, <2>2 DEF JointsType
<1> QED
  BY <1>1 DEF Spent, JointsType

\* The same of the contact flags.
LEMMA ContactsSpent ==
  ASSUME NEW s \in ContactsType
  PROVE  /\ Spent(s) \in ContactsType
         /\ Spent(s).ready = FALSE
<1>1. PICK feet \in SUBSET Feet : s.value \in [feet -> Numbers]
  BY DEF ContactsType
<1>2. AfterUse(s.value) \in [feet -> Numbers]
  BY <1>1 DEF AfterUse, Numbers
<1>3. AfterUse(s.value) \in UNION {[f -> Numbers] : f \in SUBSET Feet}
  BY <1>2
<1> QED
  BY <1>3 DEF Spent, ContactsType

-----------------------------------------------------------------------------
(* The invariant.                                                          *)

\* The biases of the filter stay zero, and its state, the low-pass filters and the
\* estimates made of them never mix what came before the last init with what came since.
MemoryInv(e) ==
  /\ e \in Estimators
  /\ e.from["biases"] = {} /\ e.from["biasEstimate"] = {}
  /\ \A q \in {"state", "velocity", "torque"} : "before" \notin e.from[q]
  /\ OfThisStart(e, "pose") /\ OfThisStart(e, "turn")

NodeInv ==
  /\ TypeOK /\ UsedOnce /\ ReadyMeansReceived /\ EstimatesWhileActive
  /\ MemoryInv(estimator)

\* A new estimator, init and update keep the invariant of the memory.
LEMMA FreshMemory == MemoryInv(Fresh)
<1>1. Fresh \in Estimators
  BY DEF Fresh, Estimators
<1>2. \A q \in Quantities : Fresh.from[q] = {}
  BY DEF Fresh
<1> QED
  BY <1>1, <1>2 DEF MemoryInv, OfThisStart, Quantities, LowPass

LEMMA StartedMemory ==
  ASSUME NEW e, MemoryInv(e)
  PROVE  MemoryInv(Started(e))
<1>1. \A q \in Quantities : AfterInit(q, e.from[q]) \in SUBSET Origins
  BY DEF AfterInit, Aged, Origins
<1>2. [q \in Quantities |-> AfterInit(q, e.from[q])] \in [Quantities -> SUBSET Origins]
  BY <1>1
<1>3. e.points \in SUBSET Feet /\ (e.lost \/ e.points # {}) \in BOOLEAN
  BY DEF MemoryInv, Estimators
<1>4. Started(e) \in Estimators
  BY <1>2, <1>3 DEF Started, Estimators
<1>5. \A q \in Quantities : Started(e).from[q] = AfterInit(q, e.from[q])
  BY DEF Started
<1>6. /\ Started(e).from["biases"] = {} /\ Started(e).from["state"] = {"start"}
      /\ Started(e).from["velocity"] = {} /\ Started(e).from["torque"] = {}
  BY <1>5 DEF Quantities, LowPass, AfterInit
<1>7. Started(e).from["biasEstimate"] = {}
  <2>1. Started(e).from["biasEstimate"] = Aged(e.from["biasEstimate"])
    BY <1>5 DEF Quantities, LowPass, AfterInit
  <2> QED
    BY <2>1 DEF MemoryInv, Aged
<1>8. OfThisStart(Started(e), "pose") /\ OfThisStart(Started(e), "turn")
  <2>1. /\ Started(e).from["pose"] = Aged(e.from["pose"])
        /\ Started(e).from["turn"] = Aged(e.from["turn"])
    BY <1>5 DEF Quantities, LowPass, AfterInit
  <2> QED
    BY <2>1 DEF OfThisStart, Aged
<1> QED
  BY <1>4, <1>6, <1>7, <1>8 DEF MemoryInv

LEMMA UpdatedMemory ==
  ASSUME NEW e, MemoryInv(e), NEW on, NEW off, on \subseteq Feet
  PROVE  MemoryInv(Updated(e, on, off))
<1> DEFINE biases == CorrectedBiases(e.from, e.points \cap Points(e, on, off) # {})
           after(q) == CASE q \in LowPass -> Filtered(q, e.from)
                         [] q \in {"state", "pose"} -> Propagated(e.from)
                         [] q \in {"biases", "biasEstimate"} -> biases
                         [] q = "turn" -> e.from["biasEstimate"] \cup {"since"}
                         [] q = "spin" -> IF DynamicContacts THEN InWorld(e.from) ELSE e.from["spin"]
<1>1. /\ e.from \in [Quantities -> SUBSET Origins] /\ e.points \in SUBSET Feet
      /\ e.lost \in BOOLEAN
  BY DEF MemoryInv, Estimators
<1>2. biases = {}
  BY DEF MemoryInv, CorrectedBiases
<1> HIDE DEF biases
<1>3. \A q \in Quantities : e.from[q] \subseteq Origins
  BY <1>1
<1>4. /\ InWorld(e.from) \subseteq Origins /\ Propagated(e.from) \subseteq Origins
      /\ {"since"} \subseteq Origins
  BY <1>3 DEF InWorld, Propagated, Quantities, LowPass, Origins
<1>5. \A q \in LowPass : Filtered(q, e.from) \subseteq Origins
  BY <1>3, <1>4 DEF Filtered, Quantities, LowPass
<1>6. \A q \in Quantities : after(q) \in SUBSET Origins
  BY <1>2, <1>3, <1>4, <1>5 DEF Quantities, LowPass
<1>7. Updated(e, on, off) =
        [from |-> [q \in Quantities |-> after(q)], points |-> Points(e, on, off), lost |-> e.lost]
  BY DEF Updated, biases
<1>8. /\ after("biases") = {} /\ after("biasEstimate") = {}
      /\ after("state") = Propagated(e.from) /\ after("pose") = Propagated(e.from)
      /\ after("velocity") = e.from["velocity"] \cup {"since"}
      /\ after("torque") = e.from["torque"] \cup {"since"}
      /\ after("turn") = e.from["biasEstimate"] \cup {"since"}
  BY <1>2 DEF LowPass, Filtered
<1> HIDE DEF after
<1>9. Updated(e, on, off) \in Estimators
  <2>1. [q \in Quantities |-> after(q)] \in [Quantities -> SUBSET Origins]
    BY <1>6
  <2>2. Points(e, on, off) \in SUBSET Feet
    BY <1>1 DEF Points
  <2> QED
    BY <1>1, <1>7, <2>1, <2>2 DEF Estimators
<1>10. \A q \in Quantities : Updated(e, on, off).from[q] = after(q)
  BY <1>7
<1>11. "before" \notin Propagated(e.from)
  BY DEF MemoryInv, Propagated
<1>12. /\ {"biases", "biasEstimate", "state", "pose", "turn", "velocity", "torque"} \subseteq Quantities
       /\ "before" \notin e.from["velocity"] /\ "before" \notin e.from["torque"]
       /\ e.from["biasEstimate"] = {}
  BY DEF MemoryInv, Quantities, LowPass
<1> QED
  BY <1>8, <1>9, <1>10, <1>11, <1>12 DEF MemoryInv, OfThisStart

\* The sensors a poll leaves satisfy what the sensors satisfied before it.
SensorsInv(j, i, c) ==
  /\ j \in JointsType /\ i \in ImuType /\ c \in ContactsType
  /\ j.ready => \A k \in DOMAIN j.value : j.value[k] # "used"
  /\ i.ready => i.value # "used"
  /\ c.ready => \A f \in DOMAIN c.value : c.value[f] # "used"
  /\ ~left => (j.ready => DOMAIN j.value = Joints) /\ (i.ready => i.value = "new")

\* The invariant gives it of the sensors as they are.
LEMMA SensorsInvNow ==
  ASSUME NodeInv
  PROVE  SensorsInv(joints, imu, contacts)
BY DEF NodeInv, TypeOK, UsedOnce, ReadyMeansReceived, SensorsInv, JointsType, ImuType, ContactsType

\* A poll keeps it, wherever it stops.
LEMMA Poll ==
  ASSUME NodeInv
  PROVE  SensorsInv(Sensed.joints, Sensed.imu, Sensed.contacts)
<1>1. SensorsInv(joints, imu, contacts)
  BY SensorsInvNow
<1>2. /\ Sensed.joints = JointsTaken
      /\ Sensed.imu \in {imu, ImuTaken}
      /\ Sensed.contacts \in {contacts, ContactsTaken}
  BY DEF Sensed
<1> HIDE DEF Sensed
<1>3. /\ Sensed.joints \in JointsType
      /\ Sensed.joints.ready =>
           \A k \in DOMAIN Sensed.joints.value : Sensed.joints.value[k] # "used"
      /\ ~left => (Sensed.joints.ready => DOMAIN Sensed.joints.value = Joints)
  BY <1>1, <1>2, JointsPolled DEF SensorsInv
<1>4. /\ Sensed.imu \in ImuType
      /\ Sensed.imu.ready => Sensed.imu.value # "used"
      /\ ~left => (Sensed.imu.ready => Sensed.imu.value = "new")
  BY <1>1, <1>2, ImuPolled DEF SensorsInv
<1>5. /\ Sensed.contacts \in ContactsType
      /\ Sensed.contacts.ready =>
           \A f \in DOMAIN Sensed.contacts.value : Sensed.contacts.value[f] # "used"
  BY <1>1, <1>2, ContactsPolled DEF SensorsInv
<1> QED
  BY <1>3, <1>4, <1>5 DEF SensorsInv

\* What the invariant says of the sensors follows for a step that leaves left alone.
LEMMA Kept ==
  ASSUME left \in BOOLEAN, left' = left, SensorsInv(joints', imu', contacts')
  PROVE  /\ joints' \in JointsType /\ imu' \in ImuType /\ contacts' \in ContactsType
         /\ UsedOnce'
         /\ ~left' => /\ joints'.ready => DOMAIN joints'.value = Joints
                      /\ imu'.ready => imu'.value = "new"
BY DEF SensorsInv, UsedOnce

\* The invariant of a step that leaves left alone, from its parts.
LEMMA Assembled ==
  ASSUME NodeInv, left' = left, SensorsInv(joints', imu', contacts'),
         lifecycle' \in {"unconfigured", "inactive", "active", "finalized", "crashed"},
         running' \in BOOLEAN, byForces' \in BOOLEAN, offered' \in BOOLEAN,
         transform' \in BOOLEAN, filter' \in BOOLEAN, output' \in {"estimate", "nothing"},
         ~left => lifecycle' # "crashed",
         MemoryInv(estimator'),
         running' => filter',
         lifecycle' \in {"unconfigured", "inactive"} => ~running'
  PROVE  NodeInv'
<1>1. left \in BOOLEAN
  BY DEF NodeInv, TypeOK
<1>2. TypeOK'
  BY <1>1, Kept DEF MemoryInv, TypeOK, JointsType, ImuType, ContactsType
<1>3. UsedOnce' /\ ReadyMeansReceived'
  BY <1>1, Kept DEF ReadyMeansReceived, Alive
<1>4. EstimatesWhileActive'
  BY DEF EstimatesWhileActive
<1> QED
  BY <1>2, <1>3, <1>4 DEF NodeInv

\* It holds in a node that has just been built.
LEMMA NodeInit == Init => NodeInv
<1> SUFFICES ASSUME Init
             PROVE  NodeInv
  OBVIOUS
<1>1. NoFlags \in UNION {[feet -> Numbers] : feet \in SUBSET Feet}
  <2>1. NoFlags \in [{} -> Numbers]
    BY DEF NoFlags, Numbers
  <2> QED
    BY <2>1
<1>2. TypeOK /\ MemoryInv(estimator)
  BY <1>1, FreshMemory DEF Init, TypeOK, MemoryInv
<1>3. UsedOnce /\ ReadyMeansReceived /\ EstimatesWhileActive
  BY DEF Init, UsedOnce, ReadyMeansReceived, EstimatesWhileActive, Alive
<1> QED
  BY <1>2, <1>3 DEF NodeInv

\* Every step keeps it.
LEMMA NodeNext == NodeInv /\ [Next]_vars => NodeInv'
<1> SUFFICES ASSUME NodeInv, [Next]_vars
             PROVE  NodeInv'
  OBVIOUS
<1>1. SensorsInv(joints, imu, contacts)
  BY SensorsInvNow
<1>2. SensorsInv(Sensed.joints, Sensed.imu, Sensed.contacts)
  BY Poll
<1>3. /\ lifecycle \in {"unconfigured", "inactive", "active", "finalized", "crashed"}
      /\ running \in BOOLEAN /\ byForces \in BOOLEAN /\ offered \in BOOLEAN
      /\ transform \in BOOLEAN /\ filter \in BOOLEAN /\ left \in BOOLEAN
      /\ output \in {"estimate", "nothing"}
      /\ ~left => lifecycle # "crashed"
      /\ running => filter
      /\ lifecycle \in {"unconfigured", "inactive"} => ~running
      /\ MemoryInv(estimator)
  BY DEF NodeInv, TypeOK, ReadyMeansReceived, Alive, EstimatesWhileActive
<1>4. CASE Configure
  <2>1. SensorsInv(joints', imu', contacts')
    <3>1. CASE UNCHANGED sensors
      BY <1>1, <1>4, <3>1 DEF Configure, sensors, SensorsInv
    <3>2. CASE /\ joints' = [joints EXCEPT !.queue = {}]
               /\ imu' = [imu EXCEPT !.queue = {}]
               /\ contacts' = [contacts EXCEPT !.queue = {}]
      <4>1. joints' \in JointsType /\ joints'.ready = joints.ready /\ joints'.value = joints.value
        BY <1>1, <3>2 DEF SensorsInv, JointsType
      <4>2. imu' \in ImuType /\ imu'.ready = imu.ready /\ imu'.value = imu.value
        BY <1>1, <3>2 DEF SensorsInv, ImuType
      <4>3. /\ contacts' \in ContactsType /\ contacts'.ready = contacts.ready
            /\ contacts'.value = contacts.value
        BY <1>1, <3>2 DEF SensorsInv, ContactsType
      <4>4. left' = left
        BY <1>4 DEF Configure
      <4> QED
        BY <1>1, <4>1, <4>2, <4>3, <4>4 DEF SensorsInv
    <3> QED
      BY <1>4, <3>1, <3>2 DEF Configure
  <2>2. /\ lifecycle' \in {"inactive", "finalized"} /\ ~running /\ running' = running
        /\ byForces' \in BOOLEAN /\ transform' \in BOOLEAN /\ filter' \in BOOLEAN
        /\ offered' = offered /\ output' = output /\ left' = left
        /\ estimator' \in {estimator, Fresh}
    BY <1>3, <1>4 DEF Configure
  <2>3. MemoryInv(estimator')
    BY <1>3, <2>2, FreshMemory
  <2> QED
    BY <1>3, <2>1, <2>2, <2>3, Assembled
<1>5. CASE Cleanup \/ Shutdown
  <2>1. SensorsInv(joints', imu', contacts')
    BY <1>1, <1>5 DEF Cleanup, Shutdown, sensors, SensorsInv
  <2>2. /\ lifecycle' \in {"unconfigured", "finalized"}
        /\ lifecycle' = "unconfigured" => ~running
        /\ UNCHANGED <<running, byForces, offered, transform, filter, estimator, left, output>>
    BY <1>3, <1>5 DEF Cleanup, Shutdown
  <2> QED
    BY <1>3, <2>1, <2>2, Assembled
<1>6. CASE Deactivate
  <2> USE <1>6 DEF Deactivate
  <2>1. joints' \in JointsType /\ joints'.value = NoJoints
    BY <1>1 DEF SensorsInv, JointsType
  <2>2. imu' \in ImuType /\ imu'.value = "zero"
    BY <1>1 DEF SensorsInv, ImuType
  <2>3. contacts' \in ContactsType /\ contacts'.value = NoFlags
    <3>1. NoFlags \in [{} -> Numbers]
      BY DEF NoFlags, Numbers
    <3>2. NoFlags \in UNION {[feet -> Numbers] : feet \in SUBSET Feet}
      BY <3>1
    <3> QED
      BY <1>1, <3>2 DEF SensorsInv, ContactsType
  <2>4. TypeOK' /\ MemoryInv(estimator')
    BY <1>3, <2>1, <2>2, <2>3 DEF MemoryInv, TypeOK, StopEstimates, JointsType, ImuType, ContactsType
  <2>5. UsedOnce'
    BY <2>1, <2>2, <2>3 DEF UsedOnce, NoJoints, NoFlags
  <2>6. ReadyMeansReceived' /\ EstimatesWhileActive'
    BY DEF ReadyMeansReceived, EstimatesWhileActive, StopEstimates
  <2> QED
    BY <2>4, <2>5, <2>6 DEF NodeInv
<1>7. CASE ActivateUnplaced \/ UNCHANGED vars
  <2>1. UNCHANGED vars
    BY <1>7 DEF ActivateUnplaced
  <2>2. SensorsInv(joints', imu', contacts')
    BY <1>1, <2>1 DEF vars, sensors, SensorsInv
  <2> QED
    BY <1>3, <2>1, <2>2, Assembled DEF vars
<1>8. CASE ActivateUnready \/ NoEstimate
  <2>1. SensorsInv(joints', imu', contacts') /\ left' = left
    BY <1>2, <1>8 DEF ActivateUnready, NoEstimate, SensorsInv
  <2>2. /\ transform' \in BOOLEAN /\ output' \in {"estimate", "nothing"}
        /\ UNCHANGED <<lifecycle, running, byForces, offered, filter, estimator>>
    BY <1>3, <1>8 DEF ActivateUnready, NoEstimate
  <2> QED
    BY <1>3, <2>1, <2>2, Assembled
<1>9. CASE Activate
  <2>1. /\ joints' = Spent(Sensed.joints) /\ imu' = [Sensed.imu EXCEPT !.ready = FALSE]
        /\ contacts' = Sensed.contacts /\ left' = left
    BY <1>9 DEF Activate
  <2>2. joints' \in JointsType /\ joints'.ready = FALSE
    BY <1>2, <2>1, JointsSpent DEF SensorsInv
  <2>3. imu' \in ImuType /\ imu'.ready = FALSE
    BY <1>2, <2>1 DEF SensorsInv, ImuType
  <2>4. SensorsInv(joints', imu', contacts')
    BY <1>2, <2>1, <2>2, <2>3 DEF SensorsInv
  <2>5. /\ \/ /\ lifecycle' = "active" /\ running' = TRUE /\ filter' = TRUE
              /\ estimator' = Started(estimator)
           \/ lifecycle' = "finalized" /\ UNCHANGED <<running, filter, estimator>>
        /\ transform' = FALSE /\ UNCHANGED <<byForces, offered, output>>
    BY <1>9 DEF Activate
  <2>6. /\ lifecycle' \in {"active", "finalized"}
        /\ running' \in BOOLEAN /\ filter' \in BOOLEAN
        /\ running' => filter'
        /\ MemoryInv(estimator')
    <3>1. CASE /\ lifecycle' = "active" /\ running' = TRUE /\ filter' = TRUE
               /\ estimator' = Started(estimator)
      BY <1>3, <3>1, StartedMemory
    <3>2. CASE lifecycle' = "finalized" /\ UNCHANGED <<running, filter, estimator>>
      BY <1>3, <3>2
    <3> QED
      BY <2>5, <3>1, <3>2
  <2>7. /\ byForces' \in BOOLEAN /\ offered' \in BOOLEAN /\ transform' \in BOOLEAN
        /\ output' \in {"estimate", "nothing"}
    BY <1>3, <2>5
  <2> QED
    <3>1. ~left => lifecycle' # "crashed"
      BY <2>6
    <3>2. lifecycle' \in {"unconfigured", "inactive"} => ~running'
      BY <2>6
    <3>3. lifecycle' \in {"unconfigured", "inactive", "active", "finalized", "crashed"}
      BY <2>6
    <3> QED
      BY <2>1, <2>4, <2>6, <2>7, <3>1, <3>2, <3>3, Assembled
<1>10. CASE Estimate
  <2>1. /\ joints' = Spent(Sensed.joints) /\ contacts' = Spent(Sensed.contacts)
        /\ imu' = [Sensed.imu EXCEPT !.value = IF @ = "new" THEN "used" ELSE @, !.ready = FALSE]
        /\ left' = left /\ Sensed.joints.ready
    BY <1>10 DEF Estimate, AllReady
  <2>2. joints' \in JointsType /\ joints'.ready = FALSE
    BY <1>2, <2>1, JointsSpent DEF SensorsInv
  <2>3. imu' \in ImuType /\ imu'.ready = FALSE
    BY <1>2, <2>1 DEF SensorsInv, ImuType
  <2>4. contacts' \in ContactsType /\ contacts'.ready = FALSE
    BY <1>2, <2>1, ContactsSpent DEF SensorsInv
  <2>5. SensorsInv(joints', imu', contacts')
    BY <2>2, <2>3, <2>4 DEF SensorsInv
  <2>6. ~left => RightSize(Sensed.joints.value)
    BY <1>2, <2>1 DEF SensorsInv, RightSize
  <2>7. /\ \/ output' = "estimate" /\ UNCHANGED lifecycle
           \/ output' = "nothing" /\ lifecycle' = "crashed" /\ left
        /\ UNCHANGED <<running, byForces, offered, transform, filter>>
    BY <1>10, <2>6, <1>3 DEF Estimate
  <2>8. DOMAIN Sensed.contacts.value \subseteq Feet
    BY <1>2 DEF SensorsInv, ContactsType
  <2>9. MemoryInv(estimator')
    <3>1. CASE UNCHANGED estimator
      BY <1>3, <3>1
    <3>2. CASE \E on \in SUBSET DOMAIN Sensed.contacts.value :
                 estimator' = Updated(estimator, on, DOMAIN Sensed.contacts.value \ on)
      BY <1>3, <2>8, <3>2, UpdatedMemory
    <3> QED
      BY <1>10, <3>1, <3>2 DEF Estimate
  <2> QED
    BY <1>3, <2>1, <2>5, <2>7, <2>9, Assembled
<1>11. CASE Arrive
  <2>1. /\ UNCHANGED <<lifecycle, running, byForces, filter, estimator, left, output>>
        /\ offered' \in BOOLEAN /\ transform' \in BOOLEAN
    BY <1>3, <1>11
    DEF Arrive, PoseArrives, JointsArrive, ImuArrives, ContactsArrive, Subscribed
  <2>2. CASE PoseArrives
    BY <1>1, <1>3, <2>1, <2>2, Assembled DEF PoseArrives, sensors, SensorsInv
  <2>3. CASE \E message \in JointMessages : JointsArrive(message)
    <3>1. PICK message \in JointMessages : JointsArrive(message)
      BY <2>3
    <3>2. /\ joints' \in JointsType /\ joints'.ready = joints.ready
          /\ joints'.value = joints.value
      BY <1>1, <3>1, JointMessagesAssumption DEF JointsArrive, SensorsInv, JointsType
    <3>3. SensorsInv(joints', imu', contacts')
      BY <1>1, <2>1, <3>1, <3>2 DEF JointsArrive, SensorsInv
    <3> QED
      BY <1>3, <2>1, <3>3, Assembled
  <2>4. CASE \E message \in {"right", "frame"} : ImuArrives(message)
    <3>1. PICK message \in {"right", "frame"} : ImuArrives(message)
      BY <2>4
    <3>2. imu' \in ImuType /\ imu'.ready = imu.ready /\ imu'.value = imu.value
      BY <1>1, <3>1 DEF ImuArrives, SensorsInv, ImuType
    <3>3. SensorsInv(joints', imu', contacts')
      BY <1>1, <2>1, <3>1, <3>2 DEF ImuArrives, SensorsInv
    <3> QED
      BY <1>3, <2>1, <3>3, Assembled
  <2>5. CASE \E message \in ContactMessages : ContactsArrive(message)
    <3>1. PICK message \in ContactMessages : ContactsArrive(message)
      BY <2>5
    <3>2. /\ contacts' \in ContactsType /\ contacts'.ready = contacts.ready
          /\ contacts'.value = contacts.value
      BY <1>1, <3>1, ContactMessagesAssumption DEF ContactsArrive, SensorsInv, ContactsType
    <3>3. SensorsInv(joints', imu', contacts')
      BY <1>1, <2>1, <3>1, <3>2 DEF ContactsArrive, SensorsInv
    <3> QED
      BY <1>3, <2>1, <3>3, Assembled
  <2> QED
    BY <1>11, <2>2, <2>3, <2>4, <2>5 DEF Arrive
<1> QED
  BY <1>4, <1>5, <1>6, <1>7, <1>8, <1>9, <1>10, <1>11 DEF Next, Timer

\* The invariant holds for every set of joints, feet and messages.
THEOREM NodeCorrect == Spec => []NodeInv
BY NodeInit, NodeNext, PTL DEF Spec

\* The values keep their types through polls that stop half way.
THEOREM TypeCorrect == Spec => []TypeOK
<1>1. NodeInv => TypeOK
  BY DEF NodeInv
<1> QED
  BY <1>1, NodeCorrect, PTL

\* No measurement goes into the filter twice, whatever comes on the topics.
THEOREM MeasurementsUsedOnce == Spec => []UsedOnce
<1>1. NodeInv => UsedOnce
  BY DEF NodeInv
<1> QED
  BY <1>1, NodeCorrect, PTL

\* Until a deactivation the flags stand for data and the program does not end.
THEOREM FirstActivationSafe == Spec => []ReadyMeansReceived
<1>1. NodeInv => ReadyMeansReceived
  BY DEF NodeInv
<1> QED
  BY <1>1, NodeCorrect, PTL

\* Only an initialised filter of an active node makes estimates.
THEOREM EstimatesOnlyActive == Spec => []EstimatesWhileActive
<1>1. NodeInv => EstimatesWhileActive
  BY DEF NodeInv
<1> QED
  BY <1>1, NodeCorrect, PTL

\* What the node publishes has nothing of the activations before, whatever the order of
\* messages, activations and deactivations.
THEOREM PublishesOnlyThisStart == Spec => []PublishesThisStart
<1>1. NodeInv => PublishesThisStart
  <2> SUFFICES ASSUME NodeInv, NEW q \in Published PROVE OfThisStart(estimator, q)
    BY DEF PublishesThisStart
  <2> QED
    BY DEF NodeInv, MemoryInv, Published, OfThisStart
<1> QED
  BY <1>1, NodeCorrect, PTL
=============================================================================
