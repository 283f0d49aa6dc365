------------------------ MODULE LeggedStateEstimator ------------------------
(***************************************************************************)
(* The memory of LeggedStateEstimator: the invariant filter, the low-pass  *)
(* filters and the estimates kept from one update to the next. The numbers *)
(* are left out; what is kept of a value is the data it was computed from. *)
(* An estimator is the record of these, of the feet whose position the     *)
(* filter estimates, and of whether init has left such feet without their  *)
(* columns (see InEKF). Only the update with the contacts of the caller is *)
(* here: the node never reaches the other one.                             *)
(*                                                                         *)
(* Definitions named Faulty... are what the definition that follows them   *)
(* would be with a plausible mistake; they are not part of the model.      *)
(***************************************************************************)
CONSTANTS
  Feet,            \* the contact frames of the settings
  DynamicContacts  \* settings.dynamic_contact_estimation

ASSUME DynamicContactsAssumption == DynamicContacts \in BOOLEAN

\* "before": handed over before the last init; "start": the pose of the last init;
\* "since": handed over since. A value that is zero comes from nothing.
Origins == {"before", "start", "since"}

LowPass == {"linear", "angular", "velocity", "acceleration", "torque"}

\* state and biases are the filter's; pose, biasEstimate, turn and spin the estimates
\* made of them: the pose and velocity of the base and its angular velocity in the
\* base and, with the sample before it, in the world.
Quantities == LowPass \cup {"state", "biases", "pose", "biasEstimate", "turn", "spin"}

Estimators == [from : [Quantities -> SUBSET Origins], points : SUBSET Feet, lost : BOOLEAN]

Fresh == [from |-> [q \in Quantities |-> {}], points |-> {}, lost |-> FALSE]

Aged(origins) == IF origins = {} THEN {} ELSE {"before"}

\* init, with biases of zero: the filter gets the pose, the low-pass filters are reset
\* and the rest stays. The filter keeps the index of its points and loses their columns.
FaultyAfterInit(q, origins) ==
  CASE q = "state" -> {"start"}
    [] q = "biases" -> {}
    [] OTHER -> Aged(origins)
AfterInit(q, origins) ==
  CASE q = "state" -> {"start"}
    [] q \in LowPass \cup {"biases"} -> {}
    [] OTHER -> Aged(origins)

Started(e) ==
  [from |-> [q \in Quantities |-> AfterInit(q, e.from[q])],
   points |-> e.points,
   lost |-> e.lost \/ e.points # {}]

-----------------------------------------------------------------------------
(* update, where on and off are the feet with a true and a false flag.     *)

\* Propagate: the state moves with the measurement and the biases.
Propagated(from) == from["state"] \cup from["biases"] \cup {"since"}

\* CorrectRightInvariant erases the biases and their correlation with the rest, then
\* corrects the state with the kinematics of the feet in contact.
CorrectedBiases(from, corrects) == IF corrects THEN {} ELSE from["biases"]

\* A measurement turned into the world with the estimates of the update before.
InWorld(from) == from["pose"] \cup from["biasEstimate"] \cup {"since"}

\* The estimate of a low-pass filter, a mean of what it was given, after one update.
Filtered(q, from) ==
  CASE q = "linear" -> from[q] \cup InWorld(from)
    [] q = "angular" -> IF DynamicContacts THEN from[q] \cup InWorld(from) \cup from["spin"]
                        ELSE from[q]
    [] q = "acceleration" -> IF DynamicContacts THEN from[q] \cup from["velocity"] \cup {"since"}
                             ELSE from[q]
    [] OTHER -> from[q] \cup {"since"}

\* The filter has a point for every foot whose last flag is true; the feet that are in
\* contact and already have one correct it.
Points(e, on, off) == (e.points \ off) \cup on

Updated(e, on, off) ==
  LET corrects == e.points \cap Points(e, on, off) # {}
      biases == CorrectedBiases(e.from, corrects)
      after(q) ==
        CASE q \in LowPass -> Filtered(q, e.from)
          [] q \in {"state", "pose"} -> Propagated(e.from)
          [] q \in {"biases", "biasEstimate"} -> biases
          [] q = "turn" -> e.from["biasEstimate"] \cup {"since"}
          [] q = "spin" -> IF DynamicContacts THEN InWorld(e.from) ELSE e.from["spin"]
  IN  [from |-> [q \in Quantities |-> after(q)], points |-> Points(e, on, off), lost |-> e.lost]

-----------------------------------------------------------------------------
\* What the node publishes.
Published == {"pose", "turn", "velocity", "torque"}

\* A value computed in this activation has nothing of one before the last init.
OfThisStart(e, q) == "since" \in e.from[q] => "before" \notin e.from[q]
=============================================================================
