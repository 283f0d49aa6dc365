----------------------------- MODULE AnchorSet -----------------------------
(***************************************************************************)
(* What the filter promises of the points it estimates: they are a set,    *)
(* and each call changes the set at once. A contact that is measured is in *)
(* the set exactly when it is indicated; a landmark is in it from its      *)
(* first measurement until it is removed.                                  *)
(***************************************************************************)
CONSTANTS ContactIds, LandmarkIds

Contact(id) == <<"contact", id>>
Landmark(id) == <<"landmark", id>>
Anchor == {Contact(id) : id \in ContactIds} \cup {Landmark(id) : id \in LandmarkIds}

VARIABLES
  anchors,    \* the points estimated with the state
  indicated,  \* the feet in contact
  released    \* the feet known not to be in contact

Init == anchors = {} /\ indicated = {} /\ released = {}

SetContacts(on, off) ==
  /\ indicated' = (indicated \ off) \cup on
  /\ released' = (released \ on) \cup off
  /\ UNCHANGED anchors

CorrectKinematics(measured) ==
  /\ anchors' = (anchors \ {Contact(id) : id \in measured \cap released})
                   \cup {Contact(id) : id \in measured \cap indicated}
  /\ UNCHANGED <<indicated, released>>

CorrectLandmarks(measured) ==
  /\ anchors' = anchors \cup {Landmark(id) : id \in measured}
  /\ UNCHANGED <<indicated, released>>

Remove(landmarks) ==
  /\ anchors' = anchors \ {Landmark(id) : id \in landmarks}
  /\ UNCHANGED <<indicated, released>>

Clear == anchors' = {} /\ indicated' = {} /\ released' = {}

Next ==
  \/ \E on, off \in SUBSET ContactIds : on \cap off = {} /\ SetContacts(on, off)
  \/ \E measured \in SUBSET ContactIds : CorrectKinematics(measured)
  \/ \E measured \in SUBSET LandmarkIds : CorrectLandmarks(measured)
  \/ \E landmarks \in SUBSET LandmarkIds : Remove(landmarks)
  \/ Clear

Spec == Init /\ [][Next]_<<anchors, indicated, released>>
=============================================================================
