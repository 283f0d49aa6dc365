------------------------------- MODULE InEKF -------------------------------
(***************************************************************************)
(* The contact and landmark positions of the invariant extended Kalman     *)
(* filter. The matrix X has five columns for the base, then one column for *)
(* every estimated point; the covariance P has three rows for each vector  *)
(* of the base, three for each point and six for the biases, in this       *)
(* order; a map gives the column of each point. The values of the matrices *)
(* are left out: a column is named by the point it holds, a row by what it *)
(* is the covariance of. Propagation and the Kalman correction address the *)
(* columns and the rows by the map and change none of this state.          *)
(*                                                                         *)
(* The loops that remove and add points take one step per point. The loops *)
(* run over a list made before them; the order of the list is left open.   *)
(*                                                                         *)
(* Definitions named Faulty... are what the definition that follows them   *)
(* would be with a plausible mistake; they are not part of the model.      *)
(***************************************************************************)
EXTENDS Integers, Sequences

CONSTANTS
  ContactIds,   \* the contact frames
  LandmarkIds,  \* the landmarks
  MayReset      \* init may be called when points are estimated

ASSUME MayResetAssumption == MayReset \in BOOLEAN

VARIABLES
  columns,    \* X_ from its sixth column on: the point in each
  rows,       \* P_: what each row, and each column, is the covariance of
  index,      \* estimated_contact_positions_ and estimated_landmarks_
  indicated,  \* contacts_: the ids with a true indicator
  released,   \* contacts_: the ids with a false indicator
  removing,   \* the points to remove, with the column read for each
  adding      \* the points to add

vars == <<columns, rows, index, indicated, released, removing, adding>>

Contact(id) == <<"contact", id>>
Landmark(id) == <<"landmark", id>>
Contacts == {Contact(id) : id \in ContactIds}
Landmarks == {Landmark(id) : id \in LandmarkIds}
Anchor == Contacts \cup Landmarks

\* The columns of X for rotation, velocity and position.
Base == 5
Column == {n \in Nat : n >= Base}
Estimated == DOMAIN index
Idle == DOMAIN removing = {} /\ adding = {}
NoMap == [a \in {} |-> Base]

\* The rows of a new state, for rotation, velocity, position and the two biases; a
\* row is <<the vector, the axis>>.
DimTheta == 6
BaseRow(r) == <<<<"base", (r - 1) \div 3>>, (r - 1) % 3>>
BiasRow(r) == <<<<"bias", (r - 1) \div 3>>, (r - 1) % 3>>
NewRows == [r \in 1 .. 9 + DimTheta |-> IF r <= 9 THEN BaseRow(r) ELSE BiasRow(r - 9)]

Init ==
  /\ columns = <<>> /\ rows = NewRows /\ index = NoMap
  /\ indicated = {} /\ released = {}
  /\ removing = NoMap /\ adding = {}

-----------------------------------------------------------------------------
\* removeRowAndColumn: the lines behind the one removed move forward.
Without(lines, place) ==
  [k \in 1 .. Len(lines) - 1 |-> IF k < place THEN lines[k] ELSE lines[k + 1]]

\* The first of the three rows of a point, counted from 0.
StartIndex(column) == 3 + 3 * (column - 3)

\* One call for each of the three rows, at the same place.
WithoutRows(lines, start) == Without(Without(Without(lines, start + 1), start + 1), start + 1)

\* F of the augmentation: the rows of the new point come before those of the biases.
FaultyWithRows(lines, a) == lines \o [k \in 1 .. 3 |-> <<a, k - 1>>]
WithRows(lines, a) ==
  LET old == Len(lines) - DimTheta
  IN  [r \in 1 .. Len(lines) + 3 |->
         IF r <= old THEN lines[r]
         ELSE IF r <= old + 3 THEN <<a, r - old - 1>> ELSE lines[r - 3]]

\* After a column is removed, the columns behind it move forward.
FaultyMoved(map, column) == map
FaultyMovedAll(map, column) == [a \in DOMAIN map |-> map[a] - 1]
Moved(map, column) ==
  [a \in DOMAIN map |-> IF map[a] > column THEN map[a] - 1 ELSE map[a]]

Except(map, a) == [b \in DOMAIN map \ {a} |-> map[b]]

\* One step of the loop that removes points: every map, and the list of the
\* points still to be removed, follow the columns.
FaultyPending(map, column) == map
Pending(map, column) == Moved(map, column)

RemoveOne ==
  /\ \E a \in DOMAIN removing :
       LET column == removing[a]
       IN  /\ columns' = Without(columns, column - Base + 1)
           /\ rows' = WithoutRows(rows, StartIndex(column))
           /\ index' = Except(Moved(index, column), a)
           /\ removing' = Pending(Except(removing, a), column)
  /\ UNCHANGED <<indicated, released, adding>>

\* One step of the loop that adds points, which follows the removals: the point
\* gets a new last column. insert leaves the entry of a point that has one.
AddOne ==
  /\ DOMAIN removing = {}
  /\ \E a \in adding :
       /\ columns' = Append(columns, a)
       /\ rows' = WithRows(rows, a)
       /\ index' = [b \in Estimated \cup {a} |->
                      IF b \in Estimated THEN index[b] ELSE Base + Len(columns)]
       /\ adding' = adding \ {a}
  /\ UNCHANGED <<indicated, released, removing>>

-----------------------------------------------------------------------------
\* The lists the two loops run over.
Change(old, new) ==
  /\ removing' = [a \in old |-> index[a]]
  /\ adding' = new
  /\ UNCHANGED <<columns, rows, index, indicated, released>>

\* setContacts: the ids named get a new indicator, the others keep theirs.
SetContacts(on, off) ==
  /\ Idle
  /\ indicated' = (indicated \ off) \cup on
  /\ released' = (released \ on) \cup off
  /\ UNCHANGED <<columns, rows, index, removing, adding>>

\* CorrectKinematics up to its loops: a contact that is measured, and whose
\* indicator is known, is removed, added, or used to correct the state.
FaultyNewContacts(measured) == {Contact(id) : id \in measured \cap indicated}
NewContacts(measured) == {Contact(id) : id \in measured \cap indicated} \ Estimated

FaultyLostContacts(measured) == {Contact(id) : id \in measured} \cap Estimated
LostContacts(measured) == {Contact(id) : id \in measured \cap released} \cap Estimated

CorrectKinematics(measured) ==
  /\ Idle
  /\ Change(LostContacts(measured), NewContacts(measured))

\* CorrectLandmarks up to its loop; prior landmarks are never estimated.
CorrectLandmarks(measured) ==
  /\ Idle
  /\ Change({}, {Landmark(id) : id \in measured} \ Estimated)

\* RemoveLandmarks: the landmarks named. KeepLandmarks: all but those named.
RemoveLandmarks(ids) ==
  /\ Idle
  /\ Change({Landmark(id) : id \in ids} \cap Estimated, {})

KeepLandmarks(ids) ==
  /\ Idle
  /\ Change((Landmarks \ {Landmark(id) : id \in ids}) \cap Estimated, {})

\* LeggedStateEstimator::init: setState with a state that has no points; the
\* maps and the contacts stay.
SetState ==
  /\ Idle
  /\ MayReset \/ Estimated = {}
  /\ columns' = <<>> /\ rows' = NewRows
  /\ UNCHANGED <<index, indicated, released, removing, adding>>

\* clear.
FaultyClearMap == index
ClearMap == NoMap
Clear ==
  /\ Idle
  /\ columns' = <<>> /\ rows' = NewRows /\ index' = ClearMap
  /\ indicated' = {} /\ released' = {}
  /\ UNCHANGED <<removing, adding>>

\* The rows a point is addressed by, counted from 0: where the transition and the
\* noise of the propagation, and the observations, have its block.
TransitionRow(column) == (column - 2) * 3
NoiseRow(column) == 3 + 3 * (column - 3)
ObservationRow(column) == 3 * column - DimTheta
PositionRow(column) == 3 * column - 6

\* dimX - dimTheta + k: where the biases are addressed.
BiasPlace(k) == Len(rows) - DimTheta + k

Next ==
  \/ \E on, off \in SUBSET ContactIds : on \cap off = {} /\ SetContacts(on, off)
  \/ \E measured \in SUBSET ContactIds : CorrectKinematics(measured)
  \/ \E measured \in SUBSET LandmarkIds : CorrectLandmarks(measured)
  \/ \E ids \in SUBSET LandmarkIds : RemoveLandmarks(ids) \/ KeepLandmarks(ids)
  \/ SetState \/ Clear
  \/ RemoveOne \/ AddOne

Spec == Init /\ [][Next]_vars
-----------------------------------------------------------------------------
(* Properties.                                                             *)

\* The variables have their types: an index never points into the columns of the
\* base.
Vector == {<<"base", k>> : k \in 0 .. 2} \cup {<<"bias", k>> : k \in 0 .. 1} \cup Anchor
Label == Vector \X (0 .. 2)

TypeOK ==
  /\ columns \in Seq(Anchor) /\ rows \in Seq(Label)
  /\ Estimated \subseteq Anchor /\ index \in [Estimated -> Column]
  /\ indicated \subseteq ContactIds /\ released \subseteq ContactIds
  /\ DOMAIN removing \subseteq Anchor /\ removing \in [DOMAIN removing -> Column]
  /\ adding \subseteq Anchor

\* The index the filter reports for a point is a column of X, and the column
\* holds that point: the map of getEstimatedContactPositions, which every
\* propagation and correction uses to find a contact.
IndexesOwnColumn ==
  \A a \in Estimated :
    index[a] - Base + 1 \in DOMAIN columns /\ columns[index[a] - Base + 1] = a

\* No column of X is left behind without a point that owns it: X does not grow
\* with the steps the robot takes.
NoOrphanColumn ==
  \A k \in DOMAIN columns : columns[k] \in Estimated /\ index[columns[k]] = Base + k - 1

\* The covariance has three rows for every vector of X and six for the biases, and
\* whatever was added and removed, the rows that the propagation and the corrections
\* address for a point are the point's own, and the last six are the biases'.
CovarianceFollowsState ==
  /\ Len(rows) = 3 * (Base + Len(columns)) + DimTheta - 6
  /\ \A r \in 1 .. 9 : rows[r] = BaseRow(r)
  /\ \A k \in 1 .. DimTheta : rows[BiasPlace(k)] = BiasRow(k)
  /\ \A a \in Estimated, axis \in 0 .. 2 :
       \A row \in {TransitionRow(index[a]), NoiseRow(index[a]), ObservationRow(index[a]),
                    PositionRow(index[a])} :
         rows[row + axis + 1] = <<a, axis>>

\* A foot that is in contact keeps its position in the filter: only a foot known
\* to have left the ground loses its column, unless the filter is cleared.
StanceFootKeepsColumn ==
  [][\A id \in indicated :
       Contact(id) \in Estimated /\ ~Clear => Contact(id) \in DOMAIN index']_vars

\* The filter implements a set of points that each call changes at once.
Abstract == INSTANCE AnchorSet WITH anchors <- (Estimated \ DOMAIN removing) \cup adding
ImplementsAnchorSet == Abstract!Spec
=============================================================================
