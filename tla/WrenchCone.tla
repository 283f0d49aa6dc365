----------------------------- MODULE WrenchCone -----------------------------
(***************************************************************************)
(* The friction cone of a sole: generateConeConstraintMatrix writes the    *)
(* sixteen rows that a wrench <<fx, fy, fz, tx, ty, tz>> of a rectangular  *)
(* foot must not make negative, one coefficient at a time. Friction and    *)
(* forces are in units of One, the number one; a row is multiplied by One, *)
(* which changes no sign. The reference is what the rows are to describe:  *)
(* the wrenches of a friction pyramid at each corner of the sole.          *)
(*                                                                         *)
(* Definitions named Faulty... are what the definition that follows them   *)
(* would be with a plausible mistake; they are not part of the model.      *)
(***************************************************************************)
EXTENDS Integers, FiniteSets

CONSTANTS
  One,         \* the number one in the unit of the settings
  SoleLengths  \* what the settings may give for the foot in x and y

ASSUME OneAssumption == One \in Nat /\ One > 1
ASSUME SoleAssumption == SoleLengths \subseteq Nat

Signs == {-1, 1}

-----------------------------------------------------------------------------
(* coneConstraintMatrix: the rows 0 to 3 bound the tangential force, 4 to  *)
(* 7 the torques by the lengths of the foot, 8 to 15 the torque about the  *)
(* normal. Each row is the signs its coefficients are written with.        *)

TangentialRow(u, row) ==
  LET sign == IF row % 2 = 0 THEN One ELSE -One
  IN  IF row < 2 THEN <<sign, 0, u, 0, 0, 0>> ELSE <<0, sign, u, 0, 0, 0>>

\* The torque of row 6 is written to row 7, which then overwrites it.
TorqueRow(u, x, y, row) ==
  CASE row = 4 -> <<0, 0, y * One, u, 0, 0>>
    [] row = 5 -> <<0, 0, y * One, -u, 0, 0>>
    [] row = 6 -> <<0, 0, x * One, 0, 0, 0>>
    [] row = 7 -> <<0, 0, x * One, 0, -u, 0>>

\* The signs of fx, fy and tz; those of tx and ty follow from them.
YawSigns ==
  << <<1, 1, 1>>, <<1, -1, 1>>, <<-1, 1, 1>>, <<-1, -1, 1>>,
     <<-1, -1, -1>>, <<-1, 1, -1>>, <<1, -1, -1>>, <<1, 1, -1>> >>

\* The comment of the row -Y fx + X fy + ... - u tx - u ty + tz gives tx the other sign.
FaultyYawRow(u, x, y, row) ==
  LET signs == YawSigns[row - 7]
  IN  <<signs[1] * y * One, signs[2] * x * One, (x + y) * u,
        -u, -signs[3] * signs[2] * u, signs[3] * One>>
YawRow(u, x, y, row) ==
  LET signs == YawSigns[row - 7]
  IN  <<signs[1] * y * One, signs[2] * x * One, (x + y) * u,
        -signs[3] * signs[1] * u, -signs[3] * signs[2] * u, signs[3] * One>>

Rows == 0 .. 15

ConeRow(u, x, y, row) ==
  IF row < 4 THEN TangentialRow(u, row)
  ELSE IF row < 8 THEN TorqueRow(u, x, y, row)
  ELSE YawRow(u, x, y, row)

\* An entry of coneConstraintMatrix * wrench.
Slack(row, wrench) ==
  row[1] * wrench[1] + row[2] * wrench[2] + row[3] * wrench[3]
    + row[4] * wrench[4] + row[5] * wrench[5] + row[6] * wrench[6]

-----------------------------------------------------------------------------
(* The reference: the edges of the friction pyramids at the corners.       *)

Wrench(force, rx, ry) ==
  <<force[1], force[2], force[3],
    ry * force[3], -rx * force[3], rx * force[2] - ry * force[1]>>

Edges(u, x, y) ==
  {Wrench(<<a * u, b * u, One>>, c * x, d * y) : a \in Signs, b \in Signs, c \in Signs, d \in Signs}

Inside(u, x, y, row) == \A edge \in Edges(u, x, y) : Slack(ConeRow(u, x, y, row), edge) >= 0

\* A facet of a cone in six dimensions holds five of its edges.
Facet(u, x, y, row) ==
  Cardinality({edge \in Edges(u, x, y) : Slack(ConeRow(u, x, y, row), edge) = 0}) >= 5

\* The rows with which the foot could take a torque that its contact does not give:
\* row 6 has lost its torque, and the torques of 4 to 7 are multiplied by the friction.
Loose(u, row) == row = 6 \/ (row \in {4, 5, 7} /\ u < One)
=============================================================================
