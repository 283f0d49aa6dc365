--------------------------- MODULE CollisionModel ---------------------------
(***************************************************************************)
(* CollisionSettings and PinocchioCollisionInterface: the names of a       *)
(* settings file, the checks a file has to pass, the indices of frames the *)
(* avoidance terms work with, and the spheres that stand for the bodies.   *)
(* A frame is counted from 0: the end effectors with 3 degrees of freedom, *)
(* those with 6, then the collision links.                                 *)
(*                                                                         *)
(* A file is a record of the sequences links, terrain and pairs, the       *)
(* lengths of the lists that go with them (excesses, terrainRelaxations,   *)
(* pairRelaxations) and neighbours, the most neighbours of a sphere.       *)
(*                                                                         *)
(* Definitions named Faulty... are what the definition that follows them   *)
(* would be with a plausible mistake; they are not part of the model.      *)
(***************************************************************************)
EXTENDS InputLayout, Sequences, FiniteSets

CONSTANTS
  Names,           \* of end effectors and links
  ThreeDofNames,   \* endEffectorThreeDofNames
  SixDofNames      \* endEffectorSixDofNames

In(name, names) == \E k \in 1 .. Len(names) : names[k] = name
NoRepetition(names) == \A j, k \in 1 .. Len(names) : names[j] = names[k] => j = k

EndEffectorNames == ThreeDofNames \o SixDofNames

\* loadModelSettings refuses a name that occurs twice.
ASSUME NamesAssumption ==
  /\ ThreeDofNames \in Seq(Names) /\ Len(ThreeDofNames) = ThreeDof
  /\ SixDofNames \in Seq(Names) /\ Len(SixDofNames) = SixDof
  /\ NoRepetition(EndEffectorNames)

\* The links of a file without repetitions: those that are the first of their name.
First(names) == {k \in 1 .. Len(names) : \A j \in 1 .. k - 1 : names[j] # names[k]}
RankIn(k, positions) == Cardinality({j \in positions : j <= k})
TrueLinks(links) ==
  [n \in 1 .. Cardinality(First(links)) |->
     links[CHOOSE k \in First(links) : RankIn(k, First(links)) = n]]

CollisionNames(file) == EndEffectorNames \o TrueLinks(file.links)

\* The frames that are not end effectors.
LinkNumber(file) == Len(TrueLinks(file.links))

-----------------------------------------------------------------------------
(* loadCollisionSettings: a file that fails one of these is refused.       *)

LinksAccepted(file) == \A k \in 1 .. Len(file.links) : ~In(file.links[k], EndEffectorNames)

TerrainAccepted(file) ==
  /\ \A k \in 1 .. Len(file.terrain) :
       /\ In(file.terrain[k], CollisionNames(file))
       /\ ~In(file.terrain[k], EndEffectorNames)
  /\ NoRepetition(file.terrain)

\* A pair and the same pair in the other order count as two.
PairsAccepted(file) ==
  /\ \A k \in 1 .. Len(file.pairs) :
       /\ file.pairs[k][1] # file.pairs[k][2]
       /\ In(file.pairs[k][1], CollisionNames(file))
       /\ In(file.pairs[k][2], CollisionNames(file))
  /\ NoRepetition(file.pairs)

SizesAccepted(file) ==
  /\ file.excesses = Len(CollisionNames(file))
  /\ file.terrainRelaxations = Len(file.terrain) + Len(EndEffectorNames)
  /\ file.pairRelaxations = Len(file.pairs)
  /\ file.neighbours > 1

Accepted(file) ==
  LinksAccepted(file) /\ TerrainAccepted(file) /\ PairsAccepted(file) /\ SizesAccepted(file)

-----------------------------------------------------------------------------
(* createCollisionIndices.                                                 *)

\* No name occurs twice among those of an accepted file.
Index(name, names) == (CHOOSE k \in 1 .. Len(names) : names[k] = name) - 1

FaultyTerrainIndices(file) ==
  [k \in 1 .. Len(file.terrain) |-> Index(file.terrain[k], TrueLinks(file.links))]
TerrainIndices(file) ==
  [k \in 1 .. Len(file.terrain) |-> Index(file.terrain[k], CollisionNames(file))]

\* The smaller index comes first.
SelfCollisionIndices(file) ==
  [k \in 1 .. Len(file.pairs) |->
     LET first == Index(file.pairs[k][1], CollisionNames(file))
         second == Index(file.pairs[k][2], CollisionNames(file))
     IN  IF second < first THEN <<second, first>> ELSE <<first, second>>]

-----------------------------------------------------------------------------
(* createNeighbours, for spheres in a row: the nearest ones, up to the     *)
(* most the settings allow. Which of two equally near ones is kept is up   *)
(* to the sort.                                                            *)

Near(j, k) == IF j < k THEN k - j ELSE j - k

\* Every way to keep size of the spheres, none farther from j than one left out.
NearestSets(j, spheres, size) ==
  {kept \in SUBSET spheres :
     /\ Cardinality(kept) = size
     /\ \A near \in kept, far \in spheres \ kept : Near(j, near) <= Near(j, far)}

FaultyNeighbourSets(j, number, most) ==
  NearestSets(j, (0 .. number - 1) \ {j}, IF number - 1 > most THEN most ELSE number - 1)
NeighbourSets(j, number, most) ==
  NearestSets(j, 0 .. number - 1, IF number > most THEN most ELSE number)

\* The sphere an evaluation goes on to: one of the neighbours nearest to the terrain.
Descents(neighbours, distance) ==
  {best \in neighbours : \A other \in neighbours : distance[best] <= distance[other]}
=============================================================================
