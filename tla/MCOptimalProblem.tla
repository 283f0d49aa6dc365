-------------------------- MODULE MCOptimalProblem --------------------------
(* An instance of OptimalProblem for TLC: two legs with 3 degrees of        *)
(* freedom, two with 6, two links.                                          *)
EXTENDS OptimalProblem, TLC

FrameNames == {"lf", "rf", "la", "ra", "base", "knee"}
Points == <<"lf", "rf">>
Soles == <<"la", "ra">>
Spheres == [name \in FrameNames |-> IF name = "knee" THEN 3 ELSE 1]

\* Every sort of pair, one of them in both orders; a link that is named twice.
Whole ==
  [links |-> <<"base", "knee", "base">>, terrain |-> <<"knee">>,
   pairs |-> <<<<"lf", "rf">>, <<"rf", "lf">>, <<"la", "lf">>, <<"ra", "la">>,
               <<"knee", "lf">>, <<"la", "base">>, <<"base", "knee">>>>,
   excesses |-> 6, terrainRelaxations |-> 5, pairRelaxations |-> 7, neighbours |-> 2]
Bare ==
  [links |-> <<>>, terrain |-> <<>>, pairs |-> <<<<"ra", "rf">>>>,
   excesses |-> 4, terrainRelaxations |-> 4, pairRelaxations |-> 1, neighbours |-> 3]

\* One file for each reason to refuse it.
AllFiles ==
  {Whole, Bare,
   [Whole EXCEPT !.links = <<"base", "knee", "la">>],
   [Whole EXCEPT !.terrain = <<"ra">>],
   [Bare EXCEPT !.terrain = <<"knee">>, !.terrainRelaxations = 5],
   [Whole EXCEPT !.terrain = <<"knee", "knee">>, !.terrainRelaxations = 6],
   [Bare EXCEPT !.pairs = <<<<"ra", "ra">>>>],
   [Bare EXCEPT !.pairs = <<<<"ra", "knee">>>>],
   [Bare EXCEPT !.pairs = <<<<"ra", "rf">>, <<"ra", "rf">>>>, !.pairRelaxations = 2],
   [Whole EXCEPT !.excesses = 7],
   [Whole EXCEPT !.neighbours = 1]}

\* Good settings with ones, and those that differ from them in one number or one length; with
\* the highest frequency and each ratio, at one half of which the gait is too fast.
Usual ==
  [key \in Keys |->
     CASE key \in {"swingHeights", "phases", "tangentialProgresses",
                   "tangentialVelocityFactors"} -> <<1, 1, 1, 1>>
       [] key = "phaseOffsets" -> <<1, 1, 1>>
       [] key \in {"minimumSteppingFrequency", "touchDownVelocity"} -> <<0>>
       [] key = "maximumBaseHeight" -> <<2>>
       [] key = "maximumSteppingFrequency" -> <<3>>
       [] OTHER -> <<1>>]

Unusual ==
  {[Usual EXCEPT ![key] = <<x>> \o Tail(@)] : key \in Keys, x \in -1 .. 4}
    \cup {[Usual EXCEPT ![key] = Tail(@)] :
            key \in {"swingHeights", "phases", "tangentialProgresses",
                     "tangentialVelocityFactors", "phaseOffsets"}}
    \cup {[Usual EXCEPT !["steppingFrequency"] = <<3>>, !["swingRatio"] = <<x>>] : x \in 0 .. One}

AllNumbers == {Usual} \cup Unusual

Times == {"now", "later"}
Stand(feet, footholds) == [stance |-> feet, placed |-> footholds]
Gaits ==
  {("now" :> Stand({0, 3}, {0}) @@ "later" :> Stand({1, 2}, {1, 2})),
   ("now" :> Stand({0, 1, 2, 3}, {0, 2}) @@ "later" :> Stand({}, {}))}

SomeSettings ==
  {EveryTerm, EveryTerm \ {"TerrainAvoidance", "TrajectoryTracking", "ZeroForce"}}

SolverRequests ==
  {Flags, Categories, {"Constraint"}}

Slopes == {<<0, 1, 2>>, <<2, 1, 0>>, <<1, 0, 1>>, <<1, 1, 1>>}
Terrains == {[s \in 0 .. 2 |-> slope[s + 1]] : slope \in Slopes}
=============================================================================
