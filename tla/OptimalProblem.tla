--------------------------- MODULE OptimalProblem ---------------------------
(***************************************************************************)
(* The optimal control problem at work: LeggedInterface builds it from a   *)
(* collision settings file and the flags of its terms, the solver of ocs2  *)
(* runs it on several threads. Each thread has its own copy of the problem *)
(* with its own precomputation: it requests the quantities of a node, then *)
(* evaluates the terms of the request. Before a run the solver takes over  *)
(* the references (here: which legs stand at each node) and the            *)
(* disturbance of the base, which messages may change at any time.         *)
(*                                                                         *)
(* The distance of every sphere of a body to the terrain is any of         *)
(* Clearances at every evaluation, for the state of the robot is any.      *)
(*                                                                         *)
(* Definitions named Faulty... are what the definition that follows them   *)
(* would be with a plausible mistake; they are not part of the model.      *)
(***************************************************************************)
EXTENDS OptimalTerms, SettingsFile

CONSTANTS
  Workers,          \* the threads of the solver
  Nodes,            \* of its horizon
  Horizons,         \* what the references may be: for each node its stance and placed
  Files,            \* collision settings
  Numbers,          \* the other numbers of a settings file
  SettingsSets,     \* the terms a settings file may ask for
  Requests,         \* the sets of flags the solver asks the precomputation with
  MostSpheres,      \* bound on the spheres of a frame
  SphereNumber,     \* of a frame, by its name
  Clearances,       \* functions from spheres to their distance to the terrain
  MaxDisturbances   \* bound on the messages

ASSUME ProblemAssumption ==
  /\ SettingsSets \subseteq SUBSET EveryTerm
  /\ Requests \subseteq SUBSET Flags
  /\ Horizons \subseteq [Nodes -> [stance : SUBSET Legs, placed : SUBSET Legs]]
  /\ Numbers \subseteq Settings
  /\ MaxDisturbances \in Nat
  /\ MostSpheres \in Nat
  /\ SphereNumber \in [Names -> 1 .. MostSpheres]
  /\ Clearances \subseteq [0 .. MostSpheres - 1 -> Int]
  /\ \A f \in Files : f.neighbours \in Nat /\ f.links \in Seq(Names) /\ f.terrain \in Seq(Names)

VARIABLES
  stage,        \* "start", "refused", "ready", "solving", or "ending": no more requests
  file,         \* collisionSettings_
  settings,     \* interfaceSettings_: the terms that are used
  horizon,      \* the active references
  request,      \* per thread: the node and flags it evaluates, or NoRequest
  cache,        \* per precomputation and kind: the node it was computed for, or Older
  sphere,       \* currentCollisionLinksSphere_ of each thread
  receded,      \* an evaluation has gone from a sphere to one farther from the terrain
  sent,         \* the number of disturbances sent
  buffered,     \* bufferedDisturbance_: what the next run takes over
  disturbance   \* bufferedDisturbance_: what the dynamics use

problem == <<stage, file, settings, receded>>
work == <<request, cache, sphere>>
wrench == <<sent, buffered, disturbance>>
vars == <<stage, file, settings, horizon, request, cache, sphere, receded, sent, buffered, disturbance>>

Running == {"solving", "ending"}
NoRequest == [node |-> "none", flags |-> {}]
Older == "older"

\* The precomputation of a thread.
FaultyOwnCache(w) == CHOOSE first \in Workers : TRUE
OwnCache(w) == w

\* The frames with a current sphere: the end effectors with 6 degrees of freedom, then
\* the links of the terrain avoidance.
Slots == 1 .. SixDof + Len(file.terrain)
SlotName(f, slot) == IF slot <= SixDof THEN SixDofNames[slot] ELSE f.terrain[slot - SixDof]
SlotSpheres(f, slot) == SphereNumber[SlotName(f, slot)]

-----------------------------------------------------------------------------
Init ==
  /\ stage = "start"
  /\ file = <<>>
  /\ settings = {}
  /\ horizon = <<>>
  /\ request = [w \in Workers |-> NoRequest]
  /\ cache = [w \in Workers |-> [kind \in Kinds |-> Older]]
  /\ sphere = <<>>
  /\ receded = FALSE
  /\ sent = 0
  /\ buffered = 0
  /\ disturbance = 0

\* The constructor of the interface throws on a file it does not accept. A write outside of
\* the vector of the weights may end the program too, or do no harm.
Refuse(f, names, numbers) ==
  /\ stage = "start"
  /\ \/ ~Accepted(f)
     \/ ~SettingsAccepted(numbers, names)
     \/ ~WeightsHeld(names)
  /\ stage' = "refused"
  /\ UNCHANGED <<file, settings, horizon, receded, request, cache, sphere, wrench>>

\* The random spheres are drawn once; the copies of the threads start with the same.
Construct(f, names, numbers) ==
  /\ stage = "start"
  /\ Accepted(f)
  /\ SettingsAccepted(numbers, names)
  /\ stage' = "ready"
  /\ file' = f
  /\ settings' = names
  /\ \E chosen \in [1 .. SixDof + Len(f.terrain) -> 0 .. MostSpheres - 1] :
       /\ \A slot \in DOMAIN chosen : chosen[slot] < SlotSpheres(f, slot)
       /\ sphere' = [w \in Workers |-> chosen]
  /\ UNCHANGED <<horizon, receded, request, cache, wrench>>

\* updateExternalWrench: a message for the interface there is.
Buffered(new) == buffered' = new /\ UNCHANGED disturbance

UpdateDisturbance ==
  /\ stage \in {"ready"} \cup Running
  /\ sent < MaxDisturbances
  /\ sent' = sent + 1
  /\ Buffered(sent + 1)
  /\ UNCHANGED <<problem, horizon, work>>

\* preSolverRun of the modules.
FaultyTakenOver == UNCHANGED <<buffered, disturbance>>
TakenOver == disturbance' = buffered /\ UNCHANGED buffered

BeginRun(references) ==
  /\ stage = "ready"
  /\ stage' = "solving"
  /\ horizon' = references
  /\ TakenOver
  /\ UNCHANGED <<file, settings, receded, request, cache, sphere, sent>>

\* Every update overwrites its kind; what no update touches is of an older iterate.
Request(w, node, flags) ==
  /\ stage = "solving"
  /\ request[w] = NoRequest
  /\ request' = [request EXCEPT ![w] = [node |-> node, flags |-> flags]]
  /\ cache' = [cache EXCEPT ![OwnCache(w)] =
                 [kind \in Kinds |-> IF kind \in Computed(flags) THEN node ELSE Older]]
  /\ UNCHANGED <<problem, horizon, sphere, wrench>>

-----------------------------------------------------------------------------
(* An evaluation of the terms that were requested. Of what it computes the *)
(* model keeps the sphere it leaves for the next evaluation.               *)

\* A leg in contact adds nothing and keeps its sphere.
Searched(node) == {slot \in Slots : slot > SixDof \/ ThreeDof + slot - 1 \notin node.stance}

Found(slot, from, clearance) ==
  UNION {Descents(neighbours, clearance) :
           neighbours \in NeighbourSets(from, SlotSpheres(file, slot), file.neighbours)}

SearchesTerrain(flags) == "SoftConstraint" \in flags /\ "TerrainAvoidance" \in settings

Search(w, node, clearance) ==
  \E next \in [Slots -> 0 .. MostSpheres - 1] :
    /\ \A slot \in Slots :
         IF slot \in Searched(node)
         THEN next[slot] \in Found(slot, sphere[w][slot], clearance)
         ELSE next[slot] = sphere[w][slot]
    /\ sphere' = [sphere EXCEPT ![w] = next]
    /\ receded' = \/ receded
                  \/ \E slot \in Slots : clearance[next[slot]] > clearance[sphere[w][slot]]

Evaluate(w) ==
  /\ request[w] # NoRequest
  /\ request' = [request EXCEPT ![w] = NoRequest]
  /\ IF SearchesTerrain(request[w].flags)
     THEN \E clearance \in Clearances : Search(w, horizon[request[w].node], clearance)
     ELSE UNCHANGED <<sphere, receded>>
  /\ UNCHANGED <<stage, file, settings, horizon, cache, wrench>>

\* The iterations of a run are limited.
StopIterating ==
  /\ stage = "solving"
  /\ stage' = "ending"
  /\ UNCHANGED <<file, settings, receded, horizon, work, wrench>>

FaultyAllIdle == \E w \in Workers : request[w] = NoRequest
AllIdle == \A w \in Workers : request[w] = NoRequest

EndRun ==
  /\ stage = "ending"
  /\ AllIdle
  /\ stage' = "ready"
  /\ UNCHANGED <<file, settings, receded, horizon, work, wrench>>

Next ==
  \/ \E f \in Files, names \in SettingsSets, numbers \in Numbers : Refuse(f, names, numbers)
  \/ \E f \in Files, names \in SettingsSets, numbers \in Numbers : Construct(f, names, numbers)
  \/ UpdateDisturbance
  \/ \E references \in Horizons : BeginRun(references)
  \/ \E w \in Workers, node \in Nodes, flags \in Requests : Request(w, node, flags)
  \/ \E w \in Workers : Evaluate(w)
  \/ StopIterating
  \/ EndRun

Spec == Init /\ [][Next]_vars

\* The loop of the MPC starts runs, a run does finitely many iterations, and the threads
\* go on.
Fairness ==
  /\ WF_vars(\E references \in Horizons : BeginRun(references))
  /\ \A w \in Workers : WF_vars(Evaluate(w))
  /\ WF_vars(StopIterating)
  /\ WF_vars(EndRun)

FairSpec == Spec /\ Fairness

-----------------------------------------------------------------------------
TypeOK ==
  /\ stage \in {"start", "refused", "ready"} \cup Running
  /\ request \in [Workers -> [node : Nodes, flags : Requests] \cup {NoRequest}]
  /\ cache \in [Workers -> [Kinds -> Nodes \cup {Older}]]
  /\ receded \in BOOLEAN
  /\ sent \in 0 .. MaxDisturbances
  /\ buffered \in 0 .. sent
  /\ disturbance \in 0 .. sent
  /\ stage \in {"ready"} \cup Running =>
       file \in Files /\ Accepted(file) /\ settings \in SettingsSets
  /\ stage \in Running => horizon \in Horizons
  /\ stage \notin Running => request = [w \in Workers |-> NoRequest]

\* The terms that the thread is to evaluate.
Due(w) ==
  UNION {TermsOf(category, settings) : category \in request[w].flags \cap Categories}

ReadBy(w, term) ==
  Reads(term, file, horizon[request[w].node], "Approximation" \in request[w].flags)

\* The loaders let through, need by need, exactly what is named here. Of the settings they
\* accept when the interface is built, and the feet they accept them for: the base planner,
\* its pendulum, the subsampling or a penalty divides by zero, throws or steps by nothing
\* exactly when one of the named numbers is zero; the spline of a swing fails its assertion
\* exactly when a midpoint is at the start or the end of the swing; the loop that merges the
\* changes of a gait does not end exactly when the gait moves with swing and stance both
\* shorter than MIN_TIME_BETWEEN_CHANGES; a cost is not convex exactly when a weight of a
\* contact torque is negative; and the weights of the feet are written outside of their
\* vector exactly when there are feet of both kinds.
AcceptedSettingsServe ==
  stage = "start" =>
    \A numbers \in Numbers, names \in SettingsSets :
      SettingsAccepted(numbers, names) => ServesUnlessNamed(numbers, names)

\* The sixteen rows that the constructor of the soft constraint writes are the cone of the
\* sole: for each friction up to one and all lengths of the foot, no row refuses a wrench
\* that forces within the friction pyramids at the four corners make, and but for the loose
\* rows none lets more through than it has to: each is a facet of that cone
\* (generateConeConstraintMatrix, whose comments give other signs for some rows).
ConeFitsSole ==
  stage = "start" =>
    \A u \in 1 .. One, x \in SoleLengths \ {0}, y \in SoleLengths \ {0} : \A row \in Rows :
      /\ Inside(u, x, y, row)
      /\ ~Loose(u, row) => Facet(u, x, y, row)

\* Whatever the solver asks for and whatever the other threads do, an evaluation reads
\* only quantities that this request computed, for the node of the request
\* (LeggedPrecomputation::request against the getters every cost and constraint calls).
FreshReads ==
  \A w \in Workers : request[w] # NoRequest =>
    \A term \in Due(w) : \A read \in ReadBy(w, term) :
      cache[OwnCache(w)][read[1]] = request[w].node

\* For every settings file that is accepted and every stance, each getter is called with
\* an index it holds, and what it returns is what the kinematics computed for that body.
\* The reads of Misplaced are left out: the place in the list that TerrainAvoidance gives
\* for the link, and the link that SelfCollisionAvoidance gives for the end effector.
ReadsInRange ==
  \A w \in Workers : request[w] # NoRequest =>
    \A term \in Due(w) :
      \A read \in ReadBy(w, term)
                    \ Misplaced(term, file, "Approximation" \in request[w].flags) :
        read[2] \in Held(read[1], LinkNumber(file)) /\ SameBody(read[1], read[2])

\* The derivatives of every term are written to the rows its value reads: each cost and
\* constraint computes the rows of its legs and joints, and of the parts of the state, by
\* an arithmetic of its own, and the dynamics stack the derivative of the state part by
\* part. The angular velocity of the base, which the tracking cost reads from the rows of
\* the linear one, is left out.
DerivativesInPlace ==
  \A w \in Workers : request[w] # NoRequest =>
    \A term \in Due(w) :
      LET node == horizon[request[w].node]
      IN  /\ DerivativeRows(term, node) = ValueRows(term, node)
          /\ \A part \in (Flow \cup StateParts(term)) \ {MisreadAngularVelocity} : part[1] = part[2]

\* With both constraints in use, the constraints of a node fix all the forces of the legs
\* that swing there, and none of a leg in contact (ZeroForceConstraint, ZeroWrenchConstraint
\* and the order of the legs in the input).
SwingForcesVanish ==
  stage \in Running /\ {"ZeroForce", "ZeroWrench"} \subseteq settings =>
    \A n \in Nodes :
      UNION {DerivativeRows(term, horizon[n]) : term \in ConstraintTerms(settings)}
        = UNION {LegRows(i) : i \in Legs \ horizon[n].stance}

\* The search over the neighbours of the last sphere never ends at one that is farther from
\* the terrain than the last one was (currentCollisionLinksSphere_, createNeighbours).
NeverRecedes == ~receded

\* A disturbance that is sent reaches the dynamics, or a newer one does
\* (updateExternalWrench, preSolverRun of the module).
DisturbanceReachesSolver ==
  \A d \in 1 .. MaxDisturbances : sent >= d ~> disturbance >= d
=============================================================================
