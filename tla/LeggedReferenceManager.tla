---------------------- MODULE LeggedReferenceManager ----------------------
(***************************************************************************)
(* LeggedReferenceManager: five inputs set by other threads are consumed   *)
(* by a generation of references, which runs either inside preSolverRun or *)
(* as an asynchronous task beside the solver, and whose four results are   *)
(* handed to the solver through buffers.                                   *)
(*                                                                         *)
(* Data are abstracted to what consistency depends on: an input is the     *)
(* number of its version, and a plan (the result of one generation) is the *)
(* tag of its run with the version of every input it used.                 *)
(*                                                                         *)
(* A definition named Faulty... is a mistake the code could have made in   *)
(* place of the definition after it; no specification uses it.             *)
(***************************************************************************)
EXTENDS Naturals

CONSTANTS
  MayThrow,     \* TRUE: the planners may throw (e.g. minimumBaseHeight = 0)
  MaxVersion,   \* bound: how many versions of each input are ever set
  RunTags       \* bound: the tags of the generation runs, reused cyclically

Inputs == {"contacts", "gait", "swing", "terrain", "command"}
Outputs == {"targets", "constraints", "endEffectors", "modes"}
Planners == {"base", "swing"}

ASSUME MayThrowAssumption == MayThrow \in BOOLEAN
ASSUME MaxVersionAssumption == MaxVersion \in [Inputs -> Nat]
ASSUME RunTagsAssumption == RunTags \in Nat \ {0}

VARIABLES
  threaded,        \* settings_.threaded
  sent,            \* number of versions of each input set so far
  buffer,          \* per input: the buffered version, 0 when none is pending
  active,          \* per input: the active version
  terrainOf,       \* per planner: the terrain object its raw pointer refers to
  task,            \* program counter of generateNewTargetTrajectories
  work,            \* the plan being generated
  outBuffer,       \* per output: the buffered plan, NoPlan when none is pending
  outActive,       \* per output: the plan the solver reads
  currentTerrain,  \* the terrain copy getTerrainModel returns
  solver,          \* program counter of the thread that runs the MPC
  outcome          \* how the generation adopted last had ended (history)

inputVars == <<sent, buffer, active, terrainOf>>
taskVars == <<task, work>>
outVars == <<outBuffer, outActive, currentTerrain>>
vars == <<threaded, inputVars, taskVars, outVars, solver, outcome>>

NoUses == [c \in Inputs |-> 0]
Plan == [run : 1..RunTags, uses : [Inputs -> Nat]]
NoPlan == [run |-> 0, uses |-> NoUses]

\* The order of the steps of generateNewTargetTrajectories: a step is named
\* after the input it consumes or the output it publishes.
FaultyTaskAfter ==   \* setModeSchedule is forgotten
  [observe |-> "gait", gait |-> "swing", swing |-> "contacts",
   contacts |-> "terrain", terrain |-> "command", command |-> "plan",
   plan |-> "targets", targets |-> "constraints",
   constraints |-> "endEffectors", endEffectors |-> "done", modes |-> "done"]
TaskAfter ==
  [observe |-> "gait", gait |-> "swing", swing |-> "contacts",
   contacts |-> "terrain", terrain |-> "command", command |-> "plan",
   plan |-> "targets", targets |-> "constraints",
   constraints |-> "endEffectors", endEffectors |-> "modes", modes |-> "done"]

\* The order in which preSolverRun takes the outputs over.
FaultySwapAfter ==   \* the foot constraints are not updated
  [targets |-> "modes", modes |-> "endEffectors",
   endEffectors |-> "cloneTerrain", constraints |-> "cloneTerrain"]
SwapAfter ==
  [targets |-> "modes", modes |-> "endEffectors",
   endEffectors |-> "constraints", constraints |-> "cloneTerrain"]

Finished == {"done", "failed"}
TaskPc == DOMAIN TaskAfter \cup Finished \cup {"none"}
SolverPc == Outputs \cup {"constructed", "initialize", "idle", "generate",
                          "cloneTerrain", "spawn", "solve", "halted", "destroyed"}

\* The variables have their types; a generation has a plan in the making from its
\* start on.
TypeOK ==
  /\ threaded \in BOOLEAN
  /\ sent \in [Inputs -> Nat] /\ buffer \in [Inputs -> Nat]
  /\ active \in [Inputs -> Nat] /\ terrainOf \in [Planners -> Nat]
  /\ task \in TaskPc
  /\ work \in IF task = "none" THEN {NoPlan} ELSE Plan
  /\ outBuffer \in [Outputs -> Plan \cup {NoPlan}]
  /\ outActive \in [Outputs -> Plan \cup {NoPlan}]
  /\ currentTerrain \in Nat
  /\ solver \in SolverPc
  /\ outcome \in Finished

Init ==
  /\ threaded \in BOOLEAN
  /\ sent = NoUses /\ buffer = NoUses /\ active = NoUses
  /\ terrainOf = [p \in Planners |-> 0]
  /\ task = "none" /\ work = NoPlan
  /\ outBuffer = [o \in Outputs |-> NoPlan]
  /\ outActive = [o \in Outputs |-> NoPlan]
  /\ currentTerrain = 0
  /\ solver = "constructed"
  /\ outcome = "done"

-----------------------------------------------------------------------------
(* The setters, called by the threads of the node.                         *)

Set(c) ==
  /\ solver \notin {"constructed", "initialize", "destroyed"}
  /\ sent[c] < MaxVersion[c]
  /\ sent' = [sent EXCEPT ![c] = @ + 1]
  /\ buffer' = [buffer EXCEPT ![c] = sent[c] + 1]
  /\ UNCHANGED <<threaded, active, terrainOf, taskVars, outVars, solver, outcome>>

-----------------------------------------------------------------------------
(* generateNewTargetTrajectories, one action per access to shared state.   *)

StartTask ==
  /\ task' = "observe"
  /\ work' = [run |-> (work.run % RunTags) + 1, uses |-> NoUses]

\* Lines 230-235: the active targets are read through a reference.
Observe ==
  /\ task = "observe"
  /\ task' = TaskAfter[task]
  /\ UNCHANGED <<threaded, inputVars, work, outVars, solver, outcome>>

\* BufferedValue::updateFromBuffer: the pending version becomes the active
\* one and is no longer pending.
FaultyTakeKeepsFlag(c) ==
  /\ active' = [active EXCEPT ![c] = IF buffer[c] # 0 THEN buffer[c] ELSE @]
  /\ UNCHANGED buffer
FaultyTakeFirstOnly(c) ==
  /\ active' = [active EXCEPT ![c] = IF @ = 0 THEN buffer[c] ELSE @]
  /\ buffer' = [buffer EXCEPT ![c] = 0]
Take(c) ==
  /\ active' = [active EXCEPT ![c] = IF buffer[c] # 0 THEN buffer[c] ELSE @]
  /\ buffer' = [buffer EXCEPT ![c] = 0]

\* Both planners are pointed at the new active terrain object; the object
\* they referred to before is gone.
FaultyRebind == [terrainOf EXCEPT !["base"] = buffer["terrain"]]
Rebind == [p \in Planners |-> buffer["terrain"]]

\* What the generation uses of input c: the value just taken or the one an
\* earlier run took, but no command (stay in place) when none is new.
FaultyUsed(c) == IF buffer[c] = 0 THEN 0 ELSE active'[c]
Used(c) == IF c = "command" /\ buffer[c] = 0 THEN 0 ELSE active'[c]

Consume(c) ==
  /\ task = c
  /\ Take(c)
  /\ terrainOf' = IF c = "terrain" /\ buffer[c] # 0 THEN Rebind ELSE terrainOf
  /\ work' = [work EXCEPT !.uses[c] = Used(c)]
  /\ task' = TaskAfter[c]
  /\ UNCHANGED <<threaded, sent, outVars, solver, outcome>>

\* Lines 282-313: the planners run; nothing shared is touched, and an
\* exception of theirs ends the generation before anything is published.
PlanMotion ==
  /\ task = "plan"
  /\ \/ task' = TaskAfter[task]
     \/ MayThrow /\ task' = "failed"
  /\ UNCHANGED <<threaded, inputVars, work, outVars, solver, outcome>>

Publish(o) ==
  /\ task = o
  /\ outBuffer' = [outBuffer EXCEPT ![o] = work]
  /\ task' = TaskAfter[o]
  /\ UNCHANGED <<threaded, inputVars, work, outActive, currentTerrain, solver, outcome>>

-----------------------------------------------------------------------------
(* initialize, preSolverRun and the destructor, on the MPC thread.         *)

\* initialize sets its own version of every input but the command and takes
\* the copy of the terrain before the generation starts.
Initialize ==
  LET set == [c \in Inputs |-> IF c = "command" THEN 0 ELSE 1]
  IN  /\ solver = "constructed"
      /\ sent' = set /\ buffer' = set
      /\ currentTerrain' = 1
      /\ StartTask
      /\ solver' = "initialize"
      /\ UNCHANGED <<threaded, active, terrainOf, outBuffer, outActive, outcome>>

Swapped(o) == IF outBuffer[o] # NoPlan THEN outBuffer[o] ELSE outActive[o]

\* newTrajectories_ is ready, or the sequential generation has ended.
FaultyGenerationOver == TRUE
GenerationOver == task \in Finished

\* A threaded initialize waits for its task, which keeps an exception to
\* itself; a sequential one lets it through and no solver ever runs.
FinishInitialize ==
  /\ solver = "initialize"
  /\ GenerationOver
  /\ outcome' = task
  /\ IF threaded \/ task = "done"
     THEN /\ outActive' = [o \in Outputs |-> Swapped(o)]
          /\ outBuffer' = [o \in Outputs |-> NoPlan]
          /\ solver' = "idle"
     ELSE /\ solver' = "halted"
          /\ UNCHANGED <<outActive, outBuffer>>
  /\ UNCHANGED <<threaded, inputVars, taskVars, currentTerrain>>

\* preSolverRun finds the task still running: the solver runs on the
\* references it already has.
KeepReferences ==
  /\ solver = "idle" /\ threaded
  /\ ~GenerationOver
  /\ solver' = "solve"
  /\ UNCHANGED <<threaded, inputVars, taskVars, outVars, outcome>>

BeginSwap ==
  /\ solver = "idle" /\ threaded
  /\ GenerationOver
  /\ solver' = "targets"
  /\ outcome' = IF task = "failed" THEN "failed" ELSE "done"
  /\ UNCHANGED <<threaded, inputVars, taskVars, outVars>>

\* Without threads preSolverRun first generates, and an exception leaves it.
BeginGenerate ==
  /\ solver = "idle" /\ ~threaded
  /\ StartTask
  /\ solver' = "generate"
  /\ UNCHANGED <<threaded, inputVars, outVars, outcome>>

EndGenerate ==
  /\ solver = "generate"
  /\ GenerationOver
  /\ solver' = IF task = "done" THEN "targets" ELSE "halted"
  /\ outcome' = task
  /\ UNCHANGED <<threaded, inputVars, taskVars, outVars>>

Swap(o) ==
  /\ solver = o
  /\ outActive' = [outActive EXCEPT ![o] = Swapped(o)]
  /\ outBuffer' = [outBuffer EXCEPT ![o] = NoPlan]
  /\ solver' = SwapAfter[o]
  /\ UNCHANGED <<threaded, inputVars, taskVars, currentTerrain, outcome>>

FaultyClonedTerrain ==
  IF buffer["terrain"] # 0 THEN buffer["terrain"] ELSE active["terrain"]
ClonedTerrain == active["terrain"]

CloneTerrain ==
  /\ solver = "cloneTerrain"
  /\ currentTerrain' = ClonedTerrain
  /\ solver' = IF threaded THEN "spawn" ELSE "solve"
  /\ UNCHANGED <<threaded, inputVars, taskVars, outBuffer, outActive, outcome>>

Spawn ==
  /\ solver = "spawn"
  /\ StartTask
  /\ solver' = "solve"
  /\ UNCHANGED <<threaded, inputVars, outVars, outcome>>

SolverReturns ==
  /\ solver = "solve"
  /\ solver' = "idle"
  /\ UNCHANGED <<threaded, inputVars, taskVars, outVars, outcome>>

\* The destructor waits for the task.
Destroy ==
  /\ solver \in {"idle", "halted"}
  /\ threaded => GenerationOver
  /\ solver' = "destroyed"
  /\ UNCHANGED <<threaded, inputVars, taskVars, outVars, outcome>>

-----------------------------------------------------------------------------
Generate ==
  \/ Observe
  \/ \E c \in Inputs : Consume(c)
  \/ PlanMotion
  \/ \E o \in Outputs : Publish(o)

SolverLoop ==
  \/ Initialize \/ FinishInitialize
  \/ KeepReferences \/ BeginSwap
  \/ BeginGenerate \/ EndGenerate
  \/ \E o \in Outputs : Swap(o)
  \/ CloneTerrain \/ Spawn
  \/ SolverReturns

Next ==
  \/ \E c \in Inputs : Set(c)
  \/ Generate
  \/ SolverLoop
  \/ Destroy

Spec == Init /\ [][Next]_vars

\* The MPC thread calls preSolverRun again and again until it is stopped,
\* and the operating system lets the task run; no setter is ever owed.
FairSpec == Spec /\ WF_vars(Generate) /\ WF_vars(SolverLoop)
-----------------------------------------------------------------------------
(* Properties.                                                             *)

Swapping == Outputs \cup {"cloneTerrain", "spawn"}

\* While the solver runs, the target trajectory, the mode schedule, the
\* end effector references and the foot constraints it reads come from one
\* run of the generation, and from a real one unless planners throw.
SnapshotConsistent ==
  solver = "solve" =>
    /\ \A o \in Outputs : outActive[o] = outActive["targets"]
    /\ ~MayThrow => outActive["targets"] # NoPlan

\* preSolverRun moves buffers into active values and clones the terrain only
\* while no generation runs: the generation reads the active targets (230)
\* and writes the active terrain (259) with no lock.
SwapIsExclusive == solver \in Swapping => task \in Finished

\* The terrain copy the solver reads is the terrain its references were
\* planned on; after a generation that threw it may only be newer.
TerrainOfSnapshot ==
  solver = "solve" =>
    /\ currentTerrain >= outActive["targets"].uses["terrain"]
    /\ outcome = "done" => currentTerrain = outActive["targets"].uses["terrain"]

\* When the planners run, the raw terrain pointers of both refer to the
\* terrain object alive in bufferedTerrainModel_, never to none or to one
\* that updateFromBuffer has released.
PlannerTerrainAlive ==
  task = "plan" =>
    /\ active["terrain"] # 0
    /\ \A p \in Planners : terrainOf[p] = active["terrain"]

\* A velocity command moves the base in one generation only: a generation
\* uses a command set since the last one used, or none ("stay in place").
CommandUsedOnce ==
  [][(task = "command" /\ task' = "plan") =>
        \/ work'.uses["command"] = 0
        \/ work'.uses["command"] > active["command"]]_vars

\* The solver never goes back to references made from older gait
\* parameters, swing settings, contact flags or terrain.
SnapshotNeverGoesBack ==
  [][\A o \in Outputs, c \in Inputs \ {"command"} :
        outActive'[o].uses[c] >= outActive[o].uses[c]]_vars

Stopped == solver \in {"halted", "destroyed"}

\* A version of a lasting input that has been set, or a later one, is in the
\* end in the references the solver reads.
InputsReachSolver ==
  \A c \in Inputs \ {"command"} : \A v \in 1..MaxVersion[c] :
    sent[c] = v ~> outActive["constraints"].uses[c] >= v \/ Stopped

\* A command is, in the end, in the references the solver reads, unless a
\* later command overwrites it before.
CommandReachesSolver ==
  \A v \in 1..MaxVersion["command"] :
    buffer["command"] = v ~>
      outActive["constraints"].uses["command"] = v \/ sent["command"] > v \/ Stopped

-----------------------------------------------------------------------------
(* The threads and their buffers implement an atomic snapshot: it changes  *)
(* at the last of the four swaps.                                          *)
SnapshotView ==
  IF solver \in Outputs
  THEN [o \in Outputs |-> outActive["constraints"]]
  ELSE outActive

SnapshotOffer == IF task = "done" THEN outBuffer["constraints"] ELSE NoPlan
SnapshotReading == solver = "solve"

Snapshot == INSTANCE ReferenceSnapshot WITH
  Plans <- Plan,
  reading <- SnapshotReading,
  offer <- SnapshotOffer,
  view <- SnapshotView

\* LeggedReferenceManager implements ReferenceSnapshot.
RefinesSnapshot == Snapshot!Spec
=============================================================================
