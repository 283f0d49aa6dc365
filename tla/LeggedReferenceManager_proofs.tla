------------------- MODULE LeggedReferenceManager_proofs -------------------
(***************************************************************************)
(* Proofs about LeggedReferenceManager, for every bound on the versions    *)
(* and the runs, with threads and without, with planners that throw and    *)
(* planners that do not: its snapshot is consistent and implements the     *)
(* atomic one; what the solver reads never gets older, the terrain it      *)
(* reads is the one its references were planned on, and a command is used  *)
(* once.                                                                   *)
(***************************************************************************)
EXTENDS LeggedReferenceManager, TLAPS

\* The tags of the generations stay within their bound.
LEMMA NextTag ==
  ASSUME NEW r \in Nat
  PROVE  (r % RunTags) + 1 \in 1..RunTags
BY RunTagsAssumption

\* A generation starts on a plan with a tag of its own and no inputs.
LEMMA StartTaskType ==
  ASSUME TypeOK, StartTask
  PROVE  task' \in TaskPc \ {"none"} /\ work' \in Plan
<1>1. work.run \in Nat
  BY DEF TypeOK, Plan, NoPlan
<1>2. (work.run % RunTags) + 1 \in 1..RunTags
  BY <1>1, NextTag
<1>3. NoUses \in [Inputs -> Nat]
  BY DEF NoUses
<1> QED
  BY <1>2, <1>3 DEF StartTask, TaskPc, TaskAfter, Plan

\* Every step of the generation is followed by another one, or by its end.
LEMMA TaskAfterType ==
  /\ \A pc \in DOMAIN TaskAfter : TaskAfter[pc] \in TaskPc \ {"none"}
  /\ Inputs \subseteq DOMAIN TaskAfter /\ Outputs \subseteq DOMAIN TaskAfter
  /\ {"observe", "plan"} \subseteq DOMAIN TaskAfter
  /\ "none" \notin DOMAIN TaskAfter
BY DEF TaskAfter, TaskPc, Finished, Inputs, Outputs

\* The manager that has been constructed has its type.
LEMMA TypeInit == Init => TypeOK
BY DEF Init, TypeOK, NoUses, NoPlan, TaskPc, SolverPc, Finished, Plan

\* Every setter, every step of the generation and every step of the solver thread
\* keeps the types.
LEMMA TypeNext == TypeOK /\ [Next]_vars => TypeOK'
<1> SUFFICES ASSUME TypeOK, [Next]_vars PROVE TypeOK'
  OBVIOUS
<1>1. ASSUME NEW c \in Inputs, Set(c) PROVE TypeOK'
  BY <1>1 DEF Set, TypeOK, taskVars, outVars
<1>2. CASE Observe
  BY <1>2, TaskAfterType DEF Observe, TypeOK, inputVars, outVars
<1>3. ASSUME NEW c \in Inputs, Consume(c) PROVE TypeOK'
  <2>1. active' \in [Inputs -> Nat] /\ buffer' \in [Inputs -> Nat]
    BY <1>3 DEF Consume, Take, TypeOK
  <2>2. Used(c) \in Nat
    BY <2>1 DEF Used
  <2>3. work' \in Plan
    <3>1. work \in Plan
      BY <1>3 DEF Consume, TypeOK, Inputs
    <3>2. work' = [run |-> work.run, uses |-> [work.uses EXCEPT ![c] = Used(c)]]
      BY <1>3, <3>1 DEF Consume, Plan
    <3> QED
      BY <2>2, <3>1, <3>2 DEF Plan
  <2>4. terrainOf' \in [Planners -> Nat]
    BY <1>3 DEF Consume, Rebind, TypeOK
  <2> QED
    BY <1>3, <2>1, <2>3, <2>4, TaskAfterType DEF Consume, TypeOK, outVars
<1>4. CASE PlanMotion
  BY <1>4, TaskAfterType DEF PlanMotion, TypeOK, TaskPc, Finished, inputVars, outVars
<1>5. ASSUME NEW o \in Outputs, Publish(o) PROVE TypeOK'
  BY <1>5, TaskAfterType DEF Publish, TypeOK, inputVars
<1>6. CASE Initialize
  BY <1>6, StartTaskType DEF Initialize, TypeOK, SolverPc
<1>7. CASE FinishInitialize
  BY <1>7 DEF FinishInitialize, GenerationOver, Swapped, TypeOK, SolverPc, inputVars, taskVars
<1>8. CASE KeepReferences \/ BeginSwap \/ SolverReturns \/ Destroy \/ EndGenerate
  BY <1>8 DEF KeepReferences, BeginSwap, SolverReturns, Destroy, EndGenerate,
     GenerationOver, TypeOK, SolverPc, Outputs, Finished, inputVars, taskVars, outVars
<1>9. CASE BeginGenerate \/ Spawn
  BY <1>9, StartTaskType DEF BeginGenerate, Spawn, TypeOK, SolverPc, inputVars, outVars
<1>10. ASSUME NEW o \in Outputs, Swap(o) PROVE TypeOK'
  BY <1>10 DEF Swap, Swapped, SwapAfter, TypeOK, SolverPc, Outputs, inputVars, taskVars
<1>11. CASE CloneTerrain
  BY <1>11 DEF CloneTerrain, ClonedTerrain, TypeOK, SolverPc, Inputs, inputVars, taskVars
<1>12. CASE UNCHANGED vars
  BY <1>12 DEF TypeOK, vars, inputVars, taskVars, outVars
<1> QED
  BY <1>1, <1>2, <1>3, <1>4, <1>5, <1>6, <1>7, <1>8, <1>9, <1>10, <1>11, <1>12
     DEF Next, Generate, SolverLoop

\* The state always has its type.
THEOREM TypeCorrect == Spec => []TypeOK
BY TypeInit, TypeNext, PTL DEF Spec

-----------------------------------------------------------------------------
(* The snapshot. Its invariant relates the two program counters to what    *)
(* the buffers hold: all the outputs of one generation, or none of them.   *)

\* The outputs a generation has published before the step named o, and
\* those preSolverRun has taken over before that step of its own.
PublishedBefore ==
  [targets |-> {}, constraints |-> {"targets"},
   endEffectors |-> {"targets", "constraints"},
   modes |-> {"targets", "constraints", "endEffectors"}]
SwappedBefore ==
  [targets |-> {}, modes |-> {"targets"}, endEffectors |-> {"targets", "modes"},
   constraints |-> {"targets", "modes", "endEffectors"}]

\* The steps of the solver thread during which nothing is left in the
\* buffers when the generation runs inside preSolverRun.
Between == {"idle", "solve"}

\* The solver thread and the generation: the buffers are taken over after the
\* generation has ended and before the next one starts.
ControlInv ==
  /\ solver = "constructed" <=> task = "none"
  /\ solver \in Swapping => task \in Finished
  /\ solver = "spawn" => threaded
  /\ ~threaded /\ solver \in Between => task \in Finished

EmptyBuffers == \A o \in Outputs : outBuffer[o] = NoPlan
FullBuffers == \A o \in Outputs : outBuffer[o] = work

\* The buffers hold what the generation has published so far, and nothing of an
\* earlier one.
BufferInv ==
  /\ task \in Outputs =>
       \A o \in Outputs :
         outBuffer[o] = IF o \in PublishedBefore[task] THEN work ELSE NoPlan
  /\ task \notin Outputs \cup {"done"} => EmptyBuffers
  /\ task = "done" /\ solver \notin Outputs => FullBuffers \/ EmptyBuffers
  /\ task = "done" /\ solver = "initialize" => FullBuffers
  /\ solver \in {"cloneTerrain", "spawn"} => EmptyBuffers
  /\ ~threaded /\ solver \in Between => EmptyBuffers

\* Between two swaps all the active plans agree. In the middle of a swap the
\* outputs already taken over hold what the last one, the constraints, will.
ActiveInv ==
  /\ solver \notin Outputs =>
       \A o \in Outputs : outActive[o] = outActive["constraints"]
  /\ solver \in Outputs =>
       \A o \in Outputs :
         IF o \in SwappedBefore[solver]
         THEN outBuffer[o] = NoPlan /\ outActive[o] = Swapped("constraints")
         ELSE /\ outBuffer[o] = outBuffer["constraints"]
              /\ outActive[o] = outActive["constraints"]

\* Planners that do not throw leave the solver a real plan after initialize.
PlannedInv ==
  ~MayThrow =>
    /\ task # "failed"
    /\ solver \notin {"constructed", "initialize"} => outActive["constraints"] # NoPlan

\* The inductive invariant: SnapshotConsistent alone says nothing of the buffers.
SnapshotInv == ControlInv /\ BufferInv /\ ActiveInv /\ PlannedInv

\* The constructor establishes the invariant.
LEMMA SnapshotInit == Init => SnapshotInv
BY DEF Init, SnapshotInv, ControlInv, BufferInv, ActiveInv, PlannedInv, EmptyBuffers,
   Swapping, Outputs, Finished, Between

\* What the four parts depend on besides their program counters.
snapshotState == <<threaded, task, work, outBuffer, outActive, solver>>

\* A step that leaves the snapshot state alone, a setter, keeps the invariant.
LEMMA SnapshotFrame ==
  ASSUME SnapshotInv, UNCHANGED snapshotState
  PROVE  SnapshotInv'
BY DEF snapshotState, SnapshotInv, ControlInv, BufferInv, ActiveInv, PlannedInv,
   EmptyBuffers, FullBuffers, Swapped

\* A step of the generation, which is not over yet, leaves the outputs the
\* solver reads alone, and the solver thread is not taking any over.
LEMMA SnapshotGenerate == TypeOK /\ SnapshotInv /\ Generate => SnapshotInv'
<1> SUFFICES ASSUME TypeOK, SnapshotInv, Generate PROVE SnapshotInv'
  OBVIOUS
<1> USE DEF Outputs, Inputs, Finished
<1>1. /\ task \in DOMAIN TaskAfter /\ task' \in DOMAIN TaskAfter \cup Finished
      /\ UNCHANGED <<threaded, outActive, solver>>
  BY DEF Generate, Observe, Consume, PlanMotion, Publish, TaskAfter, outVars
<1>2. solver \notin Swapping /\ solver # "constructed" /\ ~(~threaded /\ solver \in Between)
  BY <1>1 DEF SnapshotInv, ControlInv, TaskAfter
<1>3. ControlInv' /\ ActiveInv'
  <2>1. ControlInv'
    BY <1>1, <1>2 DEF SnapshotInv, ControlInv, TaskAfter, Swapping
  <2>2. solver' \notin Outputs
    BY <1>1, <1>2 DEF Swapping
  <2>3. \A o \in Outputs : outActive[o] = outActive["constraints"]
    BY <1>2 DEF SnapshotInv, ActiveInv, Swapping
  <2> QED
    BY <1>1, <2>1, <2>2, <2>3 DEF ActiveInv
<1>4. CASE Observe \/ PlanMotion
  <2>1. EmptyBuffers /\ UNCHANGED <<outBuffer, work>>
    BY <1>4 DEF Observe, PlanMotion, SnapshotInv, BufferInv, outVars
  <2>2. BufferInv'
    BY <1>2, <1>4, <2>1 DEF Observe, PlanMotion, BufferInv, EmptyBuffers, TaskAfter,
       Swapping, PublishedBefore
  <2>3. PlannedInv'
    BY <1>1, <1>4 DEF Observe, PlanMotion, SnapshotInv, PlannedInv, TaskAfter
  <2> QED
    BY <1>3, <2>2, <2>3 DEF SnapshotInv
<1>5. ASSUME NEW c \in Inputs, Consume(c) PROVE SnapshotInv'
  <2>1. EmptyBuffers /\ UNCHANGED outBuffer
    BY <1>5 DEF Consume, SnapshotInv, BufferInv, outVars
  <2>2. BufferInv'
    BY <1>2, <1>5, <2>1 DEF Consume, BufferInv, EmptyBuffers, TaskAfter, Swapping
  <2>3. PlannedInv'
    BY <1>1, <1>5 DEF Consume, SnapshotInv, PlannedInv, TaskAfter
  <2> QED
    BY <1>3, <2>2, <2>3 DEF SnapshotInv
<1>6. ASSUME NEW o \in Outputs, Publish(o) PROVE SnapshotInv'
  <2>1. /\ task = o /\ task' = TaskAfter[o] /\ UNCHANGED work
        /\ outBuffer' = [outBuffer EXCEPT ![o] = work]
        /\ outBuffer \in [Outputs -> Plan \cup {NoPlan}]
    BY <1>6 DEF Publish, TypeOK
  <2>2. task' \in Outputs =>
          \A q \in Outputs :
            outBuffer'[q] = IF q \in PublishedBefore[task'] THEN work' ELSE NoPlan
    BY <2>1 DEF SnapshotInv, BufferInv, TaskAfter, PublishedBefore
  <2>3. task' = "done" => FullBuffers'
    BY <2>1 DEF SnapshotInv, BufferInv, FullBuffers, TaskAfter, PublishedBefore
  <2>4. BufferInv'
    BY <1>1, <1>2, <2>1, <2>2, <2>3 DEF BufferInv, Swapping, TaskAfter
  <2>5. PlannedInv'
    BY <1>1, <2>1 DEF SnapshotInv, PlannedInv, TaskAfter
  <2> QED
    BY <1>3, <2>4, <2>5 DEF SnapshotInv
<1> QED
  BY <1>4, <1>5, <1>6 DEF Generate

\* A generation starts only when the buffers are empty; nothing else of the
\* snapshot changes with it, except the thread that starts it.
LEMMA SnapshotStart ==
  ASSUME TypeOK, SnapshotInv, StartTask, EmptyBuffers,
         UNCHANGED <<threaded, outBuffer, outActive>>,
         solver \notin Outputs,
         \/ solver = "constructed" /\ solver' = "initialize"
         \/ solver = "spawn" /\ solver' = "solve" /\ threaded
         \/ solver = "idle" /\ solver' = "generate"
  PROVE  SnapshotInv'
<1> USE DEF Outputs
<1>1. task' = "observe"
  BY DEF StartTask
<1>2. ControlInv'
  BY <1>1 DEF ControlInv, Swapping, Between
<1>3. BufferInv'
  BY <1>1 DEF BufferInv, EmptyBuffers, Between
<1>4. ActiveInv'
  BY DEF SnapshotInv, ActiveInv
<1>5. PlannedInv'
  BY <1>1 DEF SnapshotInv, PlannedInv
<1> QED
  BY <1>2, <1>3, <1>4, <1>5 DEF SnapshotInv

\* A step of initialize, preSolverRun or the destructor keeps the invariant.
LEMMA SnapshotSolver == TypeOK /\ SnapshotInv /\ (SolverLoop \/ Destroy) => SnapshotInv'
<1> SUFFICES ASSUME TypeOK, SnapshotInv, SolverLoop \/ Destroy PROVE SnapshotInv'
  OBVIOUS
<1> USE DEF Outputs, Finished
<1>1. CASE Initialize
  <2>1. EmptyBuffers
    BY <1>1 DEF Initialize, SnapshotInv, ControlInv, BufferInv
  <2> QED
    BY <1>1, <2>1, SnapshotStart DEF Initialize
<1>2. CASE FinishInitialize
  <2>1. FullBuffers \/ EmptyBuffers
    BY <1>2 DEF FinishInitialize, GenerationOver, SnapshotInv, BufferInv
  <2>2. CASE threaded \/ task = "done"
    <3>1. /\ \A o \in Outputs : outActive'[o] = Swapped(o) /\ outBuffer'[o] = NoPlan
          /\ solver' = "idle" /\ UNCHANGED <<threaded, task, work>> /\ task \in Finished
      BY <1>2, <2>2 DEF FinishInitialize, GenerationOver, taskVars
    <3>2. ControlInv' /\ BufferInv'
      BY <3>1 DEF SnapshotInv, ControlInv, BufferInv, EmptyBuffers, Swapping
    <3>3. ActiveInv'
      BY <1>2, <2>1, <3>1 DEF FinishInitialize, SnapshotInv, ActiveInv, FullBuffers,
         EmptyBuffers, Swapped
    <3>4. PlannedInv'
      <4>1. CASE ~MayThrow
        <5>1. task = "done" /\ FullBuffers
          BY <1>2, <3>1, <4>1 DEF FinishInitialize, SnapshotInv, PlannedInv, BufferInv
        <5>2. work # NoPlan
          BY <5>1 DEF TypeOK, Plan, NoPlan
        <5> QED
          BY <3>1, <5>1, <5>2 DEF PlannedInv, FullBuffers, Swapped
      <4> QED
        BY <4>1 DEF PlannedInv
    <3> QED
      BY <3>2, <3>3, <3>4 DEF SnapshotInv
  <2>3. CASE ~(threaded \/ task = "done")
    <3>1. /\ solver' = "halted" /\ task = "failed"
          /\ UNCHANGED <<threaded, task, work, outBuffer, outActive>>
      BY <1>2, <2>3 DEF FinishInitialize, GenerationOver, taskVars
    <3>2. ControlInv' /\ BufferInv'
      BY <3>1 DEF SnapshotInv, ControlInv, BufferInv, EmptyBuffers, Swapping, Between
    <3>3. ActiveInv' /\ PlannedInv'
      BY <1>2, <3>1 DEF FinishInitialize, SnapshotInv, ActiveInv, PlannedInv
    <3> QED
      BY <3>2, <3>3 DEF SnapshotInv
  <2> QED
    BY <2>2, <2>3
<1>3. CASE KeepReferences
  BY <1>3 DEF KeepReferences, GenerationOver, SnapshotInv, ControlInv, BufferInv,
     ActiveInv, PlannedInv, EmptyBuffers, FullBuffers, Swapping, taskVars, outVars
<1>4. CASE BeginSwap \/ EndGenerate
  <2>1. /\ UNCHANGED <<threaded, task, work, outBuffer, outActive>>
        /\ task \in Finished /\ solver \in {"idle", "generate"}
        /\ solver' \in {"targets", "halted"} /\ (solver' = "halted" => task = "failed")
    BY <1>4 DEF BeginSwap, EndGenerate, GenerationOver, taskVars, outVars
  <2>2. FullBuffers \/ EmptyBuffers
    BY <2>1 DEF SnapshotInv, BufferInv
  <2>3. ControlInv' /\ BufferInv'
    BY <2>1 DEF SnapshotInv, ControlInv, BufferInv, EmptyBuffers, Swapping, Between
  <2>4. ActiveInv' /\ PlannedInv'
    BY <2>1, <2>2 DEF SnapshotInv, ActiveInv, PlannedInv, FullBuffers, EmptyBuffers,
       SwappedBefore
  <2> QED
    BY <2>3, <2>4 DEF SnapshotInv
<1>5. CASE BeginGenerate
  <2>1. EmptyBuffers
    BY <1>5 DEF BeginGenerate, SnapshotInv, BufferInv, Between
  <2> QED
    BY <1>5, <2>1, SnapshotStart DEF BeginGenerate, outVars
<1>6. ASSUME NEW o \in Outputs, Swap(o) PROVE SnapshotInv'
  <2>1. /\ solver = o /\ solver' = SwapAfter[o] /\ UNCHANGED <<threaded, task, work>>
        /\ outActive' = [outActive EXCEPT ![o] = Swapped(o)]
        /\ outBuffer' = [outBuffer EXCEPT ![o] = NoPlan]
        /\ outActive \in [Outputs -> Plan \cup {NoPlan}]
        /\ outBuffer \in [Outputs -> Plan \cup {NoPlan}]
        /\ task \in Finished
    BY <1>6 DEF Swap, TypeOK, taskVars, SnapshotInv, ControlInv, Swapping
  <2>2. solver' = "cloneTerrain" => EmptyBuffers'
    BY <2>1 DEF SnapshotInv, ActiveInv, SwapAfter, SwappedBefore, EmptyBuffers
  <2>3. ControlInv'
    BY <2>1 DEF SnapshotInv, ControlInv, SwapAfter, Swapping, Between
  <2>4. BufferInv'
    BY <2>1, <2>2 DEF SnapshotInv, BufferInv, EmptyBuffers, SwapAfter, Between
  <2>5. ActiveInv'
    BY <2>1 DEF SnapshotInv, ActiveInv, SwapAfter, SwappedBefore, Swapped
  <2>6. PlannedInv'
    BY <2>1 DEF SnapshotInv, PlannedInv, SwapAfter, Swapped
  <2> QED
    BY <2>3, <2>4, <2>5, <2>6 DEF SnapshotInv
<1>7. CASE CloneTerrain
  BY <1>7 DEF CloneTerrain, SnapshotInv, ControlInv, BufferInv, ActiveInv, PlannedInv,
     EmptyBuffers, FullBuffers, Swapping, Between, taskVars
<1>8. CASE Spawn
  <2>1. EmptyBuffers /\ threaded
    BY <1>8 DEF Spawn, SnapshotInv, ControlInv, BufferInv
  <2> QED
    BY <1>8, <2>1, SnapshotStart DEF Spawn, outVars
<1>9. CASE SolverReturns
  BY <1>9 DEF SolverReturns, SnapshotInv, ControlInv, BufferInv, ActiveInv, PlannedInv,
     EmptyBuffers, FullBuffers, Swapping, Between, taskVars, outVars
<1>10. CASE Destroy
  BY <1>10 DEF Destroy, SnapshotInv, ControlInv, BufferInv, ActiveInv, PlannedInv,
     EmptyBuffers, FullBuffers, Swapping, Between, taskVars, outVars
<1> QED
  BY <1>1, <1>2, <1>3, <1>4, <1>5, <1>6, <1>7, <1>8, <1>9, <1>10 DEF SolverLoop

\* So does every step of the system.
LEMMA SnapshotNext == TypeOK /\ SnapshotInv /\ [Next]_vars => SnapshotInv'
<1> SUFFICES ASSUME TypeOK, SnapshotInv, [Next]_vars PROVE SnapshotInv'
  OBVIOUS
<1>1. CASE Generate
  BY <1>1, SnapshotGenerate
<1>2. CASE SolverLoop \/ Destroy
  BY <1>2, SnapshotSolver
<1>3. ASSUME NEW c \in Inputs, Set(c) PROVE SnapshotInv'
  BY <1>3, SnapshotFrame DEF Set, snapshotState, taskVars, outVars
<1>4. CASE UNCHANGED vars
  BY <1>4, SnapshotFrame DEF vars, snapshotState, taskVars, outVars
<1> QED
  BY <1>1, <1>2, <1>3, <1>4 DEF Next

\* The invariant holds in every reachable state, for every number of versions and
\* tags, threaded or not, with planners that throw or not.
THEOREM SnapshotInvariant == Spec => [](TypeOK /\ SnapshotInv)
BY TypeInit, TypeNext, SnapshotInit, SnapshotNext, PTL DEF Spec

\* The references a solver run reads are all of one generation, in every
\* interleaving of the setters, the generation and the solver thread.
THEOREM SnapshotIsConsistent == Spec => []SnapshotConsistent
<1>1. TypeOK /\ SnapshotInv => SnapshotConsistent
  BY DEF SnapshotInv, ActiveInv, PlannedInv, SnapshotConsistent, Outputs
<1> QED
  BY <1>1, SnapshotInvariant, PTL

\* The unlocked accesses of preSolverRun never meet those of a generation.
THEOREM SwapExclusive == Spec => []SwapIsExclusive
<1>1. TypeOK /\ SnapshotInv => SwapIsExclusive
  BY DEF SnapshotInv, ControlInv, SwapIsExclusive
<1> QED
  BY <1>1, SnapshotInvariant, PTL

-----------------------------------------------------------------------------
(* The refinement of ReferenceSnapshot.                                    *)

snapshotView == <<task, outBuffer, outActive, solver>>

\* A step that leaves the snapshot view alone is a stutter of the snapshot.
LEMMA RefinementStutters ==
  ASSUME UNCHANGED snapshotView
  PROVE  UNCHANGED Snapshot!snapshotVars
BY DEF snapshotView, Snapshot!snapshotVars, SnapshotView, SnapshotOffer, SnapshotReading

\* A manager without references is a snapshot that shows nothing.
LEMMA RefinementInit == Init => Snapshot!Init
BY DEF Init, Snapshot!Init, SnapshotView, SnapshotOffer, SnapshotReading, Outputs

\* The generation offers its plan by the last publication of the four.
LEMMA RefinementGenerate ==
  ASSUME TypeOK, SnapshotInv, Generate
  PROVE  [Snapshot!Next]_Snapshot!snapshotVars
<1>1. UNCHANGED <<outActive, solver>> /\ task \in DOMAIN TaskAfter
  BY DEF Generate, Observe, Consume, PlanMotion, Publish, TaskAfter, Inputs, Outputs, outVars
<1>2. solver \notin Outputs
  BY <1>1 DEF SnapshotInv, ControlInv, Swapping, TaskAfter, Finished
<1>3. CASE Observe \/ PlanMotion \/ \E c \in Inputs : Consume(c)
  <2>1. task # "done" /\ task' # "done"
    BY <1>3 DEF Observe, PlanMotion, Consume, TaskAfter, Inputs
  <2> QED
    BY <1>1, <1>2, <2>1 DEF Snapshot!snapshotVars, SnapshotView, SnapshotOffer, SnapshotReading
<1>4. ASSUME NEW o \in Outputs \ {"modes"}, Publish(o)
      PROVE  UNCHANGED Snapshot!snapshotVars
  <2>1. task # "done" /\ task' # "done"
    BY <1>4 DEF Publish, TaskAfter, Outputs
  <2> QED
    BY <1>1, <1>2, <2>1 DEF Snapshot!snapshotVars, SnapshotView, SnapshotOffer, SnapshotReading
<1>5. CASE Publish("modes")
  <2>1. task = "modes" /\ task' = "done" /\ outBuffer'["constraints"] = outBuffer["constraints"]
    BY <1>5 DEF Publish, TaskAfter, TypeOK, Outputs
  <2>2. outBuffer["constraints"] = work /\ work \in Plan
    BY <2>1 DEF SnapshotInv, BufferInv, PublishedBefore, Outputs, TypeOK
  <2>3. Snapshot!Offer
    BY <1>1, <1>2, <2>1, <2>2 DEF Snapshot!Offer, SnapshotView, SnapshotOffer, SnapshotReading
  <2> QED
    BY <2>3 DEF Snapshot!Next
<1> QED
  BY <1>3, <1>4, <1>5 DEF Generate, Outputs

\* A generation that starts takes no offer away.
LEMMA RefinementStart ==
  ASSUME SnapshotInv, StartTask, EmptyBuffers, UNCHANGED <<outBuffer, outActive>>,
         solver \notin Outputs, solver' \notin Outputs
  PROVE  UNCHANGED <<SnapshotOffer, SnapshotView>>
BY DEF StartTask, EmptyBuffers, SnapshotView, SnapshotOffer, Outputs

\* The last swap adopts the offer; the earlier ones do not show. The solver
\* runs are those of the abstract solver.
LEMMA RefinementSolver ==
  ASSUME TypeOK, SnapshotInv, SolverLoop \/ Destroy
  PROVE  [Snapshot!Next]_Snapshot!snapshotVars
<1> USE DEF Finished
<1>1. CASE Initialize
  <2>1. EmptyBuffers
    BY <1>1 DEF Initialize, SnapshotInv, ControlInv, BufferInv, Outputs
  <2>2. UNCHANGED <<SnapshotOffer, SnapshotView>>
    BY <1>1, <2>1, RefinementStart DEF Initialize, Outputs
  <2> QED
    BY <1>1, <2>2 DEF Initialize, SnapshotReading, Snapshot!snapshotVars
<1>2. CASE FinishInitialize
  <2>1. CASE task = "done"
    <3>1. /\ solver = "initialize" /\ solver' = "idle" /\ task' = "done"
          /\ \A o \in Outputs : outBuffer[o] = work
          /\ outActive' = [o \in Outputs |-> Swapped(o)]
          /\ outBuffer' = [o \in Outputs |-> NoPlan]
          /\ work # NoPlan
      BY <1>2, <2>1 DEF FinishInitialize, SnapshotInv, BufferInv, FullBuffers, taskVars,
         TypeOK, Plan, NoPlan
    <3>2. SnapshotOffer = work /\ SnapshotOffer' = NoPlan
      BY <2>1, <3>1 DEF SnapshotOffer, Outputs
    <3>3. SnapshotView' = [o \in Outputs |-> work]
      BY <3>1 DEF SnapshotView, Swapped, Outputs
    <3>4. Snapshot!Adopt
      BY <3>1, <3>2, <3>3 DEF Snapshot!Adopt, SnapshotReading
    <3> QED
      BY <3>4 DEF Snapshot!Next
  <2>2. CASE task = "failed"
    <3>1. /\ EmptyBuffers /\ solver = "initialize" /\ solver' \in {"idle", "halted"}
          /\ outActive \in [Outputs -> Plan \cup {NoPlan}] /\ task' = "failed"
          /\ \/ outActive' = [o \in Outputs |-> Swapped(o)]
             \/ UNCHANGED outActive
      BY <1>2, <2>2 DEF FinishInitialize, SnapshotInv, BufferInv, taskVars, TypeOK, Outputs
    <3>2. UNCHANGED outActive
      BY <3>1 DEF EmptyBuffers, Swapped
    <3> QED
      BY <2>2, <3>1, <3>2 DEF Snapshot!snapshotVars, SnapshotView, SnapshotOffer,
         SnapshotReading, Outputs
  <2> QED
    BY <1>2, <2>1, <2>2 DEF FinishInitialize, GenerationOver
<1>3. CASE KeepReferences
  <2>1. Snapshot!BeginRun
    BY <1>3 DEF KeepReferences, Snapshot!BeginRun, SnapshotView, SnapshotOffer,
       SnapshotReading, Outputs, taskVars, outVars
  <2> QED
    BY <2>1 DEF Snapshot!Next
<1>4. CASE BeginSwap \/ EndGenerate
  <2>1. /\ UNCHANGED <<task, outBuffer, outActive>> /\ solver \in {"idle", "generate"}
        /\ solver' \in {"targets", "halted"}
    BY <1>4 DEF BeginSwap, EndGenerate, taskVars, outVars
  <2>2. outActive = [o \in Outputs |-> outActive["constraints"]]
    BY <2>1 DEF SnapshotInv, ActiveInv, TypeOK, Outputs
  <2> QED
    BY <2>1, <2>2 DEF Snapshot!snapshotVars, SnapshotView, SnapshotOffer, SnapshotReading,
       Outputs
<1>5. CASE BeginGenerate
  <2>1. EmptyBuffers
    BY <1>5 DEF BeginGenerate, SnapshotInv, BufferInv, Between
  <2>2. UNCHANGED <<SnapshotOffer, SnapshotView>>
    BY <1>5, <2>1, RefinementStart DEF BeginGenerate, outVars, Outputs
  <2> QED
    BY <1>5, <2>2 DEF BeginGenerate, SnapshotReading, Snapshot!snapshotVars
<1>6. ASSUME NEW o \in Outputs \ {"constraints"}, Swap(o)
      PROVE  UNCHANGED Snapshot!snapshotVars
  BY <1>6 DEF Swap, SwapAfter, TypeOK, Snapshot!snapshotVars, SnapshotView, SnapshotOffer,
     SnapshotReading, Outputs, taskVars
<1>7. CASE Swap("constraints")
  <2>1. /\ solver = "constraints" /\ solver' = "cloneTerrain" /\ UNCHANGED task
        /\ outActive' = [outActive EXCEPT !["constraints"] = Swapped("constraints")]
        /\ outBuffer'["constraints"] = NoPlan /\ task \in Finished
        /\ outActive \in [Outputs -> Plan \cup {NoPlan}]
    BY <1>7 DEF Swap, SwapAfter, TypeOK, taskVars, Outputs, SnapshotInv, ControlInv, Swapping
  <2>2. SnapshotView' = [o \in Outputs |-> Swapped("constraints")]
    BY <2>1 DEF SnapshotView, SnapshotInv, ActiveInv, SwappedBefore, Outputs
  <2>3. SnapshotView = [o \in Outputs |-> outActive["constraints"]]
    BY <2>1 DEF SnapshotView, Outputs
  <2>4. SnapshotOffer' = NoPlan /\ ~SnapshotReading /\ ~SnapshotReading'
    BY <2>1 DEF SnapshotOffer, SnapshotReading
  <2>5. CASE outBuffer["constraints"] = NoPlan
    BY <2>2, <2>3, <2>4, <2>5 DEF Snapshot!snapshotVars, SnapshotOffer, Swapped, SnapshotReading
  <2>6. CASE outBuffer["constraints"] # NoPlan
    <3>1. task = "done"
      BY <2>1, <2>6 DEF SnapshotInv, BufferInv, EmptyBuffers, Outputs
    <3>2. Snapshot!Adopt
      BY <2>2, <2>4, <2>6, <3>1 DEF Snapshot!Adopt, SnapshotOffer, Swapped, SnapshotReading
    <3> QED
      BY <3>2 DEF Snapshot!Next
  <2> QED
    BY <2>5, <2>6
<1>8. CASE CloneTerrain
  <2>1. /\ solver = "cloneTerrain" /\ solver' \in {"spawn", "solve"}
        /\ UNCHANGED <<task, outBuffer, outActive>>
    BY <1>8 DEF CloneTerrain, taskVars
  <2>2. UNCHANGED <<SnapshotOffer, SnapshotView>>
    BY <2>1 DEF SnapshotOffer, SnapshotView, Outputs
  <2>3. Snapshot!BeginRun \/ UNCHANGED Snapshot!snapshotVars
    BY <2>1, <2>2 DEF Snapshot!BeginRun, Snapshot!snapshotVars, SnapshotReading
  <2> QED
    BY <2>3 DEF Snapshot!Next
<1>9. CASE Spawn
  <2>1. EmptyBuffers
    BY <1>9 DEF Spawn, SnapshotInv, BufferInv
  <2>2. UNCHANGED <<SnapshotOffer, SnapshotView>>
    BY <1>9, <2>1, RefinementStart DEF Spawn, outVars, Outputs
  <2>3. Snapshot!BeginRun
    BY <1>9, <2>2 DEF Spawn, Snapshot!BeginRun, SnapshotReading
  <2> QED
    BY <2>3 DEF Snapshot!Next
<1>10. CASE SolverReturns
  <2>1. Snapshot!EndRun
    BY <1>10 DEF SolverReturns, Snapshot!EndRun, SnapshotView, SnapshotOffer,
       SnapshotReading, Outputs, taskVars, outVars
  <2> QED
    BY <2>1 DEF Snapshot!Next
<1>11. CASE Destroy
  BY <1>11 DEF Destroy, Snapshot!snapshotVars, SnapshotView, SnapshotOffer,
     SnapshotReading, Outputs, taskVars, outVars
<1> QED
  BY <1>1, <1>2, <1>3, <1>4, <1>5, <1>6, <1>7, <1>8, <1>9, <1>10, <1>11
     DEF SolverLoop, Outputs

\* Every step of the manager is a step of the snapshot or a stutter.
LEMMA RefinementNext ==
  TypeOK /\ SnapshotInv /\ [Next]_vars => [Snapshot!Next]_Snapshot!snapshotVars
<1> SUFFICES ASSUME TypeOK, SnapshotInv, [Next]_vars
             PROVE  [Snapshot!Next]_Snapshot!snapshotVars
  OBVIOUS
<1>1. ASSUME NEW c \in Inputs, Set(c) PROVE UNCHANGED Snapshot!snapshotVars
  BY <1>1, RefinementStutters DEF Set, snapshotView, taskVars, outVars
<1>2. CASE UNCHANGED vars
  BY <1>2, RefinementStutters DEF vars, snapshotView, taskVars, outVars
<1> QED
  BY <1>1, <1>2, RefinementGenerate, RefinementSolver DEF Next

\* The reference manager implements the atomic snapshot.
THEOREM ImplementsSnapshot == Spec => RefinesSnapshot
BY RefinementInit, RefinementNext, SnapshotInvariant, PTL DEF Spec, Snapshot!Spec,
   RefinesSnapshot

-----------------------------------------------------------------------------
(* The versions of the inputs.                                             *)

\* The inputs that stay in force until a newer version comes.
Lasting == Inputs \ {"command"}

\* Those that the generation has consumed before a step of it.
Consumed(step) ==
  CASE step \in {"none", "observe", "gait"} -> {}
    [] step = "swing" -> {"gait"}
    [] step = "contacts" -> {"gait", "swing"}
    [] step = "terrain" -> {"gait", "swing", "contacts"}
    [] OTHER -> Lasting

\* A version that is pending is newer than the active one, and none is newer than
\* the last one that was set.
OrderInv ==
  /\ \A c \in Inputs :
       /\ active[c] <= sent[c] /\ buffer[c] <= sent[c]
       /\ buffer[c] # 0 => active[c] < buffer[c]
  /\ solver = "constructed" =>
       \A c \in Inputs : sent[c] = 0 /\ active[c] = 0 /\ buffer[c] = 0

\* Both planners refer to the active terrain; there is one once it is consumed.
TerrainInv ==
  /\ \A p \in Planners : terrainOf[p] = active["terrain"]
  /\ solver # "constructed" => active["terrain"] # 0 \/ buffer["terrain"] # 0
  /\ "terrain" \in Consumed(task) => active["terrain"] # 0

\* The generation uses the active versions of what it has consumed.
WorkInv == \A c \in Consumed(task) : work.uses[c] = active[c]

\* The solver reads plans of active versions or of older ones; a plan that is
\* buffered is no older than the one it replaces.
PlansInv ==
  \A o \in Outputs, c \in Lasting :
    /\ outActive[o].uses[c] <= active[c]
    /\ outBuffer[o] # NoPlan =>
         outActive[o].uses[c] <= outBuffer[o].uses[c] /\ outBuffer[o].uses[c] <= active[c]

\* The targets of a generation that has ended well are on their way to the solver.
LatestInv == task = "done" => Swapped("targets") = work

\* The copy of the terrain, against the targets.
TerrainFits ==
  /\ currentTerrain >= outActive["targets"].uses["terrain"]
  /\ outcome = "done" => currentTerrain = outActive["targets"].uses["terrain"]

CopyInv ==
  /\ solver = "initialize" => currentTerrain = 1 /\ sent["terrain"] = 1
  /\ solver \in Outputs \cup {"cloneTerrain"} => outcome = task
  /\ solver \in {"idle", "generate", "spawn", "solve"} => TerrainFits

VersionInv == OrderInv /\ TerrainInv /\ WorkInv /\ PlansInv /\ LatestInv /\ CopyInv
-----------------------------------------------------------------------------
\* The constructor establishes the invariant.
LEMMA VersionInit == Init => VersionInv
BY DEF Init, VersionInv, OrderInv, TerrainInv, WorkInv, PlansInv, LatestInv, CopyInv,
   Consumed, NoUses, NoPlan, Lasting, Outputs, Inputs, Planners

\* The plans have the uses of their type.
LEMMA UsesOfPlans ==
  ASSUME TypeOK
  PROVE  /\ \A o \in Outputs, c \in Inputs :
              outActive[o].uses[c] \in Nat /\ outBuffer[o].uses[c] \in Nat
         /\ \A c \in Inputs : work.uses[c] \in Nat
<1>1. \A p \in Plan \cup {NoPlan} : \A c \in Inputs : p.uses[c] \in Nat
  BY DEF Plan, NoPlan, NoUses
<1>2. work \in Plan \cup {NoPlan}
  BY DEF TypeOK
<1> QED
  BY <1>1, <1>2 DEF TypeOK

\* A setter makes a version pending that is newer than all before.
LEMMA VersionSet ==
  ASSUME TypeOK, VersionInv, NEW c \in Inputs, Set(c)
  PROVE  VersionInv'
<1>1. /\ sent' = [sent EXCEPT ![c] = sent[c] + 1] /\ buffer' = [buffer EXCEPT ![c] = sent[c] + 1]
      /\ sent \in [Inputs -> Nat] /\ buffer \in [Inputs -> Nat] /\ active \in [Inputs -> Nat]
      /\ solver \notin {"constructed", "initialize"}
      /\ UNCHANGED <<active, terrainOf, task, work, outBuffer, outActive, currentTerrain, solver, outcome>>
  BY DEF Set, TypeOK, taskVars, outVars
<1>2. OrderInv'
  BY <1>1 DEF VersionInv, OrderInv
<1>3. TerrainInv' /\ WorkInv'
  BY <1>1 DEF VersionInv, TerrainInv, WorkInv, Consumed
<1>4. PlansInv' /\ LatestInv' /\ CopyInv'
  BY <1>1 DEF VersionInv, PlansInv, LatestInv, CopyInv, Swapped, TerrainFits, Lasting
<1> QED
  BY <1>2, <1>3, <1>4 DEF VersionInv

\* While the generation runs, the solver thread takes nothing over.
LEMMA SolverAway ==
  ASSUME SnapshotInv, task \notin Finished
  PROVE  solver \notin Outputs \cup {"cloneTerrain", "spawn"}
BY DEF SnapshotInv, ControlInv, Swapping

\* The steps of the generation that only go on, or that end it without a plan.
LEMMA VersionGoesOn ==
  ASSUME TypeOK, SnapshotInv, VersionInv, Observe \/ PlanMotion
  PROVE  VersionInv'
<1>1. /\ task \in {"observe", "plan"} /\ task' \in {"gait", "targets", "failed"}
      /\ task = "observe" => task' = "gait"
      /\ task = "plan" => task' \in {"targets", "failed"}
      /\ UNCHANGED <<sent, buffer, active, terrainOf, work, outBuffer, outActive, currentTerrain,
                     solver, outcome>>
  BY DEF Observe, PlanMotion, TaskAfter, inputVars, outVars
<1>2. solver \notin Outputs \cup {"cloneTerrain", "spawn"}
  BY <1>1, SolverAway DEF Finished
<1>3. Consumed(task') = Consumed(task)
  BY <1>1 DEF Consumed
<1>4. OrderInv' /\ PlansInv'
  BY <1>1 DEF VersionInv, OrderInv, PlansInv
<1>5. TerrainInv' /\ WorkInv'
  BY <1>1, <1>3 DEF VersionInv, TerrainInv, WorkInv
<1>6. LatestInv' /\ CopyInv'
  BY <1>1, <1>2 DEF VersionInv, LatestInv, CopyInv, TerrainFits
<1> QED
  BY <1>4, <1>5, <1>6 DEF VersionInv

\* The generation consumes an input: what was pending is newer than what was active,
\* and no other input it has consumed changes.
LEMMA VersionConsume ==
  ASSUME TypeOK, SnapshotInv, VersionInv, NEW c \in Inputs, Consume(c)
  PROVE  VersionInv'
<1> USE DEF Inputs
<1>1. /\ task = c /\ task' = TaskAfter[c]
      /\ active' = [active EXCEPT ![c] = IF buffer[c] # 0 THEN buffer[c] ELSE active[c]]
      /\ buffer' = [buffer EXCEPT ![c] = 0]
      /\ terrainOf' = IF c = "terrain" /\ buffer[c] # 0 THEN Rebind ELSE terrainOf
      /\ sent \in [Inputs -> Nat] /\ buffer \in [Inputs -> Nat] /\ active \in [Inputs -> Nat]
      /\ UNCHANGED <<sent, outBuffer, outActive, currentTerrain, solver, outcome>>
  BY DEF Consume, Take, TypeOK, outVars
<1>2. work' = [run |-> work.run, uses |-> [work.uses EXCEPT ![c] = Used(c)]] /\ work.uses \in [Inputs -> Nat]
  <2>1. work \in Plan
    BY <1>1 DEF TypeOK
  <2> QED
    BY <2>1 DEF Consume, Plan
<1>3. solver \notin Outputs \cup {"cloneTerrain", "spawn", "constructed"}
  BY <1>1, SolverAway DEF Finished, SnapshotInv, ControlInv
<1>4. \A d \in Inputs : active[d] <= active'[d] /\ active'[d] \in Nat
  BY <1>1 DEF VersionInv, OrderInv
<1>5. /\ Consumed(task') \subseteq Consumed(task) \cup {c}
      /\ c \notin Consumed(task) \/ c = "command"
      /\ Consumed(task') \subseteq Lasting
      /\ task' # "done"
      /\ "terrain" \in Consumed(task') => c = "terrain" \/ "terrain" \in Consumed(task)
  BY <1>1 DEF TaskAfter, Consumed, Lasting
<1>6. OrderInv'
  BY <1>1, <1>3 DEF VersionInv, OrderInv
<1>7. TerrainInv'
  <2>1. CASE c = "terrain" /\ buffer[c] # 0
    BY <1>1, <2>1 DEF VersionInv, TerrainInv, Rebind, Planners
  <2>2. CASE ~(c = "terrain" /\ buffer[c] # 0)
    <3>1. terrainOf' = terrainOf /\ active'["terrain"] = active["terrain"]
      BY <1>1, <2>2
    <3>2. c # "terrain" => buffer'["terrain"] = buffer["terrain"]
      BY <1>1
    <3> QED
      BY <1>1, <1>3, <1>5, <2>2, <3>1, <3>2 DEF VersionInv, TerrainInv
  <2> QED
    BY <2>1, <2>2
<1>8. WorkInv'
  <2> SUFFICES ASSUME NEW d \in Consumed(task') PROVE work'.uses[d] = active'[d]
    BY DEF WorkInv
  <2>1. CASE d = c
    BY <1>1, <1>2, <1>5, <2>1 DEF Used, Lasting
  <2>2. CASE d # c
    BY <1>1, <1>2, <1>5, <2>2 DEF VersionInv, WorkInv, Lasting
  <2> QED
    BY <2>1, <2>2
<1>9. PlansInv'
  <2> SUFFICES ASSUME NEW o \in Outputs, NEW d \in Lasting
               PROVE  /\ outActive[o].uses[d] <= active'[d]
                      /\ outBuffer[o] # NoPlan =>
                           /\ outActive[o].uses[d] <= outBuffer[o].uses[d]
                           /\ outBuffer[o].uses[d] <= active'[d]
    BY <1>1 DEF PlansInv
  <2> QED
    BY <1>1, <1>4, UsesOfPlans DEF VersionInv, PlansInv, Lasting
<1>10. LatestInv' /\ CopyInv'
  BY <1>1, <1>3, <1>5 DEF VersionInv, LatestInv, CopyInv, TerrainFits
<1> QED
  BY <1>6, <1>7, <1>8, <1>9, <1>10 DEF VersionInv

\* A publication makes a plan of the active versions pending.
LEMMA VersionPublish ==
  ASSUME TypeOK, SnapshotInv, VersionInv, NEW o \in Outputs, Publish(o)
  PROVE  VersionInv'
<1> USE DEF Outputs
<1>1. /\ task = o /\ task' = TaskAfter[o]
      /\ outBuffer' = [outBuffer EXCEPT ![o] = work]
      /\ outBuffer \in [Outputs -> Plan \cup {NoPlan}]
      /\ UNCHANGED <<sent, buffer, active, terrainOf, work, outActive, currentTerrain, solver, outcome>>
  BY DEF Publish, TypeOK, inputVars
<1>2. solver \notin Outputs \cup {"cloneTerrain", "spawn"}
  BY <1>1, SolverAway DEF Finished
<1>3. Consumed(task) = Lasting /\ Consumed(task') = Lasting
  BY <1>1 DEF TaskAfter, Consumed
<1>4. OrderInv' /\ TerrainInv' /\ WorkInv' /\ CopyInv'
  BY <1>1, <1>2, <1>3 DEF VersionInv, OrderInv, TerrainInv, WorkInv, CopyInv, TerrainFits
<1>5. PlansInv'
  <2>1. \A d \in Lasting : work.uses[d] = active[d]
    BY <1>3 DEF VersionInv, WorkInv
  <2> SUFFICES ASSUME NEW p \in Outputs, NEW d \in Lasting
               PROVE  /\ outActive[p].uses[d] <= active[d]
                      /\ outBuffer'[p] # NoPlan =>
                           /\ outActive[p].uses[d] <= outBuffer'[p].uses[d]
                           /\ outBuffer'[p].uses[d] <= active[d]
    BY <1>1 DEF PlansInv
  <2>2. outActive[p].uses[d] <= active[d] /\ work.uses[d] \in Nat /\ work.uses[d] = active[d]
    BY <2>1, UsesOfPlans DEF VersionInv, PlansInv, Lasting
  <2>3. CASE p = o
    <3>1. outBuffer'[p] = work
      BY <1>1, <2>3
    <3> QED
      BY <2>2, <3>1
  <2>4. CASE p # o
    <3>1. outBuffer'[p] = outBuffer[p]
      BY <1>1, <2>4
    <3> QED
      BY <2>2, <3>1 DEF VersionInv, PlansInv
  <2> QED
    BY <2>3, <2>4
<1>6. LatestInv'
  <2>1. task' = "done" => o = "modes"
    BY <1>1 DEF TaskAfter
  <2>2. o = "modes" => outBuffer["targets"] = work /\ work # NoPlan
    BY <1>1 DEF SnapshotInv, BufferInv, PublishedBefore, TypeOK, Plan, NoPlan
  <2> QED
    BY <1>1, <2>1, <2>2 DEF LatestInv, Swapped
<1> QED
  BY <1>4, <1>5, <1>6 DEF VersionInv

\* initialize sets the first versions, and copies the terrain among them.
LEMMA VersionInitialize ==
  ASSUME TypeOK, VersionInv, Initialize
  PROVE  VersionInv'
<1> USE DEF Inputs
<1>1. /\ solver = "constructed" /\ solver' = "initialize" /\ task' = "observe"
      /\ sent' = [c \in Inputs |-> IF c = "command" THEN 0 ELSE 1] /\ buffer' = sent'
      /\ currentTerrain' = 1
      /\ UNCHANGED <<active, terrainOf, outBuffer, outActive, outcome>>
  BY DEF Initialize, StartTask
<1>2. OrderInv' /\ TerrainInv'
  BY <1>1 DEF VersionInv, OrderInv, TerrainInv, Consumed
<1>3. WorkInv' /\ PlansInv' /\ LatestInv' /\ CopyInv'
  BY <1>1 DEF VersionInv, WorkInv, PlansInv, LatestInv, CopyInv, Consumed, Outputs
<1> QED
  BY <1>2, <1>3 DEF VersionInv

\* The end of initialize hands the first plan over. No setter has come between.
LEMMA VersionFinishInitialize ==
  ASSUME TypeOK, SnapshotInv, VersionInv, FinishInitialize
  PROVE  VersionInv'
<1> USE DEF Outputs
<1>1. /\ solver = "initialize" /\ task \in Finished /\ solver' \in {"idle", "halted"}
      /\ outcome' = task
      /\ UNCHANGED <<sent, buffer, active, terrainOf, task, work, currentTerrain>>
  BY DEF FinishInitialize, GenerationOver, inputVars, taskVars
<1>2. OrderInv' /\ TerrainInv' /\ WorkInv'
  BY <1>1 DEF VersionInv, OrderInv, TerrainInv, WorkInv
<1>3. CASE solver' = "halted"
  <2>1. UNCHANGED <<outActive, outBuffer>>
    BY <1>3 DEF FinishInitialize
  <2>2. PlansInv' /\ LatestInv' /\ CopyInv'
    BY <1>1, <1>3, <2>1 DEF VersionInv, PlansInv, LatestInv, CopyInv, Swapped
  <2> QED
    BY <1>2, <2>2 DEF VersionInv
<1>4. CASE solver' = "idle"
  <2>1. outActive' = [o \in Outputs |-> Swapped(o)] /\ outBuffer' = [o \in Outputs |-> NoPlan]
    BY <1>4 DEF FinishInitialize
  <2>2. PlansInv' /\ LatestInv'
    BY <1>1, <2>1 DEF VersionInv, PlansInv, LatestInv, Swapped
  <2>3. TerrainFits'
    <3>1. /\ currentTerrain = 1 /\ sent["terrain"] = 1 /\ active["terrain"] <= sent["terrain"]
          /\ active["terrain"] \in Nat /\ active["terrain"] # 0
      BY <1>1 DEF VersionInv, CopyInv, OrderInv, TerrainInv, TypeOK, Consumed, Finished, Inputs, Lasting
    <3>2. outActive'["targets"].uses["terrain"] <= active["terrain"]
      BY <1>1, <2>2 DEF PlansInv, Lasting, Inputs
    <3>3. task = "done" => outActive'["targets"].uses["terrain"] = active["terrain"]
      <4>1. task = "done" => outActive'["targets"] = work
        BY <2>1 DEF VersionInv, LatestInv
      <4>2. work.uses["terrain"] = active["terrain"]
        BY <1>1 DEF VersionInv, WorkInv, Consumed, Finished, Lasting, Inputs
      <4> QED
        BY <4>1, <4>2
    <3>4. outActive'["targets"].uses["terrain"] \in Nat
      <4>1. outActive'["targets"] \in {outActive["targets"], outBuffer["targets"]}
        BY <2>1 DEF Swapped
      <4> QED
        BY <4>1, UsesOfPlans DEF Inputs
    <3> QED
      BY <1>1, <3>1, <3>2, <3>3, <3>4 DEF TerrainFits
  <2>4. CopyInv'
    BY <1>4, <2>3 DEF CopyInv
  <2> QED
    BY <1>2, <2>2, <2>4 DEF VersionInv
<1> QED
  BY <1>1, <1>3, <1>4

\* The steps that change only the counter of the solver thread.
LEMMA VersionWaits ==
  ASSUME TypeOK, SnapshotInv, VersionInv,
         KeepReferences \/ SolverReturns \/ BeginSwap \/ EndGenerate \/ Destroy
  PROVE  VersionInv'
<1>1. UNCHANGED <<sent, buffer, active, terrainOf, task, work, outBuffer, outActive, currentTerrain>>
  BY DEF KeepReferences, SolverReturns, BeginSwap, EndGenerate, Destroy, inputVars, taskVars, outVars
<1>2. solver # "constructed" /\ solver' # "constructed" /\ solver' # "initialize"
  BY DEF KeepReferences, SolverReturns, BeginSwap, EndGenerate, Destroy
<1>3. OrderInv' /\ TerrainInv' /\ WorkInv' /\ PlansInv' /\ LatestInv'
  BY <1>1, <1>2 DEF VersionInv, OrderInv, TerrainInv, WorkInv, PlansInv, LatestInv, Swapped
<1>4. CopyInv'
  <2>1. CASE KeepReferences \/ SolverReturns
    BY <1>1, <2>1 DEF KeepReferences, SolverReturns, VersionInv, CopyInv, TerrainFits, Outputs
  <2>2. CASE BeginSwap \/ EndGenerate \/ Destroy
    BY <1>1, <2>2 DEF BeginSwap, EndGenerate, Destroy, GenerationOver, CopyInv, Outputs, Finished
  <2> QED
    BY <2>1, <2>2
<1> QED
  BY <1>3, <1>4 DEF VersionInv

\* A generation starts with nothing consumed.
LEMMA VersionStart ==
  ASSUME TypeOK, SnapshotInv, VersionInv, BeginGenerate \/ Spawn
  PROVE  VersionInv'
<1>1. /\ task' = "observe"
      /\ (solver = "idle" /\ solver' = "generate") \/ (solver = "spawn" /\ solver' = "solve")
      /\ UNCHANGED <<sent, buffer, active, terrainOf, outBuffer, outActive, currentTerrain, outcome>>
  BY DEF BeginGenerate, Spawn, StartTask, inputVars, outVars
<1>2. OrderInv' /\ TerrainInv' /\ WorkInv'
  BY <1>1 DEF VersionInv, OrderInv, TerrainInv, WorkInv, Consumed
<1>3. PlansInv' /\ LatestInv' /\ CopyInv'
  BY <1>1 DEF VersionInv, PlansInv, LatestInv, CopyInv, TerrainFits, Outputs
<1> QED
  BY <1>2, <1>3 DEF VersionInv

\* A swap replaces a plan by one that is no older.
LEMMA VersionSwap ==
  ASSUME TypeOK, SnapshotInv, VersionInv, NEW o \in Outputs, Swap(o)
  PROVE  VersionInv'
<1> USE DEF Outputs
<1>1. /\ solver = o /\ solver' = SwapAfter[o]
      /\ outActive' = [outActive EXCEPT ![o] = Swapped(o)]
      /\ outBuffer' = [outBuffer EXCEPT ![o] = NoPlan]
      /\ outActive \in [Outputs -> Plan \cup {NoPlan}] /\ outBuffer \in [Outputs -> Plan \cup {NoPlan}]
      /\ UNCHANGED <<sent, buffer, active, terrainOf, task, work, currentTerrain, outcome>>
  BY DEF Swap, TypeOK, inputVars, taskVars
<1>2. solver' \in Outputs \cup {"cloneTerrain"}
  BY <1>1 DEF SwapAfter
<1>3. OrderInv' /\ TerrainInv' /\ WorkInv'
  BY <1>1, <1>2 DEF VersionInv, OrderInv, TerrainInv, WorkInv
<1>4. PlansInv' /\ LatestInv'
  BY <1>1 DEF VersionInv, PlansInv, LatestInv, Swapped
<1>5. CopyInv'
  BY <1>1, <1>2 DEF VersionInv, CopyInv
<1> QED
  BY <1>3, <1>4, <1>5 DEF VersionInv

\* The copy is of the active terrain, the one the last plan used if it ended well.
LEMMA VersionClone ==
  ASSUME TypeOK, SnapshotInv, VersionInv, CloneTerrain
  PROVE  VersionInv'
<1> USE DEF Outputs
<1>1. /\ solver = "cloneTerrain" /\ solver' \in {"spawn", "solve"}
      /\ currentTerrain' = active["terrain"]
      /\ UNCHANGED <<sent, buffer, active, terrainOf, task, work, outBuffer, outActive, outcome>>
  BY DEF CloneTerrain, ClonedTerrain, inputVars, taskVars
<1>2. OrderInv' /\ TerrainInv' /\ WorkInv' /\ PlansInv' /\ LatestInv'
  BY <1>1 DEF VersionInv, OrderInv, TerrainInv, WorkInv, PlansInv, LatestInv, Swapped
<1>3. /\ task \in Finished /\ outcome = task /\ outBuffer["targets"] = NoPlan
  BY <1>1 DEF VersionInv, CopyInv, SnapshotInv, ControlInv, BufferInv, EmptyBuffers, Swapping
<1>4. outcome = "done" => active["terrain"] = outActive["targets"].uses["terrain"]
  <2>1. outcome = "done" => outActive["targets"] = work
    BY <1>3 DEF VersionInv, LatestInv, Swapped
  <2>2. work.uses["terrain"] = active["terrain"]
    BY <1>3 DEF VersionInv, WorkInv, Consumed, Finished, Lasting, Inputs
  <2> QED
    BY <2>1, <2>2
<1>5. /\ outActive["targets"].uses["terrain"] <= active["terrain"]
      /\ outActive["targets"].uses["terrain"] \in Nat /\ active["terrain"] \in Nat
  BY UsesOfPlans DEF VersionInv, PlansInv, Lasting, Inputs, TypeOK
<1>6. CopyInv'
  BY <1>1, <1>4, <1>5 DEF CopyInv, TerrainFits
<1> QED
  BY <1>2, <1>6 DEF VersionInv

\* Every step keeps the invariant.
LEMMA VersionNext == TypeOK /\ SnapshotInv /\ VersionInv /\ [Next]_vars => VersionInv'
<1> SUFFICES ASSUME TypeOK, SnapshotInv, VersionInv, [Next]_vars PROVE VersionInv'
  OBVIOUS
<1>1. CASE \E c \in Inputs : Set(c)
  BY <1>1, VersionSet
<1>2. CASE Generate
  BY <1>2, VersionGoesOn, VersionConsume, VersionPublish DEF Generate
<1>3. CASE SolverLoop
  BY <1>3, VersionInitialize, VersionFinishInitialize, VersionWaits, VersionStart, VersionSwap,
     VersionClone DEF SolverLoop
<1>4. CASE Destroy
  BY <1>4, VersionWaits
<1>5. CASE UNCHANGED vars
  BY <1>5 DEF vars, inputVars, taskVars, outVars, VersionInv, OrderInv, TerrainInv, WorkInv,
     PlansInv, LatestInv, CopyInv, TerrainFits, Swapped
<1> QED
  BY <1>1, <1>2, <1>3, <1>4, <1>5 DEF Next

\* The versions are in order, whatever the setters, the task and the solver thread do.
LEMMA VersionsCorrect == Spec => [](TypeOK /\ SnapshotInv /\ VersionInv)
BY TypeInit, TypeNext, SnapshotInit, SnapshotNext, VersionInit, VersionNext, PTL DEF Spec

-----------------------------------------------------------------------------
\* The terrain the solver reads is the one its references were planned on.
THEOREM TerrainIsOfSnapshot == Spec => []TerrainOfSnapshot
<1>1. VersionInv => TerrainOfSnapshot
  BY DEF VersionInv, CopyInv, TerrainFits, TerrainOfSnapshot
<1> QED
  BY <1>1, VersionsCorrect, PTL

\* The planners never follow a pointer to a terrain that has been released.
THEOREM PlannersSeeTerrain == Spec => []PlannerTerrainAlive
<1>1. VersionInv => PlannerTerrainAlive
  BY DEF VersionInv, TerrainInv, PlannerTerrainAlive, Consumed, Lasting, Inputs
<1> QED
  BY <1>1, VersionsCorrect, PTL

\* A command is used by one generation.
THEOREM CommandMovesOnce == Spec => CommandUsedOnce
<1>1. TypeOK /\ VersionInv /\ [Next]_vars =>
        [(task = "command" /\ task' = "plan") =>
           \/ work'.uses["command"] = 0
           \/ work'.uses["command"] > active["command"]]_vars
  <2> SUFFICES ASSUME TypeOK, VersionInv, Next, task = "command", task' = "plan"
               PROVE  \/ work'.uses["command"] = 0
                      \/ work'.uses["command"] > active["command"]
    OBVIOUS
  <2>1. Consume("command")
    BY DEF Next, Generate, SolverLoop, Set, Observe, Consume, PlanMotion, Publish, Initialize,
       FinishInitialize, KeepReferences, BeginSwap, BeginGenerate, EndGenerate, Swap, CloneTerrain,
       Spawn, SolverReturns, Destroy, StartTask, taskVars, Inputs, Outputs
  <2>2. work'.uses["command"] = Used("command")
    <3>1. work \in Plan
      BY DEF TypeOK
    <3> QED
      BY <2>1, <3>1 DEF Consume, Plan, Inputs
  <2>3. /\ active'["command"] = IF buffer["command"] # 0 THEN buffer["command"] ELSE active["command"]
        /\ buffer["command"] # 0 => active["command"] < buffer["command"]
    BY <2>1 DEF Consume, Take, TypeOK, VersionInv, OrderInv, Inputs
  <2> QED
    BY <2>2, <2>3 DEF Used, TypeOK, Inputs
<1> QED
  BY <1>1, VersionsCorrect, PTL DEF CommandUsedOnce, Spec

\* What the solver reads is never of an older version than what it read before.
THEOREM SnapshotMonotonic == Spec => SnapshotNeverGoesBack
<1>1. TypeOK /\ VersionInv /\ [Next]_vars =>
        [\A o \in Outputs, c \in Inputs \ {"command"} :
            outActive'[o].uses[c] >= outActive[o].uses[c]]_vars
  <2> SUFFICES ASSUME TypeOK, VersionInv, Next, NEW o \in Outputs, NEW c \in Lasting
               PROVE  outActive'[o].uses[c] >= outActive[o].uses[c]
    BY DEF Lasting
  <2>1. outActive'[o] \in {outActive[o], Swapped(o)}
    BY DEF Next, Generate, SolverLoop, Set, Observe, Consume, PlanMotion, Publish, Initialize,
       FinishInitialize, KeepReferences, BeginSwap, BeginGenerate, EndGenerate, Swap, CloneTerrain,
       Spawn, SolverReturns, Destroy, outVars, TypeOK
  <2>2. /\ outBuffer[o] # NoPlan => outActive[o].uses[c] <= outBuffer[o].uses[c]
        /\ outActive[o].uses[c] \in Nat /\ outBuffer[o].uses[c] \in Nat
    BY UsesOfPlans DEF VersionInv, PlansInv, Lasting
  <2> QED
    BY <2>1, <2>2 DEF Swapped
<1> QED
  BY <1>1, VersionsCorrect, PTL DEF SnapshotNeverGoesBack, Spec
=============================================================================
