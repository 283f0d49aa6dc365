------------------------- MODULE ReferenceSnapshot -------------------------
(***************************************************************************)
(* What the reference manager promises the MPC solver, whatever threads    *)
(* compute the references: between two solver runs the solver may adopt    *)
(* one finished plan, whole and at most once, and while it runs nothing it *)
(* reads changes.                                                          *)
(***************************************************************************)
CONSTANTS
  Outputs,   \* the reference objects a solver run reads
  Plans,     \* results of the reference generation
  NoPlan     \* the value of an object no generation has filled

VARIABLES
  reading,   \* a solver run is in progress
  offer,     \* the finished plan not adopted yet, or NoPlan
  view       \* what each reference object holds for the solver

snapshotVars == <<reading, offer, view>>

Init ==
  /\ reading = FALSE
  /\ offer = NoPlan
  /\ view = [o \in Outputs |-> NoPlan]

\* The generation finishes a plan; the previous one has been adopted by then.
Offer ==
  /\ offer = NoPlan
  /\ offer' \in Plans
  /\ UNCHANGED <<reading, view>>

\* The solver side takes the whole plan, outside of its runs.
Adopt ==
  /\ ~reading
  /\ offer # NoPlan
  /\ view' = [o \in Outputs |-> offer]
  /\ offer' = NoPlan
  /\ UNCHANGED reading

BeginRun ==
  /\ ~reading
  /\ reading' = TRUE
  /\ UNCHANGED <<offer, view>>

EndRun ==
  /\ reading
  /\ reading' = FALSE
  /\ UNCHANGED <<offer, view>>

Next ==
  \/ Offer
  \/ Adopt
  \/ BeginRun
  \/ EndRun

Spec == Init /\ [][Next]_snapshotVars
=============================================================================
