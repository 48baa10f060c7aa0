-------------------------- MODULE ResumableTraining --------------------------
(***************************************************************************)
(* What a training run promises over its launches, without calls, files,   *)
(* flags or replicas: a launch continues from the weights that were saved   *)
(* last, trains one batch after another, and saves what it has.  Updates    *)
(* that were not saved are lost with their launch, those that were saved    *)
(* are part of everything that is trained or saved later.                   *)
(***************************************************************************)
EXTENDS Naturals, Sequences

CONSTANTS
    Updates,     \* optimizer steps, each of one batch
    TotalSteps   \* the batches of a complete run

VARIABLES
    running,     \* a launch is training
    live,        \* the updates its weights are made of
    saved,       \* those of the weights a launch continues from
    trained      \* the run is over

vars == <<running, live, saved, trained>>

Init ==
    /\ running = FALSE /\ trained = FALSE
    /\ live = <<>> /\ saved = <<>>

Halt == running' = FALSE /\ live' = <<>>

Start ==
    /\ ~running /\ ~trained
    /\ running' = TRUE
    /\ live' = saved
    /\ UNCHANGED <<saved, trained>>

(* The batches are trained in order and none after the last one.            *)
Learn(u) ==
    /\ running
    /\ u.batch = Len(live) + 1 /\ u.batch <= TotalSteps
    /\ live' = Append(live, u)
    /\ UNCHANGED <<running, saved, trained>>

(* The launch goes on, or ends with it.                                     *)
Save ==
    /\ running
    /\ saved' = live
    /\ UNCHANGED <<running, live>> \/ Halt
    /\ UNCHANGED trained

(* A launch fails, is killed, or has completed the run.                     *)
Stop ==
    /\ running
    /\ Halt
    /\ trained' \in {FALSE, Len(live) = TotalSteps}
    /\ UNCHANGED saved

Next ==
    \/ Start \/ Save \/ Stop
    \/ \E u \in Updates : Learn(u)

Spec == Init /\ [][Next]_vars

=============================================================================
