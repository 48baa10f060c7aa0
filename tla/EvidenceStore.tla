---------------------------- MODULE EvidenceStore ----------------------------
(***************************************************************************)
(* What a store of rollout evidence promises the batch lifecycle: the       *)
(* execution ledger, the observation store and the behaviour store each     *)
(* keep evidence of some units (trajectories, or the batches they belong    *)
(* to), are told once that units are released, and from then on keep        *)
(* nothing of them and take nothing for them.  ObservationStore and         *)
(* FocusExecutionLedger implement this; PolicyBatchLifecycle uses three.    *)
(***************************************************************************)
CONSTANT Units      \* what evidence is kept for, and released

VARIABLES
    kept,       \* units the store keeps evidence of
    busy,       \* units evidence is being computed for
    closed      \* units the store was told are released

vars == <<kept, busy, closed>>

Init ==
    /\ kept = {}
    /\ busy = {}
    /\ closed = {}

(* Evidence of a unit arrives.                                              *)
Keep(u) ==
    /\ u \notin closed
    /\ kept' = kept \cup {u}
    /\ UNCHANGED <<busy, closed>>

(* The computation of evidence begins, for the first time or once more.     *)
Start(u) ==
    /\ u \notin closed
    /\ busy' = busy \cup {u}
    /\ UNCHANGED <<kept, closed>>

(* One computation ends, with evidence or without; others may go on.        *)
End(u) ==
    /\ u \in busy
    /\ busy' \in {busy, busy \ {u}}
    /\ kept' \in {kept, kept \cup {u}}
    /\ UNCHANGED closed

(* Units are released together, none of which evidence is computed for.     *)
Release(us) ==
    /\ us \cap busy = {}
    /\ kept' = kept \ us
    /\ closed' = closed \cup us
    /\ UNCHANGED busy

Next ==
    \/ \E u \in Units : Keep(u)
    \/ \E u \in Units : Start(u)
    \/ \E u \in Units : End(u)
    \/ \E us \in SUBSET Units : Release(us)

Spec == Init /\ [][Next]_vars

=============================================================================
