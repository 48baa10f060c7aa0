------------------------- MODULE MCObservationStore -------------------------
(* Two trajectories of one batch and one of another, sharing two tensors.    *)
EXTENDS ObservationStore

CONSTANTS t1, t2, t3, b1, b2

MCTrajectories == {t1, t2, t3}
MCBatches == {b1, b2}
MCBatchOf == [t \in MCTrajectories |-> IF t = t3 THEN b2 ELSE b1]
=============================================================================
