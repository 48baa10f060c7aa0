----------------------- MODULE MCFocusExecutionLedger -----------------------
(* Three callers, two calls of different trajectories, two contents.         *)
EXTENDS FocusExecutionLedger

CONSTANTS k1, k2, t1, t2

MCKeys == {k1, k2}
MCTrajectories == {t1, t2}
MCTrajOf == [k \in MCKeys |-> IF k = k1 THEN t1 ELSE t2]
=============================================================================
