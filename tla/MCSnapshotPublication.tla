----------------------- MODULE MCSnapshotPublication -----------------------
EXTENDS SnapshotPublication

CONSTANTS w0, w1, r1, r2
MCWeights == {w0, w1}
MCReaders == {r1, r2}
=============================================================================
