---------------------- MODULE MCImmutablePublication ----------------------
EXTENDS ImmutablePublication, TLC

CONSTANTS a, b, c
MCWriters == {a, b, c}
WriterSymmetry == Permutations(MCWriters)
=============================================================================
