---------------------------- MODULE MCChunkStore ----------------------------
EXTENDS ChunkStore, TLC

Symmetry == Permutations(Writer)
=============================================================================
