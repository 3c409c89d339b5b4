----------------------------- MODULE MCCopying -----------------------------
(* Copying with a few keys, blobs and copiers.                              *)
EXTENDS Copying, TLC

Symmetry == Permutations(Blob) \cup Permutations(Copier)
=============================================================================
