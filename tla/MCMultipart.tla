---------------------------- MODULE MCMultipart ----------------------------
(* Multipart with uploads of up to two parts.                               *)
EXTENDS Multipart, TLC

Symmetry == Permutations(Blob) \cup Permutations(Completer) \cup Permutations(PartNumber)
=============================================================================
