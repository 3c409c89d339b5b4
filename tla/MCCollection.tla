---------------------------- MODULE MCCollection ----------------------------
(* Small instances of Collection for TLC. *)
EXTENDS Refinement, TLC

CONSTANTS n1, n2, w1, w2

\* Every node owns every key, as in any cluster no wider than Replicas; or n1
\* alone does, and n2 only coordinates.
AllOwn(k, v) == v
OneOwns(k, v) == v \cap {n1}

\* The coordinator n2 may lapse.
OneMayLapse == {{n1}, {n1, n2}}

\* One slice for everything, or one for each write.
OneSlice(w) == 0
OwnSlice(w) == IF w = w1 THEN 0 ELSE 1

Symmetry == Permutations({w1, w2})
=============================================================================
