-------------------------------- MODULE Ring --------------------------------
(***************************************************************************)
(* Consistent hashing: every node claims some positions of a circle, and a *)
(* partition belongs to the nodes met first on a walk from its beginning.  *)
(* The hash that gives a node its positions is a constant.                 *)
(***************************************************************************)
EXTENDS Integers, Sequences, FiniteSets, SequencesExt

CONSTANT VnodePos    \* per node, the positions it claims

\* The virtual nodes of a membership, by position.
New(nodes) ==
  LET vnodes == UNION {[pos : VnodePos[n], node : {n}] : n \in nodes}
  IN  [i \in 1..Cardinality(vnodes) |->
         CHOOSE v \in vnodes : Cardinality({u \in vnodes : u.pos < v.pos}) = i - 1]

\* BinarySearchFunc: the first virtual node at the target or past it, counted from 0.
Search(ring, target) == Cardinality({i \in DOMAIN ring : ring[i].pos < target})

\* Owners: one lap round the ring from the partition's beginning, until there are n.
Owners(ring, target, n) ==
  LET Meet(owners, i) ==
        LET node == ring[((Search(ring, target) + i) % Len(ring)) + 1].node
        IN  IF Len(owners) = n \/ node \in ToSet(owners) THEN owners ELSE Append(owners, node)
  IN  FoldLeft(Meet, <<>>, [i \in 1..Len(ring) |-> i - 1])

\* What placement rests on, for every partition of a circle of the size given: owners
\* are as many as were asked for and there are, and distinct; and a node that leaves
\* takes only its own place with it, the others keeping their order.
Consistent(size, all) ==
  \A target \in 0..(size - 1), nodes \in SUBSET all \ {{}}, n \in 1..(Cardinality(all) + 1) :
    LET owners == Owners(New(nodes), target, n)
    IN  /\ Len(owners) = (IF n <= Cardinality(nodes) THEN n ELSE Cardinality(nodes))
        /\ IsInjective(owners)
        /\ \A gone \in nodes :
             Owners(New(nodes \ {gone}), target, Cardinality(all)) =
               SelectSeq(Owners(New(nodes), target, Cardinality(all)), LAMBDA o : o # gone)
=============================================================================
