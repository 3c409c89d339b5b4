---------------------------- MODULE MCRebalance ----------------------------
EXTENDS Rebalance, TLC

CONSTANTS a, b, c

\* Two virtual nodes each, on a circle of eight.
Ring == INSTANCE Ring WITH VnodePos <- a :> {5, 6} @@ b :> {1, 7} @@ c :> {0, 3}

\* From 4 the walk meets a, b and c.
MCWalk == [v \in SUBSET Node |-> SelectSeq(<<a, b, c>>, LAMBDA n : n \in v)]

ASSUME RingIsConsistent ==
  /\ Ring!Consistent(8, Node)
  /\ \A v \in SUBSET Node : MCWalk[v] = Ring!Owners(Ring!New(v), 4, 3)

JoinAndLeave == {{b, c}, {a, b, c}}

\* A coded object is written once: its shards' states are too many for two versions.
MCStarts ==      {[coded |-> FALSE, versions |-> Version]}
            \cup {[coded |-> TRUE, versions |-> {x}] : x \in Version}

Symmetry == Permutations(Version)
=============================================================================
