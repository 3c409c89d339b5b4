------------------------------- MODULE MCRead -------------------------------
EXTENDS Read

CONSTANTS n1, n2, n3

\* Two parts, the first of two chunks; the numbers of the parts leave a gap.
InParts == [size |-> 5, sizes |-> <<2, 1, 2>>, nodes |-> <<n1, n2, n3>>, data |-> 0,
            parts |-> <<[number |-> 1, size |-> 3], [number |-> 3, size |-> 2]>>,
            partOf |-> <<1, 1, 1, 3, 3>>]

\* Two data shards and one of parity.
InShards == [size |-> 3, sizes |-> <<2, 1>>, nodes |-> <<n1, n2, n3>>, data |-> 2,
             parts |-> <<>>, partOf |-> <<1, 1, 1>>]

Empty == [size |-> 0, sizes |-> <<>>, nodes |-> <<n1, n2, n3>>, data |-> 0,
          parts |-> <<>>, partOf |-> <<>>]

None == [form |-> "none", first |-> 0, last |-> 0]
Ranges ==
       {None}
  \cup {[form |-> "suffix", first |-> 0, last |-> n] : n \in {0, 2, 9}}
  \cup {[form |-> "from", first |-> n, last |-> 0] : n \in {1, 4, 5}}
  \cup {[form |-> "between", first |-> n, last |-> m] : n \in {0, 2}, m \in {0, 1, 3, 9}}

MCReads ==
       {[obj |-> o, use |-> "get", part |-> 0, range |-> r] :
          o \in {InParts, InShards, Empty}, r \in Ranges}
  \cup {[obj |-> InParts, use |-> "get", part |-> n, range |-> r] : n \in 1..3, r \in Ranges}
  \cup {[obj |-> o, use |-> "get", part |-> n, range |-> None] :
          o \in {InShards, Empty}, n \in 1..2}
  \cup {[obj |-> InShards, use |-> "copy", part |-> 0, range |-> r] : r \in Ranges}
=============================================================================
