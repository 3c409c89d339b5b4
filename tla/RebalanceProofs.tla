-------------------------- MODULE RebalanceProofs ---------------------------
(***************************************************************************)
(* Proofs about Rebalance for every cluster, ring and number of versions,  *)
(* whether or not the nodes agree about the membership.  Leaves without    *)
(* arithmetic name Zenon, which is the faster on them.                     *)
(***************************************************************************)
EXTENDS Rebalance, SequenceTheorems, FiniteSetTheorems, TLAPS

\* The types that the argument needs.
RevTypes == /\ revision \in 0..MaxRevision
            /\ manifest \in Manifest \cup {NoManifest}
            /\ view \in [Node -> SUBSET Node]
            /\ move \in [Node -> Move \cup {NoMove}]

\* A revision says which manifest it is: none is ahead of the key's count, and a move
\* that finds the key at the revision it read finds the manifest it read.
RevUnique ==
  /\ manifest # NoManifest => manifest.rev <= revision
  /\ \A n \in Node : move[n] # NoMove =>
       /\ move[n].seen.rev <= revision
       /\ manifest # NoManifest /\ manifest.rev = move[n].seen.rev => manifest = move[n].seen

RevInv == RevTypes /\ RevUnique /\ NewestServed

\* The owners of a view are a sequence of nodes.
LEMMA OwnersAreNodes == ASSUME NEW v \in SUBSET Node PROVE Owners(v) \in Seq(Node)
<1> DEFINE s == Walk[v]
           k == Least(Redundancy, Len(s))
<1>1. s \in Seq(Node) /\ Len(s) \in Nat
  BY RingAssumption
<1>2. k \in Int /\ k <= Len(s)
  BY RingAssumption, <1>1 DEF Least, Redundancy
<1>3. \A i \in 1..k : s[i] \in Node
  BY <1>1, <1>2
<1>4. SubSeq(s, 1, k) \in Seq(Node)
  BY <1>2, <1>3, SubSeqProperties
<1>5. QED
  BY <1>4, Zenon DEF Owners

\* What a move has to copy is a set of positions.
LEMMA MissingArePositions ==
  ASSUME NEW nodes \in Seq(Node), NEW want \in Seq(Node) PROVE Missing(nodes, want) \in SUBSET Nat
BY DEF Missing

\* A step that touches neither the key nor a move keeps RevInv.
LEMMA RevStutter ==
  ASSUME RevInv, UNCHANGED <<manifest, revision, latest, move>>, view' \in [Node -> SUBSET Node]
  PROVE  RevInv'
BY Zenon DEF RevInv, RevTypes, RevUnique, NewestServed

\* A move that ends without a commit keeps it.
LEMMA RevEnd ==
  ASSUME RevInv, NEW n \in Node, move' = [move EXCEPT ![n] = NoMove],
         UNCHANGED <<manifest, revision, latest, view>>
  PROVE  RevInv'
<1>1. RevTypes'
  BY Zenon DEF RevInv, RevTypes
<1>2. \A k \in Node : move'[k] # NoMove => move'[k] = move[k]
  BY Zenon DEF RevInv, RevTypes
<1>3. RevUnique'
  BY <1>2, Zenon DEF RevInv, RevUnique
<1>4. QED
  BY <1>1, <1>3, Zenon DEF RevInv, NewestServed

\* A commit under a new revision keeps it, if what it commits is what the client last
\* put: no move has read that revision.
LEMMA RevCommit ==
  ASSUME RevInv, NEW m \in Manifest, m.rev = revision + 1, revision < MaxRevision,
         manifest' = m, revision' = revision + 1, latest' = m.version, UNCHANGED view,
         move' \in [Node -> Move \cup {NoMove}],
         \A k \in Node : move'[k] # NoMove => move'[k] = move[k]
  PROVE  RevInv'
<1>1. revision \in Nat /\ revision + 1 \in 0..MaxRevision
  BY RingAssumption DEF RevInv, RevTypes
<1>2. RevTypes'
  BY <1>1, Zenon DEF RevInv, RevTypes
<1>3. \A k \in Node : move'[k] # NoMove => move'[k].seen.rev \in Nat /\ move'[k].seen.rev <= revision
  BY DEF RevInv, RevTypes, RevUnique, Move, Manifest
<1>4. RevUnique'
  BY <1>1, <1>3 DEF RevUnique
<1>5. NewestServed'
  BY AbsenceAssumption, Zenon DEF NewestServed
<1>6. QED
  BY <1>2, <1>4, <1>5, Zenon DEF RevInv

\* Every step keeps RevInv.
LEMMA RevStep == ASSUME RevInv, [Next]_vars PROVE RevInv'
<1>1. ASSUME NEW g \in Node, NEW x \in Version, NEW on \in SUBSET (1..Redundancy), Put(g, x, on)
      PROVE RevInv'
  <2>1. Owners(view[g]) \in Seq(Node)
    BY OwnersAreNodes, Zenon DEF RevInv, RevTypes
  <2>2. revision \in Nat /\ revision + 1 \in 1..MaxRevision
    BY RingAssumption, <1>1 DEF Put, RevInv, RevTypes
  <2>3. manifest' \in Manifest /\ manifest'.rev = revision + 1 /\ manifest'.version = x
    BY <1>1, <2>1, <2>2, Zenon DEF Put, Manifest
  <2>4. revision' = revision + 1 /\ revision < MaxRevision /\ latest' = x /\ UNCHANGED <<view, move>>
    BY <1>1, Zenon DEF Put
  <2>5. move \in [Node -> Move \cup {NoMove}]
    BY Zenon DEF RevInv, RevTypes
  <2>6. QED
    BY <2>3, <2>4, <2>5, RevCommit, Zenon
<1>2. ASSUME Delete PROVE RevInv'
  BY <1>2, Zenon DEF Delete, RevInv, RevTypes, RevUnique, NewestServed
<1>3. ASSUME NEW n \in Node, NEW v \in Memberships, SetMembers(n, v)
      PROVE RevInv'
  <2>1. view' \in [Node -> SUBSET Node]
    BY RingAssumption, <1>3, Zenon DEF SetMembers, RevInv, RevTypes
  <2>2. UNCHANGED <<manifest, revision, latest, move>>
    BY <1>3, Zenon DEF SetMembers
  <2>3. QED
    BY <2>1, <2>2, RevStutter, Zenon
<1>4. ASSUME NEW n \in Node, BeginMove(n) PROVE RevInv'
  <2>1. manifest \in Manifest /\ Owners(view[n]) \in Seq(Node)
    BY <1>4, OwnersAreNodes, Zenon DEF BeginMove, RevInv, RevTypes
  <2> DEFINE new == [seen |-> manifest, want |-> Owners(view[n]), have |-> {},
                     left |-> Missing(manifest.nodes, Owners(view[n]))]
  <2>9. manifest.nodes \in Seq(Node)
    BY <2>1, Zenon DEF Manifest
  <2>2. new \in Move /\ new.seen = manifest
    BY <2>1, <2>9, MissingArePositions, Zenon DEF Move
  <2>3. move' = [move EXCEPT ![n] = new] /\ UNCHANGED <<manifest, revision, latest, view>>
    BY <1>4, Zenon DEF BeginMove
  <2> HIDE DEF new
  <2>4. RevTypes'
    BY <2>2, <2>3, Zenon DEF RevInv, RevTypes
  <2>5. \A k \in Node : move'[k] = move[k] \/ move'[k].seen = manifest
    BY <2>2, <2>3, Zenon DEF RevInv, RevTypes
  <2>6. manifest # NoManifest
    BY <1>4, Zenon DEF BeginMove
  <2>7. RevUnique'
    BY <2>3, <2>5, <2>6, Zenon DEF RevInv, RevUnique
  <2>8. QED
    BY <2>3, <2>4, <2>7, Zenon DEF RevInv, NewestServed
<1>5. ASSUME NEW n \in Node, GatherShards(n) \/ \E i \in 1..Redundancy : CopyChunk(n, i)
      PROVE RevInv'
  <2>1. move[n] \in Move /\ UNCHANGED <<manifest, revision, latest, view>>
    BY <1>5, Zenon DEF GatherShards, CopyChunk, RevInv, RevTypes
  <2>2. \/ move' = [move EXCEPT ![n].have = 1..Redundancy]
        \/ \E i \in 1..Redundancy : move' = [move EXCEPT ![n].left = @ \ {i}]
    BY <1>5, Zenon DEF GatherShards, CopyChunk
  <2>3. move'[n] \in Move /\ move'[n].seen = move[n].seen
    <3>1. CASE move' = [move EXCEPT ![n].have = 1..Redundancy]
      <4>1. 1..Redundancy \in SUBSET Nat
        BY DEF Redundancy
      <4>2. move'[n] = [move[n] EXCEPT !.have = 1..Redundancy]
        BY <3>1, Zenon DEF RevInv, RevTypes
      <4>3. QED
        BY <2>1, <4>1, <4>2, Zenon DEF Move
    <3>2. ASSUME NEW i \in 1..Redundancy, move' = [move EXCEPT ![n].left = @ \ {i}]
          PROVE move'[n] \in Move /\ move'[n].seen = move[n].seen
      <4>1. move'[n] = [move[n] EXCEPT !.left = @ \ {i}]
        BY <3>2, Zenon DEF RevInv, RevTypes
      <4>2. QED
        BY <2>1, <4>1, Zenon DEF Move
    <3>3. QED
      BY <2>2, <3>1, <3>2, Zenon
  <2>4. \A k \in Node \ {n} : move'[k] = move[k]
    BY <2>2, Zenon DEF RevInv, RevTypes
  <2>5. RevTypes'
    BY <2>1, <2>2, <2>3, Zenon DEF RevInv, RevTypes
  <2>6. move[n] # NoMove
    BY <1>5, Zenon DEF GatherShards, CopyChunk
  <2>7. RevUnique'
    BY <2>1, <2>3, <2>4, <2>6, Zenon DEF RevInv, RevUnique
  <2>8. QED
    BY <2>1, <2>5, <2>7, Zenon DEF RevInv, NewestServed
<1>6. ASSUME NEW n \in Node, CommitMove(n) PROVE RevInv'
  <2>1. move[n] \in Move /\ move' = [move EXCEPT ![n] = NoMove] /\ UNCHANGED <<latest, view>>
    BY <1>6, Zenon DEF CommitMove, RevInv, RevTypes
  <2>2. CASE manifest # NoManifest /\ manifest.rev = move[n].seen.rev
    <3>1. manifest = move[n].seen /\ latest = manifest.version
      BY <1>6, <2>2, Zenon DEF CommitMove, RevInv, RevUnique, NewestServed
    <3>2. revision \in Nat /\ revision + 1 \in 1..MaxRevision /\ revision < MaxRevision
      BY RingAssumption, <1>6 DEF CommitMove, RevInv, RevTypes
    <3>3. manifest' = [version |-> move[n].seen.version, nodes |-> move[n].want, rev |-> revision + 1]
          /\ revision' = revision + 1
      BY <1>6, <2>2, Zenon DEF CommitMove
    <3>4. manifest' \in Manifest /\ manifest'.rev = revision + 1 /\ manifest'.version = latest'
      BY <2>1, <3>1, <3>2, <3>3, Zenon DEF Move, Manifest
    <3>5. move' \in [Node -> Move \cup {NoMove}]
          /\ \A k \in Node : move'[k] # NoMove => move'[k] = move[k]
      BY <2>1, Zenon DEF RevInv, RevTypes
    <3>6. QED
      BY <2>1, <3>2, <3>3, <3>4, <3>5, RevCommit, Zenon
  <2>3. CASE ~(manifest # NoManifest /\ manifest.rev = move[n].seen.rev)
    BY <1>6, <2>1, <2>3, RevEnd, Zenon DEF CommitMove
  <2>4. QED
    BY <2>2, <2>3, Zenon
<1>7. ASSUME NEW n \in Node, FailMove(n) PROVE RevInv'
  BY <1>7, RevEnd, Zenon DEF FailMove
<1>8. ASSUME NEW n \in Node, Mark(n) \/ Remove(n) \/ \E aged \in SUBSET disk[n] : ReadPage(n, aged)
      PROVE RevInv'
  <2>1. UNCHANGED <<manifest, revision, latest, move, view>>
    BY <1>8, Zenon DEF Mark, Remove, ReadPage
  <2>2. QED
    BY <2>1, RevStutter, Zenon DEF RevInv, RevTypes
<1>9. CASE UNCHANGED vars
  BY <1>9, RevStutter, Zenon DEF vars, RevInv, RevTypes
<1>10. QED
  BY <1>1, <1>2, <1>3, <1>4, <1>5, <1>6, <1>7, <1>8, <1>9, Zenon DEF Next

\* Nothing is there to begin with.
LEMMA RevStart == ASSUME Init PROVE RevInv
<1>1. RevTypes
  BY AbsenceAssumption, RingAssumption DEF Init, RevTypes
<1>2. QED
  BY <1>1, Zenon DEF Init, RevInv, RevUnique, NewestServed

\* However many nodes move the object at once, on whatever views of the cluster, the
\* key serves what a client last put there: CommitIfUnchanged sees every overwrite.
THEOREM MoveKeepsNewest == Spec => []NewestServed
<1>1. RevInv /\ [Next]_vars => RevInv'
  BY RevStep, Zenon
<1>2. RevInv => NewestServed
  BY Zenon DEF RevInv
<1>3. QED
  BY RevStart, <1>1, <1>2, PTL DEF Spec

-----------------------------------------------------------------------------
(***************************************************************************)
(* Types.                                                                  *)
(***************************************************************************)

\* What is stored for a position of the owners is a copy there may be.
LEMMA CopyType ==
  ASSUME coded \in BOOLEAN, NEW x \in Version, NEW i \in 1..Redundancy PROVE Copy(x, i) \in Copies
<1>1. CASE coded
  BY <1>1 DEF Copy, Copies, Redundancy
<1>2. CASE ~coded
  BY RingAssumption, <1>2 DEF Copy, Copies
<1>3. QED
  BY <1>1, <1>2, Zenon

\* Every step keeps the types, RevInv seeing to those of the key, the views and the
\* moves.
LEMMA TypeStep == ASSUME TypeOK, RevInv, RevInv', [Next]_vars PROVE TypeOK'
<1> DEFINE Rest == /\ \A n \in Node : n \in view[n]
                   /\ disk \in [Node -> SUBSET Copies] /\ doomed \in [Node -> SUBSET Copies]
                   /\ page \in [Node -> Manifest \cup {NoManifest, NoPage}]
                   /\ fresh \in SUBSET Version
                   /\ agreed \in [Node -> BOOLEAN]
                   /\ sound \in BOOLEAN
<1> USE DEF TypeOK, history
<1>1. Rest' /\ coded' = coded => TypeOK'
  BY Zenon DEF RevInv, RevTypes, NewestServed, Manifest
<1>2. ASSUME NEW g \in Node, NEW x \in Version, NEW on \in SUBSET (1..Redundancy), Put(g, x, on)
      PROVE TypeOK'
  <2>1. disk' \in [Node -> SUBSET Copies] /\ \A n \in Node : disk[n] \subseteq disk'[n]
    BY <1>2, CopyType DEF Put
  <2>2. QED
    BY <1>1, <1>2, <2>1, Zenon DEF Put
<1>3. ASSUME Delete PROVE TypeOK'
  BY <1>1, <1>3, Zenon DEF Delete
<1>4. ASSUME NEW n \in Node, NEW v \in Memberships, SetMembers(n, v) PROVE TypeOK'
  <2>1. \A m \in Node : m \in view'[m]
    BY <1>4, Zenon DEF SetMembers
  <2>2. agreed' \in [Node -> BOOLEAN] /\ sound' \in BOOLEAN
    BY <1>4, Zenon DEF SetMembers
  <2>3. QED
    BY <1>1, <1>4, <2>1, <2>2, Zenon DEF SetMembers
<1>5. ASSUME NEW n \in Node, BeginMove(n) PROVE TypeOK'
  <2>1. agreed' \in [Node -> BOOLEAN]
    BY <1>5, Zenon DEF BeginMove, Agree
  <2>2. QED
    BY <1>1, <1>5, <2>1, Zenon DEF BeginMove
<1>6. ASSUME NEW n \in Node, GatherShards(n) PROVE TypeOK'
  BY <1>1, <1>6, Zenon DEF GatherShards
<1>7. ASSUME NEW n \in Node, NEW i \in 1..Redundancy, CopyChunk(n, i) PROVE TypeOK'
  <2>1. move[n] \in Move /\ move[n].seen.version \in Version
    BY <1>7, Zenon DEF CopyChunk, Move, Manifest
  <2> DEFINE copy == Copy(move[n].seen.version, i)
             d    == move[n].want[i]
  <2>2. copy \in Copies
    BY <2>1, CopyType, Zenon
  <2>3. /\ disk' = [disk EXCEPT ![d] = @ \cup {copy}]
        /\ doomed' = [doomed EXCEPT ![d] = @ \ {copy}]
    BY <1>7, Zenon DEF CopyChunk
  <2> HIDE DEF copy, d
  <2>4. disk' \in [Node -> SUBSET Copies] /\ doomed' \in [Node -> SUBSET Copies]
    BY <2>2, <2>3, Zenon
  <2>5. QED
    BY <1>1, <1>7, <2>4, Zenon DEF CopyChunk
<1>8. ASSUME NEW n \in Node, CommitMove(n) PROVE TypeOK'
  <2>1. agreed' \in [Node -> BOOLEAN] /\ sound' \in BOOLEAN
    BY <1>8, Zenon DEF CommitMove
  <2>2. QED
    BY <1>1, <1>8, <2>1, Zenon DEF CommitMove
<1>9. ASSUME NEW n \in Node, FailMove(n) PROVE TypeOK'
  BY <1>1, <1>9, Zenon DEF FailMove
<1>10. ASSUME NEW n \in Node, NEW aged \in SUBSET disk[n], ReadPage(n, aged) PROVE TypeOK'
  BY <1>1, <1>10, Zenon DEF ReadPage
<1>11. ASSUME NEW n \in Node, Mark(n) PROVE TypeOK'
  BY <1>1, <1>11, Zenon DEF Mark
<1>12. ASSUME NEW n \in Node, Remove(n) PROVE TypeOK'
  BY <1>1, <1>12 DEF Remove
<1>13. CASE UNCHANGED vars
  BY <1>1, <1>13, Zenon DEF vars
<1>14. QED
  BY <1>2, <1>3, <1>4, <1>5, <1>6, <1>7, <1>8, <1>9, <1>10, <1>11, <1>12, <1>13, Zenon DEF Next

\* Whatever is moved, swept or overwritten, the manifest, the views, the disks and the
\* moves have their types, and every node is in its own view as SetMembers sees to.
THEOREM RebalanceTypes == Spec => []TypeOK
<1>1. Init => TypeOK /\ RevInv
  BY AbsenceAssumption, RingAssumption, RevStart DEF Init, TypeOK
<1>2. TypeOK /\ RevInv /\ [Next]_vars => TypeOK' /\ RevInv'
  BY RevStep, TypeStep, Zenon
<1>3. QED
  BY <1>1, <1>2, PTL DEF Spec

-----------------------------------------------------------------------------
(***************************************************************************)
(* The copies.                                                             *)
(***************************************************************************)

\* What has not been written is on no disk, and nothing refers to it.
FreshUnwritten ==
  /\ manifest # NoManifest => manifest.version \notin fresh
  /\ \A n \in Node : move[n] # NoMove => move[n].seen.version \notin fresh
  /\ \A n \in Node : \A copy \in disk[n] \cup doomed[n] : copy[1] \notin fresh

\* A move goes to as many nodes or more, each of them once.
MoveShape ==
  \A n \in Node : move[n] # NoMove =>
    Len(move[n].seen.nodes) <= Len(move[n].want) /\ Distinct(move[n].want)

\* The move of node n would be committed.
Live(n) == move[n] # NoMove /\ manifest # NoManifest /\ manifest.rev = move[n].seen.rev

\* What the sweep of a node would take as things stand: what it has found to be garbage,
\* or will find so if its ring does not change first.
Condemned == [d \in Node |-> doomed[d] \ Named(d, page[d])]

\* A sweep that has files of the object's version before it has read a manifest of that
\* version: a version that came to the key later came to the disks later.
PageKnows ==
  \A d \in Node : page[d] # NoPage /\ manifest # NoManifest =>
    \A copy \in doomed[d] : copy[1] = manifest.version =>
      page[d] # NoManifest /\ page[d].version = manifest.version

\* What a move that is agreed to has copied is there, and no sweep is about to take it.
MoveBrings ==
  \A n \in Node : move[n] # NoMove /\ agreed[n] =>
    /\ Agree(move[n], view)
    /\ Live(n) =>
         \A i \in Missing(move[n].seen.nodes, move[n].want) \ move[n].left :
           Copy(move[n].seen.version, i) \in disk[move[n].want[i]] \ Condemned[move[n].want[i]]

\* No sweep is about to take what the manifest says is there.
NotCondemned ==
  manifest # NoManifest /\ sound =>
    \A i \in DOMAIN manifest.nodes : Copy(manifest.version, i) \notin Condemned[manifest.nodes[i]]

HeldInv == FreshUnwritten /\ PageKnows /\ MoveShape /\ MoveBrings /\ NotCondemned /\ HeldAtW

\* What a sweep goes by changes with its node's view alone.
LEMMA NamedSame ==
  ASSUME UNCHANGED coded, NEW d \in Node, view'[d] = view[d]
  PROVE  \A m : Named(d, m)' = Named(d, m)
<1>1. Owners(view[d])' = Owners(view[d])
  BY Zenon DEF Owners, Redundancy
<1>2. \A x, i : Copy(x, i)' = Copy(x, i)
  BY Zenon DEF Copy
<1>3. QED
  BY <1>1, <1>2 DEF Named, PositionsOf

\* A step that leaves the sweeps and the views alone condemns nothing more.
LEMMA CondemnedSame ==
  ASSUME UNCHANGED <<coded, view, doomed, page>> PROVE Condemned' = Condemned
<1>1. \A d \in Node : Named(d, page[d])' = Named(d, page[d])
  BY NamedSame, Zenon
<1>2. QED
  BY <1>1, Zenon DEF Condemned

\* A sweep that has read nothing yet spares nothing, and one never takes what was not
\* before it.
LEMMA CondemnedDoomed ==
  /\ \A d \in Node : Condemned[d] = doomed[d] \ Named(d, page[d])
  /\ \A d \in Node : Condemned[d] \subseteq doomed[d]
  /\ \A d \in Node : page[d] = NoPage => Condemned[d] = doomed[d]
BY DEF Condemned, Named

\* The positions of a sequence can be counted.
LEMMA PositionsFinite ==
  ASSUME NEW s \in Seq(Node) PROVE IsFiniteSet(DOMAIN s) /\ Cardinality(DOMAIN s) = Len(s)
<1>1. DOMAIN s = 1..Len(s) /\ Len(s) \in Nat
  OBVIOUS
<1>2. IsFiniteSet(1..Len(s)) /\ Cardinality(1..Len(s)) = IF 1 > Len(s) THEN 0 ELSE Len(s) - 1 + 1
  BY <1>1, FS_Interval, SMTT(20)
<1>3. QED
  BY <1>1, <1>2

\* The owners of a view are met once each.
LEMMA OwnersDistinct == ASSUME NEW v \in SUBSET Node PROVE Distinct(Owners(v))
<1> DEFINE s == Walk[v]
           k == Least(Redundancy, Len(s))
<1>1. s \in Seq(Node) /\ Len(s) \in Nat /\ Distinct(s)
  BY RingAssumption
<1>2. k \in Int /\ k <= Len(s)
  BY RingAssumption, <1>1 DEF Least, Redundancy
<1>3. \A i \in 1..k : s[i] \in Node
  BY <1>1, <1>2
<1>4. /\ SubSeq(s, 1, k) \in Seq(Node)
      /\ Len(SubSeq(s, 1, k)) = IF 1 <= k THEN k - 1 + 1 ELSE 0
      /\ \A i \in 1..(k - 1 + 1) : SubSeq(s, 1, k)[i] = s[1 + i - 1]
  BY <1>2, <1>3, SubSeqProperties
<1>5. \A i \in DOMAIN SubSeq(s, 1, k) : i \in DOMAIN s /\ SubSeq(s, 1, k)[i] = s[i]
  BY <1>1, <1>2, <1>4
<1>6. QED
  BY <1>1, <1>5, Zenon DEF Owners, Distinct

\* An owner that a move does not copy to had the copy by the old placement.
LEMMA Retained ==
  ASSUME coded \in BOOLEAN, NEW nodes \in Seq(Node), NEW want \in Seq(Node),
         NEW i \in DOMAIN want, i \notin Missing(nodes, want), NEW x
  PROVE  \E j \in DOMAIN nodes : nodes[j] = want[i] /\ Copy(x, j) = Copy(x, i)
<1>1. CASE coded
  BY <1>1, Zenon DEF Missing, PositionsOf
<1>2. CASE ~coded
  <2>1. PositionsOf(nodes, want[i]) # {}
    BY <1>2, Zenon DEF Missing
  <2>2. PICK j \in DOMAIN nodes : nodes[j] = want[i]
    BY <2>1, Zenon DEF PositionsOf
  <2>3. QED
    BY <1>2, <2>2, Zenon DEF Copy
<1>3. QED
  BY <1>1, <1>2, Zenon

\* The counting behind a move: if every position of the new placement that has nothing
\* is a node that had nothing in the old one, and no node is there twice, then as many
\* positions have theirs as before.
LEMMA NoFewer ==
  ASSUME NEW nodes \in Seq(Node), NEW want \in Seq(Node), Len(nodes) <= Len(want), Distinct(want),
         NEW S \in SUBSET DOMAIN nodes, NEW T \in SUBSET DOMAIN want,
         \A i \in DOMAIN want \ T : \E j \in DOMAIN nodes \ S : nodes[j] = want[i]
  PROVE  Cardinality(S) <= Cardinality(T)
<1> DEFINE A == DOMAIN nodes
           B == DOMAIN want
           f == [i \in B \ T |-> CHOOSE j \in A \ S : nodes[j] = want[i]]
<1>1. \A i \in B \ T : f[i] \in A \ S /\ nodes[f[i]] = want[i]
  BY Zenon
<1>2. f \in [B \ T -> A \ S]
  BY <1>1, Zenon
<1>3. \A i, j \in B \ T : f[i] = f[j] => i = j
  BY <1>1, Zenon DEF Distinct
<1>4. f \in Injection(B \ T, A \ S)
  BY <1>2, <1>3, Zenon DEF Injection, IsInjective
<1>5. IsFiniteSet(A) /\ Cardinality(A) = Len(nodes) /\ IsFiniteSet(B) /\ Cardinality(B) = Len(want)
  BY PositionsFinite, Zenon
<1>6. IsFiniteSet(A \ S) /\ Cardinality(A \ S) = Cardinality(A) - Cardinality(A \cap S)
  BY <1>5, FS_Difference, Zenon
<1>7. Cardinality(B \ T) = Cardinality(B) - Cardinality(B \cap T)
  BY <1>5, FS_Difference, Zenon
<1>8. Cardinality(B \ T) <= Cardinality(A \ S)
  BY <1>4, <1>6, FS_Injection, Zenon
<1>9. A \cap S = S /\ B \cap T = T
  BY Zenon
<1>10. Cardinality(S) \in Nat /\ Cardinality(T) \in Nat
  BY <1>5, FS_Subset, FS_CardinalityType, Zenon
<1>11. Len(nodes) \in Nat /\ Len(want) \in Nat
  OBVIOUS
<1>12. Cardinality(A \ S) = Len(nodes) - Cardinality(S)
  BY <1>5, <1>6, <1>9, Zenon
<1>13. Cardinality(B \ T) = Len(want) - Cardinality(T)
  BY <1>5, <1>7, <1>9, Zenon
<1>14. QED
  BY <1>8, <1>10, <1>11, <1>12, <1>13

\* A manifest goes on being held while nothing but what is condemned goes.
LEMMA KeyHeld ==
  ASSUME TypeOK, NotCondemned, HeldAtW, UNCHANGED <<coded, manifest>>, sound' => sound,
         \A d \in Node : disk[d] \ Condemned[d] \subseteq disk'[d]
  PROVE  HeldAtW'
<1> SUFFICES ASSUME manifest # NoManifest, sound
             PROVE  Cardinality(Holding(manifest)') >= Quorum
  BY Zenon DEF HeldAtW, Holding, Quorum, Copy, Least
<1>1. manifest.nodes \in Seq(Node)
  BY Zenon DEF TypeOK, Manifest
<1>2. Holding(manifest) \subseteq Holding(manifest)'
  <2>1. \A x, i : Copy(x, i)' = Copy(x, i)
    BY Zenon DEF Copy
  <2>2. QED
    BY <1>1, <2>1 DEF Holding, NotCondemned
<1>3. IsFiniteSet(Holding(manifest)')
  BY <1>1, PositionsFinite, FS_Subset, Zenon DEF Holding
<1>4. Cardinality(Holding(manifest)) <= Cardinality(Holding(manifest)')
  BY <1>2, <1>3, FS_Subset, Zenon
<1>5. Cardinality(Holding(manifest)) \in Nat /\ Cardinality(Holding(manifest)') \in Nat
  BY <1>2, <1>3, FS_Subset, FS_CardinalityType, Zenon
<1>6. Quorum \in Nat
  BY RingAssumption DEF Quorum, Least, TypeOK
<1>7. QED
  BY <1>4, <1>5, <1>6 DEF HeldAtW

\* Whether a move is agreed to goes by the views alone: a cluster codes its chunks or
\* it does not.
LEMMA AgreeSame == ASSUME UNCHANGED coded PROVE \A m, v : Agree(m, v)' <=> Agree(m, v)
<1>1. \A v : Owners(v)' = Owners(v)
  BY Zenon DEF Owners, Redundancy
<1>2. \A x, i : Copy(x, i)' = Copy(x, i)
  BY Zenon DEF Copy
<1>3. \A nodes, want : Missing(nodes, want)' = Missing(nodes, want)
  BY Zenon DEF Missing
<1>4. QED
  BY <1>1, <1>2, <1>3 DEF Agree, PositionsOf

\* The moves keep what they brought: none begins, one that was overtaken stays
\* overtaken, nothing goes that was not condemned, and what a move need no longer copy
\* is there.
LEMMA MovesKept ==
  ASSUME TypeOK, TypeOK', MoveShape, MoveBrings, UNCHANGED coded,
         \A n \in Node : move'[n] # NoMove =>
           move[n] # NoMove /\ move'[n].seen = move[n].seen /\ move'[n].want = move[n].want,
         \A n \in Node : move'[n] # NoMove /\ agreed'[n] => agreed[n] /\ Agree(move[n], view'),
         \A n \in Node : Live(n)' => Live(n),
         \A d \in Node : disk[d] \ Condemned[d] \subseteq disk'[d] \ Condemned'[d],
         \A n \in Node : move'[n] # NoMove =>
           \A i \in DOMAIN move[n].want \cap (move[n].left \ move'[n].left) :
             Copy(move[n].seen.version, i) \in disk'[move[n].want[i]] \ Condemned'[move[n].want[i]]
  PROVE  MoveShape' /\ MoveBrings'
<1>1. MoveShape'
  BY Zenon DEF MoveShape
<1>2. ASSUME NEW n \in Node, move'[n] # NoMove, agreed'[n] PROVE Agree(move[n], view)'
  <2>1. Agree(move[n], view') /\ move'[n].seen = move[n].seen /\ move'[n].want = move[n].want
    BY <1>2, Zenon
  <2>2. Agree(move'[n], view')
    BY <2>1, Zenon DEF Agree
  <2>3. QED
    BY <2>2, AgreeSame, Zenon
<1>3. ASSUME NEW n \in Node, move'[n] # NoMove, agreed'[n], Live(n)',
             NEW i \in Missing(move[n].seen.nodes, move[n].want)' \ move'[n].left
      PROVE  Copy(move[n].seen.version, i)' \in disk'[move'[n].want[i]] \ Condemned'[move'[n].want[i]]
  <2>1. move[n] # NoMove /\ agreed[n] /\ Live(n) /\ move[n] \in Move
    BY <1>3 DEF TypeOK
  <2>2. i \in Missing(move[n].seen.nodes, move[n].want)
    BY <1>3, Zenon DEF Missing
  <2>3. move[n].want[i] \in Node
    BY <2>1, <2>2 DEF Missing, Move
  <2>4. Copy(move[n].seen.version, i)' = Copy(move[n].seen.version, i)
    BY <1>3, Zenon DEF Copy
  <2>5. CASE i \in move[n].left
    <3>1. i \in DOMAIN move[n].want
      BY <2>2, Zenon DEF Missing
    <3>2. QED
      BY <1>3, <2>4, <2>5, <3>1, ZenonT(40)
  <2>6. CASE i \notin move[n].left
    BY <1>3, <2>1, <2>2, <2>3, <2>4, <2>6, ZenonT(40) DEF MoveBrings
  <2>7. QED
    BY <2>5, <2>6, Zenon
<1>4. MoveBrings'
  BY <1>2, <1>3, Zenon DEF MoveBrings
<1>5. QED
  BY <1>1, <1>4, Zenon

\* A step that leaves the key alone and condemns nothing more keeps HeldInv, if the
\* moves keep what they brought.
LEMMA HeldQuiet ==
  ASSUME TypeOK, TypeOK', HeldInv, UNCHANGED <<coded, manifest, sound, fresh>>,
         \A n \in Node : move'[n] # NoMove =>
           move[n] # NoMove /\ move'[n].seen = move[n].seen /\ move'[n].want = move[n].want,
         \A n \in Node : move'[n] # NoMove /\ agreed'[n] => agreed[n] /\ Agree(move[n], view'),
         \A d \in Node : doomed'[d] \subseteq doomed[d] /\ page'[d] \in {page[d], NoPage},
         \A d \in Node : Condemned'[d] \subseteq Condemned[d] /\ disk[d] \ Condemned[d] \subseteq disk'[d],
         \A d \in Node : \A copy \in disk'[d] : copy[1] \notin fresh,
         \A n \in Node : move'[n] # NoMove =>
           \A i \in DOMAIN move[n].want \cap (move[n].left \ move'[n].left) :
             Copy(move[n].seen.version, i) \in disk'[move[n].want[i]] \ Condemned'[move[n].want[i]]
  PROVE  HeldInv'
<1>1. \A n \in Node : Live(n)' => Live(n)
  BY Zenon DEF Live
<1>2. \A d \in Node : disk[d] \ Condemned[d] \subseteq disk'[d] \ Condemned'[d]
  BY Zenon
<1>3. MoveShape' /\ MoveBrings'
  BY <1>1, <1>2, MovesKept, Zenon DEF HeldInv
<1>4. HeldAtW'
  BY KeyHeld, Zenon DEF HeldInv
<1>5. FreshUnwritten'
  BY Zenon DEF HeldInv, FreshUnwritten
<1>6. NotCondemned'
  <2>1. \A i : Copy(manifest.version, i)' = Copy(manifest.version, i)
    BY Zenon DEF Copy
  <2>2. manifest # NoManifest => manifest.nodes \in Seq(Node)
    BY Zenon DEF TypeOK, Manifest
  <2>3. QED
    BY <2>1, <2>2 DEF HeldInv, NotCondemned
<1>7. PageKnows'
  BY ZenonT(40) DEF HeldInv, PageKnows
<1>8. QED
  BY <1>3, <1>4, <1>5, <1>6, <1>7, Zenon DEF HeldInv

\* A new manifest's revision is one that no move has read.
LEMMA Overtaken ==
  ASSUME RevInv, revision' = revision + 1, manifest' # NoManifest, manifest'.rev = revision + 1,
         NEW n \in Node, move'[n] # NoMove, move[n] # NoMove, move'[n].seen = move[n].seen
  PROVE  ~Live(n)'
<1>1. move[n].seen.rev \in Nat /\ move[n].seen.rev <= revision /\ revision \in Nat
  BY DEF RevInv, RevTypes, RevUnique, Move, Manifest
<1>2. QED
  BY <1>1 DEF Live

\* A write is of copies that no sweep has seen, on a quorum of the nodes its manifest
\* names.
LEMMA HeldPut ==
  ASSUME TypeOK, TypeOK', RevInv, RevInv', HeldInv,
         NEW g \in Node, NEW x \in Version, NEW on \in SUBSET (1..Redundancy), Put(g, x, on)
  PROVE  HeldInv'
<1> DEFINE owners == Owners(view[g])
<1>1. owners \in Seq(Node)
  BY OwnersAreNodes, Zenon DEF TypeOK
<1>2. /\ x \in fresh /\ fresh' = fresh \ {x}
      /\ on \subseteq DOMAIN owners /\ Cardinality(on) >= Quorum
      /\ disk' = [n \in Node |-> disk[n] \cup {Copy(x, i) : i \in on \cap PositionsOf(owners, n)}]
      /\ manifest' = [version |-> x, nodes |-> owners, rev |-> revision']
      /\ revision' = revision + 1
      /\ UNCHANGED <<coded, view, move, doomed, page, agreed>>
  BY Zenon DEF Put
<1> HIDE DEF owners
<1>3. manifest'.version = x /\ manifest'.nodes = owners /\ manifest'.rev = revision + 1
      /\ manifest' # NoManifest
  <2>1. latest' = x
    BY Zenon DEF Put
  <2>2. QED
    BY AbsenceAssumption, <1>2, <2>1, Zenon DEF RevInv, NewestServed
<1>4. \A y, i : Copy(y, i)' = Copy(y, i) /\ Copy(y, i)[1] = y
  BY <1>2, Zenon DEF Copy
<1>5. FreshUnwritten'
  BY <1>2, <1>3, <1>4 DEF HeldInv, FreshUnwritten, TypeOK
<1>6. MoveShape' /\ MoveBrings'
  <2>1. \A n \in Node : move'[n] # NoMove => ~Live(n)'
    BY <1>2, <1>3, Overtaken, Zenon
  <2>2. \A n \in Node : Live(n)' => Live(n)
    BY <2>1, Zenon DEF Live
  <2>3. \A d \in Node : disk[d] \ Condemned[d] \subseteq disk'[d] \ Condemned'[d]
    BY <1>2, CondemnedSame, Zenon DEF TypeOK
  <2>4. \A n \in Node : move'[n] # NoMove /\ agreed'[n] => agreed[n] /\ Agree(move[n], view')
    BY <1>2, Zenon DEF HeldInv, MoveBrings
  <2>5. QED
    BY <1>2, <2>2, <2>3, <2>4, MovesKept, Zenon DEF HeldInv
<1>7. NotCondemned'
  <2>1. ASSUME NEW i \in DOMAIN owners PROVE Copy(x, i) \notin Condemned[owners[i]]
    <3>1. owners[i] \in Node
      BY <1>1
    <3>2. Copy(x, i) \notin doomed[owners[i]]
      BY <1>2, <1>4, <3>1, Zenon DEF HeldInv, FreshUnwritten
    <3>3. QED
      BY <3>1, <3>2, CondemnedDoomed, Zenon
  <2>2. QED
    BY <1>2, <1>3, <1>4, <2>1, CondemnedSame, Zenon DEF NotCondemned
<1>8. PageKnows'
  BY <1>2, <1>3, Zenon DEF HeldInv, FreshUnwritten, PageKnows
<1>9. HeldAtW'
  <2>1. on \subseteq Holding(manifest)'
    BY <1>1, <1>2, <1>3, <1>4 DEF Holding, PositionsOf, TypeOK
  <2>2. IsFiniteSet(Holding(manifest)')
    BY <1>1, <1>3, PositionsFinite, FS_Subset, Zenon DEF Holding
  <2>3. /\ Cardinality(on) <= Cardinality(Holding(manifest)')
        /\ Cardinality(on) \in Nat /\ Cardinality(Holding(manifest)') \in Nat
    BY <2>1, <2>2, FS_Subset, FS_CardinalityType, Zenon
  <2>4. Quorum' = Quorum /\ Quorum \in Nat
    BY RingAssumption, <1>2 DEF Quorum, Least, TypeOK
  <2>5. QED
    BY <1>2, <2>3, <2>4, SMTT(20) DEF HeldAtW
<1>10. QED
  BY <1>5, <1>6, <1>7, <1>9, <1>8, Zenon DEF HeldInv

\* A commit of a move that was agreed to: whoever it did not copy to had the copy, no
\* node counts twice, and there are no fewer of them.
LEMMA HeldCommit ==
  ASSUME TypeOK, TypeOK', RevInv, RevInv', HeldInv, NEW n \in Node, CommitMove(n), Live(n)
  PROVE  HeldInv'
<1> DEFINE m == move[n]
           nodes == manifest.nodes
           x == manifest.version
<1>1. m \in Move /\ m = move[n] /\ m # NoMove /\ m.left = {}
  BY Zenon DEF CommitMove, TypeOK
<1>2. manifest # NoManifest /\ manifest = m.seen /\ manifest \in Manifest
  BY <1>1, Zenon DEF Live, RevInv, RevUnique, TypeOK
<1>3. nodes \in Seq(Node) /\ m.want \in Seq(Node) /\ x \in Version
  BY <1>1, <1>2, Zenon DEF Move, Manifest
<1>4. /\ manifest' = [version |-> x, nodes |-> m.want, rev |-> revision + 1]
      /\ revision' = revision + 1
      /\ sound' = (sound /\ agreed[n])
      /\ move' = [move EXCEPT ![n] = NoMove]
      /\ agreed' = [agreed EXCEPT ![n] = TRUE]
      /\ UNCHANGED <<coded, latest, view, disk, doomed, page, fresh>>
  BY <1>2, Zenon DEF CommitMove, Live
<1>5. manifest'.version = x /\ manifest'.nodes = m.want /\ manifest'.rev = revision + 1
      /\ manifest' # NoManifest
  <2>1. latest' = x
    BY <1>2, <1>4, Zenon DEF RevInv, NewestServed
  <2>2. QED
    BY AbsenceAssumption, <1>3, <1>4, <2>1, Zenon DEF RevInv, NewestServed
<1>6. \A y, i : Copy(y, i)' = Copy(y, i)
  BY <1>4, Zenon DEF Copy
<1>7. \A k \in Node : move'[k] # NoMove => move'[k] = move[k] /\ (agreed'[k] => agreed[k])
  <2>1. \A k \in Node : move'[k] # NoMove => k # n /\ move'[k] = move[k]
    BY <1>4, Zenon DEF TypeOK
  <2>2. \A k \in Node : k # n => agreed'[k] = agreed[k]
    BY <1>4, Zenon DEF TypeOK
  <2>3. QED
    BY <2>1, <2>2, Zenon
<1>8. FreshUnwritten'
  BY <1>2, <1>4, <1>5, <1>7 DEF HeldInv, FreshUnwritten
<1>9. MoveShape' /\ MoveBrings'
  <2>1. \A k \in Node : Live(k)' => Live(k)
    BY <1>4, <1>5, <1>7, Overtaken, Zenon DEF Live
  <2>2. \A k \in Node : move'[k] # NoMove /\ agreed'[k] => agreed[k] /\ Agree(move[k], view')
    BY <1>4, <1>7, Zenon DEF HeldInv, MoveBrings
  <2>3. QED
    BY <1>4, <1>7, <2>1, <2>2, CondemnedSame, MovesKept, Zenon DEF HeldInv
<1>10. ASSUME sound' PROVE sound /\ agreed[n]
  BY <1>4, <1>10, Zenon DEF TypeOK
<1>11. ASSUME sound', NEW i \in Missing(nodes, m.want)
       PROVE  Copy(x, i) \in disk[m.want[i]] \ Condemned[m.want[i]]
  BY <1>1, <1>2, <1>10, <1>11, Zenon DEF HeldInv, MoveBrings
<1> HIDE DEF m, nodes, x
<1>12. ASSUME NEW i \in DOMAIN m.want, i \notin Missing(nodes, m.want)
       PROVE  \E j \in DOMAIN nodes : nodes[j] = m.want[i] /\ Copy(x, j) = Copy(x, i)
  <2>1. coded \in BOOLEAN
    BY Zenon DEF TypeOK
  <2>2. QED
    BY <1>3, <1>12, <2>1, Retained, SMTT(40)
<1>13. NotCondemned'
  <2> SUFFICES ASSUME sound', NEW i \in DOMAIN m.want PROVE Copy(x, i) \notin Condemned[m.want[i]]
    BY <1>4, <1>5, <1>6, CondemnedSame, Zenon DEF NotCondemned
  <2>1. CASE i \in Missing(nodes, m.want)
    BY <1>11, <2>1, Zenon
  <2>2. CASE i \notin Missing(nodes, m.want)
    BY <1>2, <1>10, <1>12, <2>2, Zenon DEF HeldInv, NotCondemned, nodes, x
  <2>3. QED
    BY <2>1, <2>2, Zenon
<1>14. HeldAtW'
  <2> SUFFICES ASSUME sound' PROVE Cardinality(Holding(manifest)') >= Quorum'
    BY Zenon DEF HeldAtW
  <2> DEFINE S == Holding(manifest)
             T == Holding(manifest)'
  <2>1. S = {i \in DOMAIN nodes : Copy(x, i) \in disk[nodes[i]]}
    BY Zenon DEF Holding, nodes, x
  <2>2. T = {i \in DOMAIN m.want : Copy(x, i) \in disk[m.want[i]]}
    BY <1>4, <1>5, <1>6, Zenon DEF Holding
  <2>3. ASSUME NEW i \in DOMAIN m.want \ T PROVE \E j \in DOMAIN nodes \ S : nodes[j] = m.want[i]
    <3>1. i \notin Missing(nodes, m.want)
      BY <1>11, <2>2, Zenon
    <3>2. QED
      BY <1>12, <2>1, <2>2, <3>1, Zenon
  <2>4. S \in SUBSET DOMAIN nodes /\ T \in SUBSET DOMAIN m.want
    BY <2>1, <2>2, Zenon
  <2>5. Len(nodes) <= Len(m.want) /\ Distinct(m.want)
    BY <1>1, <1>2, Zenon DEF HeldInv, MoveShape, nodes
  <2> HIDE DEF S, T
  <2>6. Cardinality(S) <= Cardinality(T)
    BY <1>3, <2>3, <2>4, <2>5, NoFewer, Zenon
  <2>7. Cardinality(S) \in Nat /\ Cardinality(T) \in Nat
    BY <1>3, <2>4, PositionsFinite, FS_Subset, FS_CardinalityType, Zenon
  <2>8. Cardinality(S) >= Quorum
    BY <1>2, <1>10, Zenon DEF HeldInv, HeldAtW, S
  <2>9. Quorum' = Quorum /\ Quorum \in Nat
    BY RingAssumption, <1>4 DEF Quorum, Least, TypeOK
  <2>10. QED
    BY <2>6, <2>7, <2>8, <2>9, SMTT(20) DEF T
<1>15. PageKnows'
  BY <1>2, <1>4, <1>5, Zenon DEF HeldInv, PageKnows, x
<1>16. QED
  BY <1>8, <1>9, <1>13, <1>14, <1>15, Zenon DEF HeldInv

\* The beginning of a move: nothing of it has been copied yet.
LEMMA HeldBegin ==
  ASSUME TypeOK, TypeOK', HeldInv, NEW n \in Node, BeginMove(n)
  PROVE  HeldInv'
<1> DEFINE want == Owners(view[n])
           new  == [seen |-> manifest, want |-> want, have |-> {},
                    left |-> Missing(manifest.nodes, want)]
<1>1. /\ manifest # NoManifest /\ Len(want) >= Len(manifest.nodes)
      /\ move' = [move EXCEPT ![n] = new]
      /\ agreed' = [agreed EXCEPT ![n] = Agree(move'[n], view)]
      /\ UNCHANGED <<coded, manifest, view, disk, doomed, page, fresh, sound>>
  BY Zenon DEF BeginMove
<1>2. new.seen = manifest /\ new.want = want /\ new.left = Missing(manifest.nodes, want)
  BY Zenon
<1>3. want \in Seq(Node) /\ Distinct(want) /\ manifest.nodes \in Seq(Node)
  BY <1>1, OwnersAreNodes, OwnersDistinct, Zenon DEF TypeOK, Manifest
<1> HIDE DEF new, want
<1>4. move'[n] = new /\ (agreed'[n] => Agree(move'[n], view))
  BY <1>1, Zenon DEF TypeOK
<1>5. \A k \in Node \ {n} : move'[k] = move[k] /\ agreed'[k] = agreed[k]
  BY <1>1, SMTT(20) DEF TypeOK
<1>6. FreshUnwritten'
  BY <1>1, <1>2, <1>4, <1>5 DEF HeldInv, FreshUnwritten
<1>7. MoveShape'
  BY <1>1, <1>2, <1>3, <1>4, <1>5, Zenon DEF HeldInv, MoveShape
<1>8. \A x, i : Copy(x, i)' = Copy(x, i)
  BY <1>1, Zenon DEF Copy
<1>9. \A nodes, to : Missing(nodes, to)' = Missing(nodes, to)
  BY <1>1, Zenon DEF Missing
<1>10. MoveBrings'
  <2>1. ASSUME NEW k \in Node, move'[k] # NoMove, agreed'[k] PROVE Agree(move[k], view)'
    <3>1. Agree(move'[k], view)
      BY <1>4, <1>5, <2>1, Zenon DEF HeldInv, MoveBrings
    <3>2. QED
      BY <1>1, <3>1, AgreeSame, Zenon
  <2>2. ASSUME NEW k \in Node, move'[k] # NoMove, agreed'[k], Live(k)',
               NEW i \in Missing(move[k].seen.nodes, move[k].want)' \ move'[k].left
        PROVE  Copy(move[k].seen.version, i)' \in disk'[move'[k].want[i]] \ Condemned'[move'[k].want[i]]
    <3>1. k # n
      BY <1>2, <1>4, <1>9, <2>2, Zenon
    <3>2. Live(k) /\ move[k] # NoMove /\ agreed[k] /\ move'[k] = move[k]
      BY <1>1, <1>5, <2>2, <3>1, Zenon DEF Live
    <3>3. i \in Missing(move[k].seen.nodes, move[k].want) \ move[k].left
      BY <1>9, <2>2, <3>2, Zenon
    <3>4. QED
      BY <1>1, <1>8, <3>2, <3>3, CondemnedSame, Zenon DEF HeldInv, MoveBrings
  <2>3. QED
    BY <2>1, <2>2, Zenon DEF MoveBrings
<1>11. HeldAtW'
  BY <1>1, KeyHeld, Zenon DEF HeldInv
<1>12. NotCondemned'
  BY <1>1, <1>8, CondemnedSame, Zenon DEF HeldInv, NotCondemned
<1>13. PageKnows'
  BY <1>1, Zenon DEF HeldInv, PageKnows
<1>14. QED
  BY <1>6, <1>7, <1>10, <1>11, <1>12, <1>13, Zenon DEF HeldInv

\* A sweep that begins condemns nothing that the manifest names, nor what a move that is
\* agreed to has brought: this node's own ring names that.
LEMMA HeldRead ==
  ASSUME TypeOK, TypeOK', RevInv, HeldInv, NEW n \in Node, NEW aged \in SUBSET disk[n],
         ReadPage(n, aged)
  PROVE  HeldInv'
<1>1. /\ doomed' = [doomed EXCEPT ![n] = aged] /\ page' = [page EXCEPT ![n] = manifest]
      /\ UNCHANGED <<coded, manifest, view, disk, move, fresh, agreed, sound>>
  BY Zenon DEF ReadPage, history
<1>2. \A d \in Node : /\ doomed'[d] = IF d = n THEN aged ELSE doomed[d]
                      /\ page'[d] = IF d = n THEN manifest ELSE page[d]
  BY <1>1, Zenon DEF TypeOK
<1>3. \A d \in Node : Condemned'[d] = IF d = n THEN aged \ Named(n, manifest) ELSE Condemned[d]
  <2>1. \A d \in Node : Condemned'[d] = doomed'[d] \ Named(d, page'[d])
    <3>1. \A d \in Node : \A m : Named(d, m)' = Named(d, m)
      BY <1>1, NamedSame, Zenon
    <3>2. QED
      BY <3>1, Zenon DEF Condemned
  <2>2. QED
    BY <1>2, <2>1, CondemnedDoomed, Zenon
<1>4. \A x, i : Copy(x, i)' = Copy(x, i)
  BY <1>1, Zenon DEF Copy
<1>5. \A nodes, to : Missing(nodes, to)' = Missing(nodes, to)
  BY <1>1, Zenon DEF Missing
<1>6. FreshUnwritten'
  BY <1>1, <1>2 DEF HeldInv, FreshUnwritten
<1>7. MoveShape'
  BY <1>1, Zenon DEF HeldInv, MoveShape
<1>8. HeldAtW'
  BY <1>1, KeyHeld, Zenon DEF HeldInv
<1>9. NotCondemned'
  <2> SUFFICES ASSUME manifest # NoManifest, sound, NEW i \in DOMAIN manifest.nodes
               PROVE  Copy(manifest.version, i) \notin Condemned'[manifest.nodes[i]]
    BY <1>1, <1>4, Zenon DEF NotCondemned
  <2>1. manifest.nodes[i] \in Node
    BY DEF TypeOK, Manifest
  <2>2. CASE manifest.nodes[i] = n
    <3>1. i \in PositionsOf(manifest.nodes, n)
      BY <2>2, Zenon DEF PositionsOf
    <3>2. Copy(manifest.version, i) \in Named(n, manifest)
      BY <3>1, AbsenceAssumption, Zenon DEF Named, TypeOK
    <3>3. QED
      BY <1>3, <2>2, <3>2, Zenon
  <2>3. CASE manifest.nodes[i] # n
    BY <1>3, <2>1, <2>3, Zenon DEF HeldInv, NotCondemned
  <2>4. QED
    BY <2>2, <2>3, Zenon
<1>10. MoveBrings'
  <2>1. ASSUME NEW k \in Node, move'[k] # NoMove, agreed'[k] PROVE Agree(move[k], view)'
    BY <1>1, <2>1, AgreeSame, Zenon DEF HeldInv, MoveBrings
  <2>2. ASSUME NEW k \in Node, move[k] # NoMove, agreed[k], Live(k),
               NEW i \in Missing(move[k].seen.nodes, move[k].want) \ move[k].left
        PROVE  Copy(move[k].seen.version, i) \in disk[move[k].want[i]] \ Condemned'[move[k].want[i]]
    <3> DEFINE m == move[k]
               d == m.want[i]
    <3>1. m \in Move /\ d \in Node
      BY <2>2 DEF TypeOK, Move, Missing
    <3>2. Copy(m.seen.version, i) \in disk[d] \ Condemned[d]
      BY <2>2, Zenon DEF HeldInv, MoveBrings
    <3>3. CASE d = n
      <4>1. manifest = m.seen /\ manifest # NoManifest
        BY <2>2, Zenon DEF Live, RevInv, RevUnique
      <4>2. Copy(0, i) \in {Copy(0, j) : j \in PositionsOf(Owners(view[d]), d)}
        BY <2>2, Zenon DEF HeldInv, MoveBrings, Agree
      <4>3. PICK j \in PositionsOf(Owners(view[n]), n) : Copy(0, i) = Copy(0, j)
        BY <3>3, <4>2, Zenon
      <4>4. Copy(manifest.version, i) = Copy(manifest.version, j)
        BY <4>3, Zenon DEF Copy
      <4>5. Copy(manifest.version, i) \in Named(n, manifest)
        BY <4>1, <4>4, AbsenceAssumption, Zenon DEF Named, TypeOK
      <4>6. QED
        BY <1>3, <3>2, <3>3, <4>1, <4>5, Zenon
    <3>4. CASE d # n
      BY <1>3, <3>1, <3>2, <3>4, Zenon
    <3>5. QED
      BY <3>3, <3>4, Zenon
  <2>3. \A k \in Node : Live(k)' => Live(k)
    BY <1>1, Zenon DEF Live
  <2>4. QED
    BY <1>1, <1>4, <1>5, <2>1, <2>2, <2>3, Zenon DEF MoveBrings
<1>11. PageKnows'
  BY <1>1, <1>2, ZenonT(40) DEF HeldInv, PageKnows
<1>12. QED
  BY <1>6, <1>7, <1>8, <1>9, <1>10, <1>11, Zenon DEF HeldInv

\* A change of one node's view takes from a sweep there nothing that it was going to
\* spare, but what the manifest alone has come to name since the sweep read it; and
\* what a move still agreed to has brought, the new view names.
LEMMA HeldView ==
  ASSUME TypeOK, TypeOK', RevInv, HeldInv, NEW n \in Node, NEW v \in Memberships, SetMembers(n, v)
  PROVE  HeldInv'
<1>1. /\ \A m \in Node : agreed'[m] => agreed[m] /\ (move[m] = NoMove \/ Agree(move[m], view'))
      /\ sound' => sound /\ ~MovedSince(n)
      /\ view' = [view EXCEPT ![n] = v \cup {n}]
      /\ UNCHANGED <<coded, manifest, disk, move, doomed, page, fresh>>
  BY Zenon DEF SetMembers
<1>2. \A x, i : Copy(x, i)' = Copy(x, i)
  BY <1>1, Zenon DEF Copy
<1>3. \A d \in Node : Condemned'[d] = doomed[d] \ Named(d, page[d])'
  BY <1>1, Zenon DEF Condemned
<1>4. FreshUnwritten' /\ MoveShape' /\ PageKnows'
  BY <1>1, Zenon DEF HeldInv, FreshUnwritten, MoveShape, PageKnows
<1>5. HeldAtW'
  BY <1>1, KeyHeld, Zenon DEF HeldInv
<1>6. ASSUME manifest # NoManifest, NEW d \in Node, NEW i,
             Copy(manifest.version, i) \in Condemned'[d], Copy(manifest.version, i) \notin Condemned[d]
      PROVE  /\ page[d] # NoPage /\ page[d] # NoManifest /\ page[d].version = manifest.version
             /\ \A j : Copy(0, j) = Copy(0, i) =>
                  j \notin PositionsOf(page[d].nodes, d) \cup PositionsOf(Owners(view[d])', d)
  <2>1. Copy(manifest.version, i) \in doomed[d] /\ Copy(manifest.version, i)[1] = manifest.version
    BY <1>3, <1>6, Zenon DEF Copy
  <2>2. page[d] # NoPage
    BY <1>6, <2>1, CondemnedDoomed, Zenon
  <2>3. page[d] # NoManifest /\ page[d].version = manifest.version
    BY <1>6, <2>1, <2>2, Zenon DEF HeldInv, PageKnows
  <2>4. ASSUME NEW j \in PositionsOf(page[d].nodes, d) \cup PositionsOf(Owners(view[d])', d)
        PROVE  Copy(page[d].version, j) \in Named(d, page[d])'
    BY <1>1, <1>2, <2>2, <2>3, Zenon DEF Named, PositionsOf
  <2>5. \A j : Copy(0, j) = Copy(0, i) => Copy(manifest.version, j) = Copy(manifest.version, i)
    BY Zenon DEF Copy
  <2>6. QED
    BY <1>3, <1>6, <2>2, <2>3, <2>4, <2>5, Zenon
<1>7. ASSUME NEW d \in Node, d # n PROVE Condemned'[d] = Condemned[d]
  <2>1. view'[d] = view[d]
    BY <1>1, <1>7, Zenon DEF TypeOK
  <2>2. \A m : Named(d, m)' = Named(d, m)
    BY <1>1, <2>1, NamedSame, Zenon
  <2>3. Condemned'[d] = doomed'[d] \ Named(d, page'[d])
    BY <2>2, Zenon DEF Condemned
  <2>4. QED
    BY <1>1, <2>3, CondemnedDoomed, Zenon
<1>8. NotCondemned'
  <2> SUFFICES ASSUME manifest # NoManifest, sound', NEW i \in DOMAIN manifest.nodes,
                      Copy(manifest.version, i) \in Condemned'[manifest.nodes[i]]
               PROVE  FALSE
    BY <1>1, <1>2, Zenon DEF NotCondemned
  <2>1. manifest.nodes[i] \in Node
    BY DEF TypeOK, Manifest
  <2>2. Copy(manifest.version, i) \notin Condemned[manifest.nodes[i]]
    BY <1>1, Zenon DEF HeldInv, NotCondemned
  <2>3. CASE manifest.nodes[i] = n
    <3>1. /\ page[n] # NoPage /\ page[n] # NoManifest /\ page[n].version = manifest.version
          /\ i \notin PositionsOf(page[n].nodes, n)
      BY <1>6, <2>2, <2>3, Zenon
    <3>2. page[n].nodes = manifest.nodes
      BY <1>1, <3>1, Zenon DEF MovedSince
    <3>3. QED
      BY <2>3, <3>1, <3>2, Zenon DEF PositionsOf
  <2>4. CASE manifest.nodes[i] # n
    BY <1>7, <2>1, <2>2, <2>4, Zenon
  <2>5. QED
    BY <2>3, <2>4, Zenon
<1>9. MoveBrings'
  <2>1. ASSUME NEW k \in Node, move'[k] # NoMove, agreed'[k] PROVE Agree(move[k], view)'
    BY <1>1, <2>1, AgreeSame, Zenon
  <2>2. ASSUME NEW k \in Node, move[k] # NoMove, agreed'[k], Live(k),
               NEW i \in Missing(move[k].seen.nodes, move[k].want) \ move[k].left
        PROVE  Copy(move[k].seen.version, i) \in disk[move[k].want[i]] \ Condemned'[move[k].want[i]]
    <3> DEFINE d == move[k].want[i]
    <3>1. d \in Node
      BY <2>2 DEF TypeOK, Move, Missing
    <3>2. agreed[k] /\ Agree(move[k], view')
      BY <1>1, <2>2, Zenon
    <3>3. Copy(move[k].seen.version, i) \in disk[d] \ Condemned[d]
      BY <2>2, <3>2, Zenon DEF HeldInv, MoveBrings
    <3>4. manifest = move[k].seen /\ manifest # NoManifest
      BY <2>2, Zenon DEF Live, RevInv, RevUnique
    <3>5. Copy(0, i) \in {Copy(0, j) : j \in PositionsOf(Owners(view'[d]), d)}
      BY <2>2, <3>2, Zenon DEF Agree
    <3>6. PICK j \in PositionsOf(Owners(view'[d]), d) : Copy(0, j) = Copy(0, i)
      BY <3>5, Zenon
    <3>7. \A e : Owners(view[e])' = Owners(view'[e])
      BY <1>1, Zenon DEF Owners, Redundancy
    <3> HIDE DEF d
    <3>8. Copy(manifest.version, i) \notin Condemned'[d]
      BY <1>6, <3>1, <3>3, <3>4, <3>6, <3>7, Zenon
    <3>9. QED
      BY <3>3, <3>4, <3>8, Zenon DEF d
  <2>3. \A k \in Node : Live(k)' => Live(k)
    BY <1>1, Zenon DEF Live
  <2>4. \A nodes, to : Missing(nodes, to)' = Missing(nodes, to)
    BY <1>1, Zenon DEF Missing
  <2>5. QED
    BY <1>1, <1>2, <2>1, <2>2, <2>3, <2>4, Zenon DEF MoveBrings
<1>10. QED
  BY <1>4, <1>5, <1>8, <1>9, Zenon DEF HeldInv

\* A copy that a move makes is a new file: no sweep has condemned it.
LEMMA HeldCopy ==
  ASSUME TypeOK, TypeOK', HeldInv, NEW n \in Node, NEW i \in 1..Redundancy, CopyChunk(n, i)
  PROVE  HeldInv'
<1> DEFINE copy == Copy(move[n].seen.version, i)
           d    == move[n].want[i]
<1>1. /\ move[n] # NoMove /\ move[n] \in Move
      /\ disk' = [disk EXCEPT ![d] = @ \cup {copy}]
      /\ doomed' = [doomed EXCEPT ![d] = @ \ {copy}]
      /\ move' = [move EXCEPT ![n].left = @ \ {i}]
      /\ UNCHANGED <<coded, manifest, view, page, fresh, agreed, sound>>
  BY Zenon DEF CopyChunk, history, TypeOK
<1>2. move'[n] = [move[n] EXCEPT !.left = @ \ {i}] /\ \A k \in Node \ {n} : move'[k] = move[k]
  BY <1>1 DEF TypeOK
<1>3. /\ move'[n].seen = move[n].seen /\ move'[n].want = move[n].want
      /\ move'[n].left = move[n].left \ {i}
  BY <1>1, <1>2 DEF Move
<1>4. copy[1] = move[n].seen.version
  BY Zenon DEF Copy
<1>5. i \in DOMAIN move[n].want => d \in Node
  BY <1>1 DEF Move
<1> HIDE DEF copy, d
<1>6. /\ \A e \in Node : disk'[e] = IF e = d THEN disk[e] \cup {copy} ELSE disk[e]
      /\ \A e \in Node : doomed'[e] = IF e = d THEN doomed[e] \ {copy} ELSE doomed[e]
  <2>1. DOMAIN disk = Node /\ DOMAIN doomed = Node
    BY Zenon DEF TypeOK
  <2>2. QED
    BY <1>1, <2>1, Zenon
<1>7. \A e \in Node : Condemned'[e] = IF e = d THEN Condemned[e] \ {copy} ELSE Condemned[e]
  <2>1. \A e \in Node : Condemned'[e] = doomed'[e] \ Named(e, page[e])
    <3>1. \A e \in Node : \A m : Named(e, m)' = Named(e, m)
      BY <1>1, NamedSame, Zenon
    <3>2. QED
      BY <1>1, <3>1, Zenon DEF Condemned
  <2>2. QED
    BY <1>6, <2>1, CondemnedDoomed, Zenon
<1>8. \A e \in Node : /\ doomed'[e] \subseteq doomed[e] /\ Condemned'[e] \subseteq Condemned[e]
                      /\ disk[e] \ Condemned[e] \subseteq disk'[e]
  <2> TAKE e \in Node
  <2>1. CASE e = d
    BY <1>6, <1>7, <2>1, Zenon
  <2>2. CASE e # d
    BY <1>6, <1>7, <2>2, Zenon
  <2>3. QED
    BY <2>1, <2>2, Zenon
<1>9. \A e \in Node : \A other \in disk'[e] : other[1] \notin fresh
  BY <1>1, <1>4, <1>6 DEF HeldInv, FreshUnwritten
<1>10. \A k \in Node : move'[k] # NoMove =>
        move[k] # NoMove /\ move'[k].seen = move[k].seen /\ move'[k].want = move[k].want
  BY <1>1, <1>2, <1>3, Zenon
<1>11. \A k \in Node : move'[k] # NoMove /\ agreed'[k] => agreed[k] /\ Agree(move[k], view')
  BY <1>1, <1>10, Zenon DEF HeldInv, MoveBrings
<1>12. \A k \in Node : move'[k] # NoMove =>
         \A j \in DOMAIN move[k].want \cap (move[k].left \ move'[k].left) :
           Copy(move[k].seen.version, j) \in disk'[move[k].want[j]] \ Condemned'[move[k].want[j]]
  <2>1. i \in DOMAIN move[n].want => copy \in disk'[d] \ Condemned'[d]
    <3>1. d \in Node => disk'[d] = disk[d] \cup {copy} /\ Condemned'[d] = Condemned[d] \ {copy}
      BY <1>6, <1>7, Zenon
    <3>2. QED
      BY <1>5, <3>1, Zenon
  <2>2. QED
    BY <1>2, <1>3, <2>1, Zenon DEF copy, d
<1>13. QED
  BY <1>1, <1>8, <1>9, <1>10, <1>11, <1>12, HeldQuiet, Zenon

\* Every step keeps HeldInv.
LEMMA HeldStep == ASSUME TypeOK, TypeOK', RevInv, RevInv', HeldInv, [Next]_vars PROVE HeldInv'
<1> DEFINE Calm == /\ UNCHANGED <<coded, manifest, fresh, sound>>
                   /\ \A n \in Node : move'[n] # NoMove =>
                        /\ move[n] # NoMove
                        /\ move'[n].seen = move[n].seen /\ move'[n].want = move[n].want
                        /\ move'[n].left = move[n].left
                        /\ agreed'[n] => agreed[n] /\ Agree(move[n], view')
                   /\ \A d \in Node : /\ doomed'[d] \subseteq doomed[d]
                                       /\ page'[d] \in {page[d], NoPage}
                                       /\ Condemned'[d] \subseteq Condemned[d]
                                       /\ disk[d] \ Condemned[d] \subseteq disk'[d]
                                       /\ disk'[d] \subseteq disk[d]
<1>1. Calm => HeldInv'
  BY HeldQuiet, Zenon DEF HeldInv, FreshUnwritten
<1>2. \A n \in Node : move[n] # NoMove /\ agreed[n] => Agree(move[n], view)
  BY Zenon DEF HeldInv, MoveBrings
<1>3. ASSUME NEW g \in Node, NEW x \in Version, NEW on \in SUBSET (1..Redundancy), Put(g, x, on)
      PROVE HeldInv'
  BY <1>3, HeldPut, Zenon
<1>4. ASSUME Delete PROVE HeldInv'
  <2>1. manifest' = NoManifest /\ UNCHANGED <<coded, view, disk, move, doomed, page, fresh, agreed, sound>>
    BY <1>4, Zenon DEF Delete, history
  <2>2. FreshUnwritten' /\ PageKnows' /\ NotCondemned' /\ HeldAtW'
    BY <2>1, Zenon DEF HeldInv, FreshUnwritten, PageKnows, NotCondemned, HeldAtW
  <2>3. MoveShape' /\ MoveBrings'
    <3>1. \A n \in Node : Live(n)' => Live(n)
      BY <2>1, Zenon DEF Live
    <3>2. QED
      BY <1>2, <2>1, <3>1, CondemnedSame, MovesKept, Zenon DEF HeldInv
  <2>4. QED
    BY <2>2, <2>3, Zenon DEF HeldInv
<1>5. ASSUME NEW n \in Node, NEW v \in Memberships, SetMembers(n, v) PROVE HeldInv'
  BY <1>5, HeldView, Zenon
<1>6. ASSUME NEW n \in Node, BeginMove(n) PROVE HeldInv'
  BY <1>6, HeldBegin, Zenon
<1>7. ASSUME NEW n \in Node, GatherShards(n) PROVE HeldInv'
  <2>1. /\ move[n] # NoMove /\ move[n] \in Move /\ move' = [move EXCEPT ![n].have = 1..Redundancy]
        /\ UNCHANGED <<coded, manifest, view, disk, doomed, page, fresh, agreed, sound>>
    BY <1>7, Zenon DEF GatherShards, history, TypeOK
  <2>2. move'[n] = [move[n] EXCEPT !.have = 1..Redundancy] /\ \A k \in Node \ {n} : move'[k] = move[k]
    <3>1. DOMAIN move = Node
      BY DEF TypeOK
    <3>2. move' = [k \in Node |-> IF k = n THEN [move[n] EXCEPT !.have = 1..Redundancy] ELSE move[k]]
      BY <2>1, <3>1, Zenon
    <3>3. QED
      BY <3>2, Zenon
  <2>3. /\ move'[n].seen = move[n].seen /\ move'[n].want = move[n].want
        /\ move'[n].left = move[n].left
    BY <2>1, <2>2 DEF Move
  <2>4. \A k \in Node : move'[k] # NoMove =>
          /\ move[k] # NoMove /\ move'[k].seen = move[k].seen /\ move'[k].want = move[k].want
          /\ move'[k].left = move[k].left
    BY <2>1, <2>2, <2>3, Zenon
  <2>5. QED
    BY <1>1, <1>2, <2>1, <2>4, CondemnedSame, Zenon
<1>8. ASSUME NEW n \in Node, NEW i \in 1..Redundancy, CopyChunk(n, i) PROVE HeldInv'
  BY <1>8, HeldCopy, Zenon
<1>9. ASSUME NEW n \in Node, move' = [move EXCEPT ![n] = NoMove],
             agreed' = [agreed EXCEPT ![n] = TRUE],
             UNCHANGED <<coded, manifest, view, disk, doomed, page, fresh, sound>>
      PROVE  HeldInv'
  <2>1. \A k \in Node : move'[k] # NoMove => k # n /\ move'[k] = move[k]
    BY <1>9, Zenon DEF TypeOK
  <2>2. \A k \in Node : k # n => agreed'[k] = agreed[k]
    BY <1>9, Zenon DEF TypeOK
  <2>3. QED
    BY <1>1, <1>2, <1>9, <2>1, <2>2, CondemnedSame, Zenon
<1>10. ASSUME NEW n \in Node, CommitMove(n) PROVE HeldInv'
  <2>1. CASE Live(n)
    BY <1>10, <2>1, HeldCommit, Zenon
  <2>2. CASE ~Live(n)
    BY <1>9, <1>10, <2>2, Zenon DEF CommitMove, Live
  <2>3. QED
    BY <2>1, <2>2, Zenon
<1>11. ASSUME NEW n \in Node, FailMove(n) PROVE HeldInv'
  BY <1>9, <1>11, Zenon DEF FailMove
<1>12. ASSUME NEW n \in Node, NEW aged \in SUBSET disk[n], ReadPage(n, aged) PROVE HeldInv'
  BY <1>12, HeldRead, Zenon
<1>13. ASSUME NEW n \in Node, Mark(n) PROVE HeldInv'
  <2>1. /\ UNCHANGED <<coded, manifest, view, disk, move, fresh, agreed, sound>>
        /\ doomed' = [doomed EXCEPT ![n] = @ \ Named(n, page[n])]
        /\ page' = [page EXCEPT ![n] = NoPage]
    BY <1>13, Zenon DEF Mark, history
  <2>2. \A d \in Node : /\ doomed'[d] = IF d = n THEN doomed[d] \ Named(d, page[d]) ELSE doomed[d]
                        /\ page'[d] = IF d = n THEN NoPage ELSE page[d]
    BY <2>1, Zenon DEF TypeOK
  <2>3. \A d \in Node : Condemned'[d] = doomed'[d] \ Named(d, page'[d])
    <3>1. \A d \in Node : \A m : Named(d, m)' = Named(d, m)
      BY <2>1, NamedSame, Zenon
    <3>2. QED
      BY <3>1, Zenon DEF Condemned
  <2>4. \A d \in Node : Condemned'[d] \subseteq Condemned[d]
    BY <2>2, <2>3, CondemnedDoomed
  <2>5. \A d \in Node : doomed'[d] \subseteq doomed[d] /\ page'[d] \in {page[d], NoPage}
    BY <2>2, Zenon
  <2>6. QED
    BY <1>1, <1>2, <2>1, <2>4, <2>5, Zenon
<1>14. ASSUME NEW n \in Node, Remove(n) PROVE HeldInv'
  <2>1. UNCHANGED <<coded, manifest, view, move, page, fresh, agreed, sound>> /\ page[n] = NoPage
    BY <1>14, Zenon DEF Remove, history
  <2>2. \A d \in Node : /\ doomed'[d] \subseteq doomed[d]
                        /\ disk[d] \ Condemned[d] \subseteq disk'[d]
                        /\ disk'[d] \subseteq disk[d]
    BY <1>14, CondemnedDoomed DEF Remove, TypeOK
  <2>3. \A d \in Node : Condemned'[d] = doomed'[d] \ Named(d, page[d])
    <3>1. \A d \in Node : \A m : Named(d, m)' = Named(d, m)
      BY <2>1, NamedSame, Zenon
    <3>2. QED
      BY <2>1, <3>1, Zenon DEF Condemned
  <2>4. \A d \in Node : Condemned'[d] \subseteq Condemned[d]
    BY <2>2, <2>3, CondemnedDoomed, Zenon
  <2>5. QED
    BY <1>1, <1>2, <2>1, <2>2, <2>4, Zenon
<1>15. CASE UNCHANGED vars
  BY <1>1, <1>2, <1>15, CondemnedSame, Zenon DEF vars, history
<1>16. QED
  BY <1>3, <1>4, <1>5, <1>6, <1>7, <1>8, <1>10, <1>11, <1>12, <1>13, <1>14, <1>15, Zenon DEF Next

\* An object that rebalanceObject moves stays on as many nodes of its manifest as a
\* write of it must reach, whatever the ring, the number of owners and the code: for
\* any number of moves at once, overwrites and deletes between their steps, and sweeps
\* on every node that read the manifest and their own ring at different times, as long
\* as the new owners of the moves that were committed agreed to them, and none changed
\* its mind before a sweep the commit had overtaken there was past the object.
THEOREM MovesKeepCopies == Spec => []HeldAtW
<1>1. Init => TypeOK /\ RevInv /\ HeldInv
  <2> SUFFICES ASSUME Init PROVE TypeOK /\ RevInv /\ HeldInv
    BY Zenon
  <2>1. TypeOK
    BY AbsenceAssumption, RingAssumption DEF Init, TypeOK
  <2>2. FreshUnwritten /\ PageKnows /\ MoveShape /\ MoveBrings /\ NotCondemned /\ HeldAtW
    BY Zenon DEF Init, FreshUnwritten, PageKnows, MoveShape, MoveBrings, NotCondemned, HeldAtW
  <2>3. QED
    BY <2>1, <2>2, RevStart, Zenon DEF HeldInv
<1>2. TypeOK /\ RevInv /\ HeldInv /\ [Next]_vars => TypeOK' /\ RevInv' /\ HeldInv'
  BY RevStep, TypeStep, HeldStep, Zenon
<1>3. HeldInv => HeldAtW
  BY Zenon DEF HeldInv
<1>4. QED
  BY <1>1, <1>2, <1>3, PTL DEF Spec
=============================================================================
