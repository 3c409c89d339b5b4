----------------------------- MODULE Rebalance -----------------------------
(***************************************************************************)
(* Moving an object onto the nodes the ring now gives it, while clients    *)
(* overwrite and delete it, nodes disagree about the membership, several   *)
(* nodes think the move is theirs, and every node's sweep deletes what     *)
(* neither the manifest nor its own ring gives it.                         *)
(*                                                                         *)
(* One object key; a version stands for the chunks of one write of it, on   *)
(* every owner alike or, where the cluster codes its chunks, as shards that *)
(* each belong to one position among the owners.  The write path is         *)
(* Collection's subject: here a write places its copies and commits in one  *)
(* step.                                                                    *)
(***************************************************************************)
EXTENDS Integers, Sequences, FiniteSets

CONSTANTS Node, Version,
          Walk,         \* per membership, its nodes as they are met round the ring from the key
          Replicas,     \* how many nodes a replicated object belongs on
          W,            \* the write quorum
          Data, Parity, \* the shards of a coded chunk
          Starts,       \* the versions there may be, of an object coded or not
          Memberships,  \* the memberships that etcd may report
          MaxRevision,  \* bound on the commits under the key
          MaxSweeps,    \* bound on the sweeps under way at once
          NoManifest, NoMove, NoPage

Distinct(s) == \A i, j \in DOMAIN s : s[i] = s[j] => i = j

\* The walk passes over a node it has met.
ASSUME RingAssumption ==
  /\ Walk \in [SUBSET Node -> Seq(Node)]
  /\ \A v \in SUBSET Node : Distinct(Walk[v])
  /\ Replicas \in Nat \ {0} /\ W \in 1..Replicas
  /\ Data \in Nat \ {0} /\ Parity \in Nat
  /\ Starts \subseteq [coded : BOOLEAN, versions : SUBSET Version]
  /\ Memberships \subseteq SUBSET Node
  /\ MaxRevision \in Nat /\ MaxSweeps \in Nat

VARIABLES coded,     \* the cluster codes its chunks
          manifest,  \* the key's manifest and its revision in etcd
          revision,  \* commits under the key so far
          latest,    \* history: the version a client last put there
          view,      \* per node, the members it knows of
          disk,      \* per node, the copies it holds: <<version, position or 0>>
          move,      \* per node, the move it is making
          doomed,    \* per node, what its sweep may yet remove
          page,      \* per node, the manifest its sweep has read and not yet gone through
          fresh,     \* the versions not yet written
          agreed,    \* history: per node, its move's new owners have all along agreed to it
          sound      \* history: the manifest is a client's, only such moves have changed it,
                     \* and no ring has changed under a sweep that they overtook

history == <<agreed, sound>>
vars == <<coded, manifest, revision, latest, view, disk, move, doomed, page, fresh,
          history>>

Manifest == [version : Version, nodes : Seq(Node), rev : 1..MaxRevision]

\* have: the shards at hand.  left: the positions still to be copied.
Move == [seen : Manifest, want : Seq(Node), have : SUBSET Nat, left : SUBSET Nat]

ASSUME AbsenceAssumption == /\ NoManifest \notin Version \cup Manifest
                            /\ NoMove \notin Move
                            /\ NoPage \notin Manifest \cup {NoManifest}

Least(i, j) == IF i <= j THEN i ELSE j

\* redundancy: how many owners an object has.
Redundancy == IF coded THEN Data + Parity ELSE Replicas

\* replicate and encode: how many of them must have taken their copy or shard.
Quorum == IF coded THEN Least(Data + 1, Data + Parity) ELSE W

\* ring.Owners: the first members met on the way round.
Owners(v) == SubSeq(Walk[v], 1, Least(Redundancy, Len(Walk[v])))

\* ShardID: every owner has the same copy, or each the shard of its own position.
Copy(x, i) == <<x, IF coded THEN i ELSE 0>>

PositionsOf(nodes, n) == {i \in DOMAIN nodes : nodes[i] = n}

Copies == Version \X (0..(Data + Parity))

Init == /\ \E s \in Starts : coded = s.coded /\ fresh = s.versions
        /\ manifest = NoManifest
        /\ revision = 0
        /\ latest = NoManifest
        /\ \E v \in Memberships : view = [n \in Node |-> v \cup {n}]
        /\ disk = [n \in Node |-> {}]
        /\ move = [n \in Node |-> NoMove]
        /\ doomed = [n \in Node |-> {}]
        /\ page = [n \in Node |-> NoPage]
        /\ agreed = [n \in Node |-> TRUE]
        /\ sound = TRUE

-----------------------------------------------------------------------------
\* Put through gateway g: a fresh version on at least a quorum of the owners, all of
\* which a code needs to have.
Put(g, x, on) ==
  LET owners == Owners(view[g])
  IN  /\ x \in fresh
      /\ revision < MaxRevision
      /\ coded => Len(owners) = Redundancy
      /\ on \subseteq DOMAIN owners
      /\ Cardinality(on) >= Quorum
      /\ fresh' = fresh \ {x}
      /\ disk' = [n \in Node |-> disk[n] \cup {Copy(x, i) : i \in on \cap PositionsOf(owners, n)}]
      /\ revision' = revision + 1
      /\ manifest' = [version |-> x, nodes |-> owners, rev |-> revision']
      /\ latest' = x
      /\ sound' = TRUE
      /\ UNCHANGED <<coded, view, move, doomed, page, agreed>>

Delete ==
  /\ manifest # NoManifest
  /\ manifest' = NoManifest
  /\ latest' = NoManifest
  /\ UNCHANGED <<coded, revision, view, disk, move, doomed, page, fresh, history>>

\* moveShards and copyToNewOwners: what a move has to copy.  Any owner may hold a
\* copy; a shard belongs to its position.
Missing(nodes, want) ==
  {i \in DOMAIN want : IF coded THEN i \notin PositionsOf(nodes, want[i])
                                ELSE PositionsOf(nodes, want[i]) = {}}

\* The new owners of a move each count what it brings as theirs, going by their own
\* view.
Agree(m, views) ==
  \A i \in Missing(m.seen.nodes, m.want) :
    LET d == m.want[i]
    IN  Copy(0, i) \in {Copy(0, j) : j \in PositionsOf(Owners(views[d]), d)}

\* The object has been moved since the sweep of node n read its manifest.
MovedSince(n) == /\ page[n] \notin {NoPage, NoManifest} /\ manifest # NoManifest
                 /\ page[n].version = manifest.version
                 /\ page[n].nodes # manifest.nodes

\* A possible bug: a node that etcd does not report drops out of its own view.
SetMembersAsTold(n, v) ==
  /\ v # view[n]
  /\ view' = [view EXCEPT ![n] = v]
  /\ agreed' = [m \in Node |-> agreed[m] /\ (move[m] = NoMove \/ Agree(move[m], view'))]
  /\ sound' = (sound /\ ~MovedSince(n))
  /\ UNCHANGED <<coded, manifest, revision, latest, disk, move, doomed, page, fresh>>

\* SetMembers: each node hears of a change in its own time, and is always in its own
\* view.
SetMembers(n, v) ==
  /\ v \cup {n} # view[n]
  /\ view' = [view EXCEPT ![n] = v \cup {n}]
  /\ agreed' = [m \in Node |-> agreed[m] /\ (move[m] = NoMove \/ Agree(move[m], view'))]
  /\ sound' = (sound /\ ~MovedSince(n))
  /\ UNCHANGED <<coded, manifest, revision, latest, disk, move, doomed, page, fresh>>

-----------------------------------------------------------------------------
\* rebalanceObject, its decision: node n is the first owner in its own view, the
\* object is not where that view puts it, and the cluster is large enough.
BeginMove(n) ==
  LET want == Owners(view[n])
  IN  /\ move[n] = NoMove
      /\ revision < MaxRevision
      /\ manifest # NoManifest
      /\ Walk[view[n]][1] = n
      /\ Len(want) >= Len(manifest.nodes)
      /\ want # manifest.nodes
      /\ move' = [move EXCEPT ![n] = [seen |-> manifest, want |-> want, have |-> {},
                                      left |-> Missing(manifest.nodes, want)]]
      /\ agreed' = [agreed EXCEPT ![n] = Agree(move'[n], view)]
      /\ UNCHANGED <<coded, manifest, revision, latest, view, disk, doomed, page, fresh, sound>>

\* The owners of a manifest that have what it says they hold.
Holding(m) == {i \in DOMAIN m.nodes : Copy(m.version, i) \in disk[m.nodes[i]]}

\* restoreShards: enough of the old owners' shards make all of them.
GatherShards(n) ==
  /\ move[n] # NoMove
  /\ coded
  /\ move[n].left # {} /\ move[n].have = {}
  /\ Cardinality(Holding(move[n].seen)) >= Data
  /\ move' = [move EXCEPT ![n].have = 1..Redundancy]
  /\ UNCHANGED <<coded, manifest, revision, latest, view, disk, doomed, page, fresh, history>>

\* copyChunk: the copy of a node the manifest names, or storeShard, a shard at hand,
\* onto a new owner, where it is a new file: newer than the cutoff of any sweep under
\* way there.
CopyChunk(n, i) ==
  LET copy == Copy(move[n].seen.version, i)
      d    == move[n].want[i]
  IN  /\ move[n] # NoMove
      /\ i \in move[n].left
      /\ IF coded THEN i \in move[n].have ELSE Holding(move[n].seen) # {}
      /\ disk' = [disk EXCEPT ![d] = @ \cup {copy}]
      /\ doomed' = [doomed EXCEPT ![d] = @ \ {copy}]
      /\ move' = [move EXCEPT ![n].left = @ \ {i}]
      /\ UNCHANGED <<coded, manifest, revision, latest, view, page, fresh, history>>

\* A possible bug: the commit does not ask whether the manifest is still the same.
CommitMoveAnyway(n) ==
  /\ move[n] # NoMove
  /\ move[n].left = {}
  /\ revision < MaxRevision
  /\ manifest' = [version |-> move[n].seen.version, nodes |-> move[n].want, rev |-> revision + 1]
  /\ revision' = revision + 1
  /\ move' = [move EXCEPT ![n] = NoMove]
  /\ UNCHANGED <<coded, latest, view, disk, doomed, page, fresh, history>>

\* CommitIfUnchanged: the manifest that was read with its new placement, if the key
\* is still at the revision it was read at.
CommitMove(n) ==
  /\ move[n] # NoMove
  /\ move[n].left = {}
  /\ revision < MaxRevision
  /\ IF manifest # NoManifest /\ manifest.rev = move[n].seen.rev
     THEN /\ manifest' = [version |-> move[n].seen.version, nodes |-> move[n].want,
                          rev |-> revision + 1]
          /\ revision' = revision + 1
          /\ sound' = (sound /\ agreed[n])
     ELSE UNCHANGED <<manifest, revision, sound>>
  /\ move' = [move EXCEPT ![n] = NoMove]
  /\ agreed' = [agreed EXCEPT ![n] = TRUE]
  /\ UNCHANGED <<coded, latest, view, disk, doomed, page, fresh>>

\* A copy failed, etcd did, or the node died: nothing is committed.
FailMove(n) ==
  /\ move[n] # NoMove
  /\ move' = [move EXCEPT ![n] = NoMove]
  /\ agreed' = [agreed EXCEPT ![n] = TRUE]
  /\ UNCHANGED <<coded, manifest, revision, latest, view, disk, doomed, page, fresh, sound>>

-----------------------------------------------------------------------------
Sweeping == {n \in Node : page[n] # NoPage \/ doomed[n] # {}}

\* Collect on node n: the cutoff is fixed, and then the manifest is read.  Nothing
\* between the two makes a file older than the cutoff, so they are one step; which of
\* its files the node has had for the grace period is left open.
ReadPage(n, aged) ==
  /\ n \notin Sweeping
  /\ Cardinality(Sweeping) < MaxSweeps
  /\ aged # {}
  /\ doomed' = [doomed EXCEPT ![n] = aged]
  /\ page' = [page EXCEPT ![n] = manifest]
  /\ UNCHANGED <<coded, manifest, revision, latest, view, disk, move, fresh, history>>

\* A possible bug: the sweep goes by the manifest alone.
NamedByManifest(n, m) ==
  IF m \in {NoManifest, NoPage} THEN {}
  ELSE {Copy(m.version, i) : i \in PositionsOf(m.nodes, n)}

\* reference: what the manifest that was read, or this node's own ring, says it holds.
Named(n, m) ==
  IF m \in {NoManifest, NoPage} THEN {}
  ELSE {Copy(m.version, i) : i \in PositionsOf(m.nodes, n) \cup PositionsOf(Owners(view[n]), n)}

\* Collect, gone through the page with the ring of this moment: what is not named is
\* garbage.
Mark(n) ==
  /\ page[n] # NoPage
  /\ doomed' = [doomed EXCEPT ![n] = @ \ Named(n, page[n])]
  /\ page' = [page EXCEPT ![n] = NoPage]
  /\ UNCHANGED <<coded, manifest, revision, latest, view, disk, move, fresh, history>>

\* It is removed, or the sweep stops on an error.
Remove(n) ==
  /\ page[n] = NoPage
  /\ doomed[n] # {}
  /\ \/ disk' = [disk EXCEPT ![n] = @ \ doomed[n]]
     \/ UNCHANGED disk
  /\ doomed' = [doomed EXCEPT ![n] = {}]
  /\ UNCHANGED <<coded, manifest, revision, latest, view, move, page, fresh, history>>

Next ==
  \/ \E g \in Node, x \in Version, on \in SUBSET (1..Redundancy) : Put(g, x, on)
  \/ Delete
  \/ \E n \in Node : \/ \E v \in Memberships : SetMembers(n, v)
                     \/ BeginMove(n) \/ GatherShards(n) \/ CommitMove(n) \/ FailMove(n)
                     \/ \E i \in 1..Redundancy : CopyChunk(n, i)
                     \/ \E aged \in SUBSET disk[n] : ReadPage(n, aged)
                     \/ Mark(n) \/ Remove(n)

Spec == Init /\ [][Next]_vars

-----------------------------------------------------------------------------
\* The manifest, every node's view, disk and move have their types; a node always
\* counts itself a member, as SetMembers sees to.
TypeOK == /\ coded \in BOOLEAN
          /\ manifest \in Manifest \cup {NoManifest}
          /\ revision \in 0..MaxRevision
          /\ latest \in Version \cup {NoManifest}
          /\ view \in [Node -> SUBSET Node]
          /\ \A n \in Node : n \in view[n]
          /\ disk \in [Node -> SUBSET Copies]
          /\ move \in [Node -> Move \cup {NoMove}]
          /\ doomed \in [Node -> SUBSET Copies]
          /\ page \in [Node -> Manifest \cup {NoManifest, NoPage}]
          /\ fresh \in SUBSET Version
          /\ agreed \in [Node -> BOOLEAN]
          /\ sound \in BOOLEAN

\* A move never brings back a version that a client has overwritten or deleted,
\* however long it took and whatever was done to the key meanwhile.
NewestServed == IF manifest = NoManifest THEN latest = NoManifest
                                         ELSE latest = manifest.version

\* The object is on W of the nodes its manifest names, or one shard more than it can
\* be read from is where its manifest says, before, during and after every move of it
\* whose new owners, each by its own view of the membership, agreed to it from its
\* beginning to its commit, and until a sweep that had read the manifest before that
\* commit has gone through it: until then nothing but a new owner's own ring keeps its
\* sweep from the copy.
HeldAtW == manifest # NoManifest /\ sound => Cardinality(Holding(manifest)) >= Quorum
=============================================================================
