-------------------------- MODULE CollectionProofs --------------------------
(***************************************************************************)
(* Proofs about Collection for every set of nodes, writes and keys, every  *)
(* quorum and every ring.  An acknowledged write is never lost to          *)
(* collection: Durable, InFlightHeld and OnlyGarbageRemoved, as long as    *)
(* the grace period covers the tail of a write that takes out no record;   *)
(* and the refinement of ObjectStore.                                      *)
(*                                                                         *)
(* Leaves without arithmetic name Zenon, which is the faster on them.      *)
(***************************************************************************)
EXTENDS Refinement, TLAPS

USE BoundAssumption, QuorumAssumption

\* Chunk i of the write is fsynced by the node, and acknowledged only if it is in hand.
StoredBy(w, n, i) ==
  /\ disk' = [disk EXCEPT ![n] = @ \cup {<<w, i>>}]
  /\ aged' = [aged EXCEPT ![n] = @ \ {<<w, i>>}]
  /\ eligible' = [eligible EXCEPT ![n] = @ \ {<<w, i>>}]
  /\ acks' = acks \/ (i = stored[w] + 1 /\ acks' = [acks EXCEPT ![w] = @ \cup {n}])

\* A push lands as one chunk of those begun.
LEMMA ChunkLands ==
  ASSUME NEW w, NEW n, StoreChunk(w, n) PROVE \E i \in 1..pushed[w] : StoredBy(w, n, i)
BY Zenon DEF StoreChunk, StoredBy

\* One step of the write path, of a pass or of the environment keeps every
\* variable's type.
LEMMA TypeStep == ASSUME TypeOK, [Next]_vars PROVE TypeOK'
<1>1. ASSUME NEW w \in Write, NEW n \in Gateways, NEW k \in Key, BeginWrite(w, n, k)
      PROVE TypeOK'
  <2>1. n \in Node /\ view[n] \in SUBSET Node
    BY NodeAssumption, Zenon DEF TypeOK
  <2>2. Owners(k, view[n]) \in SUBSET Node
    BY <2>1, OwnersAssumption, Zenon
  <2>3. QED
    BY <1>1, <2>1, <2>2, Zenon DEF TypeOK, PcValues, BeginWrite, etcdVars, diskVars, passVars
<1>2. ASSUME NEW w \in Write, MarkWriting(w) PROVE TypeOK'
  <2>1. pc' \in [Write -> PcValues]
    <3>1. pc \in [Write -> PcValues]
      BY Zenon DEF TypeOK
    <3>2. QED
      BY <1>2, <3>1, Zenon DEF MarkWriting, PcValues
  <2>2. pushed' \in [Write -> 0..MaxChunks]
    <3>1. pushed \in [Write -> 0..MaxChunks] /\ 1 \in 0..MaxChunks
      BY DEF TypeOK
    <3>2. QED
      BY <1>2, <3>1, Zenon DEF MarkWriting
  <2>3. record' \in [Write -> Node \cup {NoNode}]
    BY <1>2, Zenon DEF TypeOK, MarkWriting
  <2>4. announced' \in [Write -> BOOLEAN]
    BY <1>2, Zenon DEF TypeOK, MarkWriting
  <2>5. QED
    BY <1>2, <2>1, <2>2, <2>3, <2>4, Zenon DEF TypeOK, MarkWriting, diskVars, passVars
<1>3. ASSUME NEW w \in Write, ShortBody(w) \/ EmptyBody(w) PROVE TypeOK'
  <2>1. CASE ShortBody(w)
    BY <2>1 DEF TypeOK, PcValues, ShortBody, etcdVars, diskVars, passVars
  <2>2. CASE EmptyBody(w)
    BY <2>2, Zenon DEF TypeOK, PcValues, EmptyBody, etcdVars, diskVars, passVars
  <2>3. QED
    BY <1>3, <2>1, <2>2, Zenon
<1>4. ASSUME NEW w \in Write, NEW n \in Node, StoreChunk(w, n) PROVE TypeOK'
  <2>1. PICK i \in 1..pushed[w] : StoredBy(w, n, i)
    BY <1>4, ChunkLands
  <2>2. <<w, i>> \in Chunk
    <3>1. i \in 1..MaxChunks
      BY <2>1, BoundAssumption DEF TypeOK
    <3>2. QED
      BY <3>1, Zenon DEF Chunk
  <2>3. acks' = [acks EXCEPT ![w] = @ \cup {n}] \/ acks' = acks
    BY <1>4, Zenon DEF TypeOK, StoreChunk
  <2>4. acks' \in [Write -> SUBSET Node]
    <3>1. acks \in [Write -> SUBSET Node]
      BY Zenon DEF TypeOK
    <3>2. CASE acks' = acks
      BY <3>1, <3>2, Zenon
    <3>3. CASE acks' = [acks EXCEPT ![w] = @ \cup {n}]
      BY <3>1, <3>3, Zenon
    <3>4. QED
      BY <2>3, <3>2, <3>3, Zenon
  <2>5. disk' \in [Node -> SUBSET Chunk]
    <3>1. disk \in [Node -> SUBSET Chunk]
      BY Zenon DEF TypeOK
    <3>2. disk' = [disk EXCEPT ![n] = @ \cup {<<w, i>>}]
      BY <2>1, Zenon DEF StoredBy
    <3>3. QED
      BY <3>1, <3>2, <2>2, Zenon
  <2>6. aged' \in [Node -> SUBSET Chunk]
    BY <2>1, Zenon DEF TypeOK, StoredBy
  <2>7. eligible' \in [Node -> SUBSET Chunk]
    BY <2>1, Zenon DEF TypeOK, StoredBy
  <2>8. QED
    BY <1>4, <2>4, <2>5, <2>6, <2>7, Zenon DEF TypeOK, PcValues, StoreChunk, etcdVars
<1>5. ASSUME NEW w \in Write, ChunkReplicated(w) PROVE TypeOK'
  <2>1. pc' \in [Write -> PcValues]
    <3>1. pc \in [Write -> PcValues]
      BY Zenon DEF TypeOK
    <3>2. QED
      BY <1>5, <3>1, Zenon DEF ChunkReplicated, PcValues
  <2>2. stored' \in [Write -> 0..MaxChunks]
    BY <1>5 DEF TypeOK, ChunkReplicated
  <2>3. pushed' \in [Write -> 0..MaxChunks]
    BY <1>5 DEF TypeOK, ChunkReplicated
  <2>4. QED
    BY <1>5, <2>1, <2>2, <2>3, Zenon DEF TypeOK, PcValues, ChunkReplicated, etcdVars, diskVars, passVars
<1>6. ASSUME NEW w \in Write, FailWrite(w) PROVE TypeOK'
  BY <1>6, Zenon DEF TypeOK, PcValues, FailWrite, etcdVars, diskVars, passVars
<1>7. ASSUME NEW w \in Write, Commit(w) PROVE TypeOK'
  <2>1. [write |-> w, size |-> stored[w], nodes |-> owners[w]] \in Manifest
    BY Zenon DEF TypeOK, Manifest
  <2>2. manifest' \in [Key -> Manifest \cup {NoManifest}]
    BY <1>7, <2>1, Zenon DEF TypeOK, PcValues, Commit
  <2>3. pc' \in [Write -> PcValues]
    <3>1. pc \in [Write -> PcValues]
      BY Zenon DEF TypeOK
    <3>2. QED
      BY <1>7, <3>1, Zenon DEF Commit, PcValues
  <2>4. QED
    BY <1>7, <2>2, <2>3, Zenon DEF TypeOK, PcValues, Commit, diskVars, passVars
<1>8. ASSUME NEW w \in Write, StopWriting(w) PROVE TypeOK'
  <2>1. pc' \in [Write -> PcValues]
    <3>1. pc \in [Write -> PcValues]
      BY Zenon DEF TypeOK
    <3>2. QED
      BY <1>8, <3>1, Zenon DEF StopWriting, PcValues
  <2>2. record' \in [Write -> Node \cup {NoNode}]
    BY <1>8, Zenon DEF TypeOK, PcValues, StopWriting
  <2>3. QED
    BY <1>8, <2>1, <2>2, Zenon DEF TypeOK, PcValues, StopWriting, diskVars, passVars
<1>9. ASSUME NEW k \in Key, Delete(k) PROVE TypeOK'
  BY <1>9, Zenon DEF TypeOK, PcValues, Delete, diskVars, writeVars, passVars
<1>10. ASSUME NEW n \in Node, NEW v \in SUBSET Node, SetMembers(n, v) PROVE TypeOK'
  BY <1>10, Zenon DEF TypeOK, PcValues, SetMembers, etcdVars, diskVars, writeVars, passVars
<1>11. ASSUME NEW n \in Node, NEW c \in Chunk, Age(n, c) PROVE TypeOK'
  BY <1>11, Zenon DEF TypeOK, PcValues, Age, etcdVars, writeVars, passVars
<1>12. ASSUME NEW n \in Node, Crash(n) PROVE TypeOK'
  BY <1>12 DEF TypeOK, PcValues, Crash, EndPass, etcdVars, diskVars
<1>13. ASSUME NEW n \in Node, NextSlice(n) PROVE TypeOK'
  <2>1. cursor \in [Node -> Slice] /\ (cursor[n] + 1) % NumSlices \in Slice
    BY SliceAssumption DEF TypeOK, Slice
  <2>2. cursor' \in [Node -> Slice] /\ slice' \in [Node -> Slice]
    BY <1>13, <2>1, Zenon DEF TypeOK, NextSlice, BeginPass
  <2>3. eligible' \in [Node -> SUBSET Chunk]
    BY <1>13, Zenon DEF TypeOK, NextSlice, BeginPass
  <2>4. QED
    BY <1>13, <2>2, <2>3, Zenon DEF TypeOK, NextSlice, BeginPass, diskVars, writeVars
<1>14. ASSUME NEW n \in Node, WritesInFlight(n) PROVE TypeOK'
  BY <1>14, Zenon DEF TypeOK, PcValues, WritesInFlight, etcdVars, diskVars, writeVars
<1>15. ASSUME NEW n \in Node, NEW w \in Write, DropRecord(n, w) PROVE TypeOK'
  BY <1>15, Zenon DEF TypeOK, PcValues, DropRecord, diskVars, writeVars
<1>16. ASSUME NEW n \in Node, ScanObject(n) PROVE TypeOK'
  <2>1. at[n] \in Key /\ at[n] + 1 \in 1..(NumKeys + 1)
    BY <1>16 DEF TypeOK, PcValues, ScanObject, Key
  <2>2. manifest[at[n]] \in Manifest \cup {NoManifest}
    BY <2>1, Zenon DEF TypeOK
  <2>3. NamedHere(n, at[n], manifest[at[n]]) \subseteq Chunk
    BY <2>2 DEF TypeOK, PcValues, NamedHere, ChunksOf, Chunk, Manifest
  <2>4. QED
    BY <1>16, <2>1, <2>3, Zenon DEF TypeOK, PcValues, ScanObject, etcdVars, diskVars, writeVars
<1>17. ASSUME NEW n \in Node, NEW c \in Chunk, RemoveChunk(n, c) PROVE TypeOK'
  BY <1>17, Zenon DEF TypeOK, PcValues, RemoveChunk, etcdVars, writeVars
<1>18. ASSUME NEW n \in Node, EndCollect(n) \/ FailCollect(n) PROVE TypeOK'
  <2>1. EndPass(n) /\ UNCHANGED <<etcdVars, diskVars, view, writeVars>>
    BY <1>18, Zenon DEF TypeOK, PcValues, EndCollect, FailCollect
  <2>2. faults' \in Nat
    BY <1>18 DEF TypeOK, PcValues, EndCollect, FailCollect
  <2>3. QED
    BY <2>1, <2>2 DEF TypeOK, PcValues, EndPass, etcdVars, diskVars, writeVars
<1>19. CASE UNCHANGED vars
  BY <1>19, Zenon DEF TypeOK, PcValues, vars, etcdVars, diskVars, writeVars, passVars
<1>20. QED
  BY <1>1, <1>2, <1>3, <1>4, <1>5, <1>6, <1>7, <1>8, <1>9, <1>10, <1>11, <1>12, <1>13,
     <1>14, <1>15, <1>16, <1>17, <1>18, <1>19, NodeAssumption, Zenon DEF Next, WriteStep, PassStep

\* The initial values have their types.
LEMMA TypeInit == ASSUME Init PROVE TypeOK
BY NodeAssumption, SliceAssumption DEF Init, TypeOK, PcValues, Slice, Key

\* Every variable keeps its type through every step of the write path, of the
\* passes and of the environment.
THEOREM TypeCorrect == Spec => []TypeOK
<1>1. TypeOK /\ [Next]_vars => TypeOK'
  BY TypeStep, Zenon
<1>2. QED
  BY TypeInit, <1>1, PTL DEF Spec

-----------------------------------------------------------------------------
(***************************************************************************)
(* The first half of the inductive invariant, Durable and InFlightHeld: a  *)
(* sweep takes nothing that a manifest names or a write will commit.       *)
(***************************************************************************)

\* What the type invariant says of a node's pass and its disk.
LEMMA NodeTypes ==
  ASSUME TypeOK, NEW n \in Node
  PROVE  /\ disk[n] \subseteq Chunk /\ aged[n] \subseteq Chunk /\ eligible[n] \subseteq Chunk
         /\ at[n] \in Nat
BY BoundAssumption DEF TypeOK

\* A chunk belongs to a write.
LEMMA ChunkWrite == ASSUME NEW c \in Chunk PROVE c[1] \in Write
BY Zenon DEF Chunk

\* A manifest names the chunks of its own write only.
LEMMA OwnChunks ==
  ASSUME NEW w, NEW s, NEW o, NEW c \in ChunksOf([write |-> w, size |-> s, nodes |-> o])
  PROVE  c[1] = w
BY Zenon DEF ChunksOf

\* Keys are numbered from one.
LEMMA KeyTypes == ASSUME NEW k \in Key PROVE k \in Nat /\ k >= 1
BY BoundAssumption DEF Key

\* The whole effect of dropping one stale record.
LEMMA DropEffect ==
  ASSUME TypeOK, NEW n \in Node, NEW w \in Write, DropRecord(n, w)
  PROVE  /\ record'[w] = NoNode /\ stale'[n] = stale[n] \ {w}
         /\ phase[n] = "marking" /\ writing'[n] = writing[n]
<1>1. record \in [Write -> Node \cup {NoNode}] /\ stale \in [Node -> SUBSET Write]
  BY Zenon DEF TypeOK
<1>2. QED
  BY <1>1, Zenon DEF DropRecord

\* After a key the scan has passed comes the next.
LEMMA NextKey == ASSUME NEW k \in Nat, NEW a \in Nat, k >= a, k # a PROVE k >= a + 1
OBVIOUS

\* A pass that has read the records counts every write that has one.
LEMMA RecordsRead ==
  ASSUME TypeOK, NEW n \in Node, WritesInFlight(n), NEW w \in Write, record[w] # NoNode
  PROVE  w \in writing'[n] \/ w \in stale'[n]
<1>1. writing \in [Node -> SUBSET Write] /\ stale \in [Node -> SUBSET Write]
  BY Zenon DEF TypeOK
<1>2. QED
  BY <1>1, Zenon DEF WritesInFlight

\* The whole effect of reading one manifest.
LEMMA ScanEffect ==
  ASSUME TypeOK, NEW n \in Node, ScanObject(n)
  PROVE  /\ phase[n] = "marking" /\ UNCHANGED <<manifest, writing>>
         /\ at'[n] = at[n] + 1
         /\ referenced'[n] = referenced[n] \cup NamedHere(n, at[n], manifest[at[n]])
<1>1. at \in [Node -> 1..(NumKeys + 1)] /\ referenced \in [Node -> SUBSET Chunk]
  BY Zenon DEF TypeOK
<1>2. QED
  BY <1>1, Zenon DEF ScanObject, etcdVars

\* A pass deletes only what no manifest names here and what no write in flight
\* could still commit.
LEMMA SweptIsGarbage ==
  ASSUME IndInv, NEW n \in Node, NEW c \in Chunk, RemoveChunk(n, c)
  PROVE  /\ ~Committable(c[1])
         /\ \A k \in Key : manifest[k] # NoManifest /\ n \in manifest[k].nodes
                             => c \notin ChunksOf(manifest[k])
<1>1. /\ phase[n] = "marking" /\ stale[n] = {} /\ at[n] = NumKeys + 1
      /\ c \in eligible[n] /\ c \notin referenced[n] /\ c[1] \notin writing[n]
  BY Zenon DEF RemoveChunk, ScanDone, Sweepable
<1>2. ~Committable(c[1])
  BY <1>1, Zenon DEF IndInv, MarkIsComplete
<1>3. ASSUME NEW k \in Key, manifest[k] # NoManifest, n \in manifest[k].nodes,
             c \in ChunksOf(manifest[k])
      PROVE FALSE
  <2>1. k >= at[n]
    BY <1>1, <1>3, Zenon DEF IndInv, MarkIsComplete
  <2>2. QED
    BY <1>1, <2>1, BoundAssumption DEF Key
<1>4. QED
  BY <1>2, <1>3, Zenon

\* Every copy that was on a disk and that this step does not sweep is still there.
LEMMA OnlySweepsDelete ==
  ASSUME TypeOK, [Next]_vars
  PROVE  \/ \A n \in Node : disk[n] \subseteq disk'[n]
         \/ \E n \in Node, c \in Chunk : RemoveChunk(n, c)
<1>1. ASSUME NEW w \in Write, NEW n \in Node, StoreChunk(w, n)
      PROVE \A m \in Node : disk[m] \subseteq disk'[m]
  <2>1. PICK i \in 1..pushed[w] : StoredBy(w, n, i)
    BY <1>1, ChunkLands
  <2>2. QED
    BY <2>1, Zenon DEF TypeOK, StoredBy
<1>2. ASSUME NEW w \in Write, WriteStep(w), \A n \in Node : ~StoreChunk(w, n)
      PROVE UNCHANGED disk
  BY <1>2, Zenon DEF WriteStep, BeginWrite, MarkWriting, ShortBody, EmptyBody, ChunkReplicated, FailWrite,
              Commit, StopWriting, diskVars
<1>3. ASSUME NEW n \in Collectors, PassStep(n) \/ FailCollect(n),
             \A c \in Chunk : ~RemoveChunk(n, c)
      PROVE UNCHANGED disk
  BY <1>3, Zenon DEF PassStep, NextSlice, BeginPass, WritesInFlight, DropRecord, ScanObject, EndCollect,
              FailCollect, diskVars
<1>4. ASSUME \/ \E k \in Key : Delete(k)
             \/ \E n \in Node : Crash(n)
             \/ \E n \in Node : \E v \in Memberships : SetMembers(n, v)
             \/ \E n \in Node : \E c \in Chunk : Age(n, c)
             \/ UNCHANGED vars
      PROVE UNCHANGED disk
  BY <1>4, Zenon DEF Delete, Crash, SetMembers, Age, diskVars, vars
<1>5. QED
  BY <1>1, <1>2, <1>3, <1>4, NodeAssumption, Zenon DEF Next

\* What is on a quorum stays there, unless a pass sweeps it from a node that the
\* quorum may count.
LEMMA HeldStays ==
  ASSUME IndInv, [Next]_vars, NEW c \in Chunk, NEW nodes \in SUBSET Node,
         HeldByQuorum(c, nodes),
         \A n \in nodes : ~RemoveChunk(n, c)
  PROVE  \E q \in SUBSET nodes : Cardinality(q) >= W /\ \A n \in q : c \in disk'[n]
<1>1. PICK q \in SUBSET nodes : Cardinality(q) >= W /\ \A n \in q : c \in disk[n]
  BY Zenon DEF HeldByQuorum
<1>2. ASSUME NEW n \in q PROVE c \in disk'[n]
  <2>1. CASE \A m \in Node : disk[m] \subseteq disk'[m]
    BY <1>1, <2>1, Zenon
  <2>2. ASSUME NEW m \in Node, NEW d \in Chunk, RemoveChunk(m, d) PROVE c \in disk'[n]
    BY Zenon, <1>1, <2>2 DEF RemoveChunk, IndInv, TypeOK
  <2>3. QED
    BY <2>1, <2>2, OnlySweepsDelete, Zenon DEF IndInv
<1>3. QED
  BY <1>1, <1>2, Zenon

\* A chunk of a write that has begun to push can only be lost to the write's
\* commit, never gained: what Committable allows, only the first step out of
\* "begun" can allow anew.
LEMMA CommittableShrinks ==
  ASSUME IndInv, [Next]_vars, NEW w \in Write, Committable(w)'
  PROVE  \/ pc[w] = "begun" /\ (MarkWriting(w) \/ ShortBody(w) \/ EmptyBody(w))
         \/ Committable(w) /\ announced'[w] = announced[w]
<1> USE DEF IndInv, TypeOK, Committable
<1>1. ASSUME NEW v \in Write, WriteStep(v) PROVE
         \/ pc[w] = "begun" /\ (MarkWriting(w) \/ ShortBody(w) \/ EmptyBody(w))
         \/ Committable(w) /\ announced'[w] = announced[w]
  <2>1. ASSUME NEW n \in Gateways, NEW k \in Key, BeginWrite(v, n, k)
        PROVE Committable(w) /\ announced'[w] = announced[w]
    BY <2>1, Zenon DEF BeginWrite, etcdVars
  <2>2. CASE v = w /\ (MarkWriting(v) \/ ShortBody(v) \/ EmptyBody(v))
    BY <2>2, Zenon DEF MarkWriting, ShortBody, EmptyBody
  <2>3. CASE v # w /\ MarkWriting(v)
    BY Zenon, <2>3 DEF MarkWriting
  <2>4. CASE v # w /\ (ShortBody(v) \/ EmptyBody(v))
    BY <2>4, Zenon DEF ShortBody, EmptyBody, etcdVars
  <2>5. ASSUME NEW n \in Node, StoreChunk(v, n)
        PROVE Committable(w) /\ announced'[w] = announced[w]
    BY <2>5, Zenon DEF StoreChunk, etcdVars
  <2>6. CASE ChunkReplicated(v)
    BY <2>6, Zenon DEF ChunkReplicated, etcdVars
  <2>7. CASE FailWrite(v)
    BY <2>7, Zenon DEF FailWrite, etcdVars
  <2>8. CASE Commit(v)
    BY <2>8, Zenon DEF Commit
  <2>9. CASE StopWriting(v)
    BY <2>9, Zenon DEF StopWriting
  <2>10. QED
    BY <1>1, <2>1, <2>2, <2>3, <2>4, <2>5, <2>6, <2>7, <2>8, <2>9, Zenon DEF WriteStep
<1>2. ASSUME NEW n \in Collectors, PassStep(n) \/ FailCollect(n)
      PROVE Committable(w) /\ announced'[w] = announced[w]
  <2>1. ASSUME NEW v \in Write, DropRecord(n, v)
        PROVE Committable(w) /\ announced'[w] = announced[w]
    BY <2>1, Zenon DEF DropRecord, writeVars
  <2>2. ASSUME \A v \in Write : ~DropRecord(n, v) PROVE UNCHANGED <<record, writeVars>>
    BY <1>2, <2>2, Zenon DEF PassStep, NextSlice, BeginPass, WritesInFlight, ScanObject, RemoveChunk,
                      EndCollect, FailCollect, etcdVars
  <2>3. QED
    BY <2>1, <2>2, Zenon DEF writeVars
<1>3. ASSUME NEW n \in Node, Crash(n)
      PROVE Committable(w) /\ announced'[w] = announced[w]
  BY <1>3, Zenon DEF Crash, etcdVars
<1>4. ASSUME \/ \E k \in Key : Delete(k)
             \/ \E n \in Node : \E v \in Memberships : SetMembers(n, v)
             \/ \E n \in Node : \E c \in Chunk : Age(n, c)
             \/ UNCHANGED vars
      PROVE Committable(w) /\ announced'[w] = announced[w]
  <2>1. UNCHANGED <<record, writeVars>>
    BY <1>4, Zenon DEF Delete, SetMembers, Age, vars, etcdVars
  <2>2. QED
    BY <2>1, Zenon DEF writeVars
<1>5. QED
  BY <1>1, <1>2, <1>3, <1>4, Zenon DEF Next

\* A key's manifest changes only by a commit or by a delete.
LEMMA ManifestChanges ==
  ASSUME TypeOK, [Next]_vars, NEW k \in Key
  PROVE  \/ manifest'[k] = manifest[k]
         \/ manifest'[k] = NoManifest
         \/ \E w \in Write :
              /\ Commit(w)
              /\ manifest'[k] = [write |-> w, size |-> stored[w], nodes |-> owners[w]]
<1>1. ASSUME NEW w \in Write, Commit(w)
      PROVE \/ manifest'[k] = manifest[k]
            \/ manifest'[k] = [write |-> w, size |-> stored[w], nodes |-> owners[w]]
  BY <1>1, Zenon DEF TypeOK, Commit
<1>2. ASSUME NEW j \in Key, Delete(j)
      PROVE manifest'[k] = manifest[k] \/ manifest'[k] = NoManifest
  BY <1>2, Zenon DEF TypeOK, Delete
<1>3. ASSUME NEW w \in Write, WriteStep(w), ~Commit(w) PROVE UNCHANGED manifest
  BY <1>3, Zenon DEF WriteStep, BeginWrite, MarkWriting, ShortBody, EmptyBody, StoreChunk,
              ChunkReplicated, FailWrite, StopWriting, etcdVars
<1>4. ASSUME NEW n \in Collectors, PassStep(n) \/ FailCollect(n) PROVE UNCHANGED manifest
  BY <1>4, Zenon DEF PassStep, NextSlice, BeginPass, WritesInFlight, DropRecord, ScanObject, RemoveChunk,
              EndCollect, FailCollect, etcdVars
<1>5. ASSUME \/ \E n \in Node : Crash(n)
             \/ \E n \in Node : \E v \in Memberships : SetMembers(n, v)
             \/ \E n \in Node : \E c \in Chunk : Age(n, c)
             \/ UNCHANGED vars
      PROVE UNCHANGED manifest
  BY <1>5, Zenon DEF Crash, SetMembers, Age, vars, etcdVars
<1>6. QED
  BY <1>1, <1>2, <1>3, <1>4, <1>5, Zenon DEF Next

\* A commit finds its chunks on the quorum, and no sweep takes a committed one.
LEMMA DurableStep == ASSUME IndInv, [Next]_vars PROVE Durable'
<1> SUFFICES ASSUME NEW k \in Key, manifest'[k] # NoManifest, NEW c \in ChunksOf(manifest'[k])
    PROVE \E q \in SUBSET manifest'[k].nodes : Cardinality(q) >= W /\ \A n \in q : c \in disk'[n]
  BY Zenon DEF Durable, HeldByQuorum, ChunksOf
<1>1. CASE manifest'[k] = manifest[k]
  <2>1. manifest[k] \in Manifest
    BY <1>1, Zenon DEF IndInv, TypeOK
  <2>2. c \in Chunk /\ manifest[k].nodes \in SUBSET Node
    BY <1>1, <2>1, BoundAssumption DEF Manifest, ChunksOf, Chunk
  <2>3. HeldByQuorum(c, manifest[k].nodes)
    BY <1>1, Zenon DEF IndInv, Durable
  <2>4. \A n \in manifest[k].nodes : ~RemoveChunk(n, c)
    BY <1>1, <2>2, SweptIsGarbage, Zenon
  <2>5. QED
    BY <1>1, <2>2, <2>3, <2>4, HeldStays, Zenon
<1>2. ASSUME NEW w \in Write, Commit(w),
             manifest'[k] = [write |-> w, size |-> stored[w], nodes |-> owners[w]]
      PROVE \E q \in SUBSET manifest'[k].nodes : Cardinality(q) >= W /\ \A n \in q : c \in disk'[n]
  <2>1. Committable(w)
    BY <1>2, Zenon DEF Commit, Committable
  <2>2. PICK i \in 1..stored[w] : c = <<w, i>>
    BY <1>2 DEF ChunksOf
  <2>3. c \in Chunk /\ owners[w] \in SUBSET Node /\ c[1] = w
    BY <2>2, BoundAssumption DEF IndInv, TypeOK, Chunk
  <2>4. HeldByQuorum(c, owners[w])
    BY Zenon, <2>1, <2>2 DEF IndInv, InFlightHeld
  <2>5. \A n \in owners[w] : ~RemoveChunk(n, c)
    BY <2>1, <2>3, SweptIsGarbage, Zenon
  <2>6. \E q \in SUBSET owners[w] : Cardinality(q) >= W /\ \A n \in q : c \in disk'[n]
    BY <2>3, <2>4, <2>5, HeldStays, Zenon
  <2>7. QED
    BY <1>2, <2>6
<1>3. QED
  BY Zenon, <1>1, <1>2, ManifestChanges DEF IndInv

\* What a step does to the progress of a write that is storing its chunks.
LEMMA ProgressChanges ==
  ASSUME TypeOK, [Next]_vars, NEW w \in Write, pc[w] \notin {"idle", "begun"}
  PROVE  /\ owners'[w] = owners[w]
         /\ \/ stored'[w] = stored[w] /\ acks'[w] \subseteq acks[w]
            \/ /\ stored'[w] = stored[w]
               /\ \E n \in owners[w] : /\ <<w, stored[w] + 1>> \in disk'[n]
                                       /\ acks'[w] \subseteq acks[w] \cup {n}
            \/ /\ stored'[w] = stored[w] + 1 /\ acks'[w] = {}
               /\ Cardinality(acks[w]) >= W
<1> DEFINE Same == owners'[w] = owners[w] /\ stored'[w] = stored[w] /\ acks'[w] \subseteq acks[w]
           Stored == /\ owners'[w] = owners[w] /\ stored'[w] = stored[w]
                     /\ \E n \in owners[w] : /\ <<w, stored[w] + 1>> \in disk'[n]
                                             /\ acks'[w] \subseteq acks[w] \cup {n}
           Replicated == /\ owners'[w] = owners[w] /\ stored'[w] = stored[w] + 1
                         /\ acks'[w] = {} /\ Cardinality(acks[w]) >= W
<1>1. ASSUME NEW v \in Write, NEW n \in Gateways, NEW k \in Key, BeginWrite(v, n, k) PROVE Same
  BY <1>1, Zenon DEF TypeOK, BeginWrite
<1>2. ASSUME NEW v \in Write, NEW n \in Node, StoreChunk(v, n) PROVE Same \/ Stored
  <2>1. PICK i \in 1..pushed[v] : StoredBy(v, n, i)
    BY <1>2, ChunkLands
  <2>2. n \in owners[v] /\ UNCHANGED <<owners, stored>>
    BY <1>2, Zenon DEF StoreChunk
  <2>3. CASE acks' = acks
    BY <2>2, <2>3, Zenon
  <2>4. CASE i = stored[v] + 1 /\ acks' = [acks EXCEPT ![v] = @ \cup {n}]
    <3>1. CASE v # w
      BY <2>2, <2>4, <3>1, Zenon DEF TypeOK
    <3>2. CASE v = w
      <4>1. <<w, stored[w] + 1>> \in disk'[n]
        BY <2>1, <2>4, <3>2, Zenon DEF TypeOK, StoredBy
      <4>2. acks'[w] \subseteq acks[w] \cup {n}
        BY <2>4, <3>2, Zenon DEF TypeOK
      <4>3. QED
        BY <2>2, <3>2, <4>1, <4>2, Zenon
    <3>3. QED
      BY <3>1, <3>2, Zenon
  <2>5. QED
    BY <2>1, <2>3, <2>4, Zenon DEF StoredBy
<1>3. ASSUME NEW v \in Write, ChunkReplicated(v) PROVE Same \/ Replicated
  BY <1>3, Zenon DEF TypeOK, ChunkReplicated
<1>4. ASSUME NEW v \in Write, FailWrite(v) PROVE Same
  BY <1>4, Zenon DEF TypeOK, FailWrite
<1>5. ASSUME NEW v \in Write, \/ MarkWriting(v) \/ ShortBody(v) \/ EmptyBody(v)
                              \/ Commit(v) \/ StopWriting(v)
      PROVE Same
  BY <1>5, Zenon DEF MarkWriting, ShortBody, EmptyBody, Commit, StopWriting
<1>6. ASSUME NEW n \in Collectors, PassStep(n) \/ FailCollect(n) PROVE Same
  <2>1. UNCHANGED writeVars
    BY <1>6, Zenon DEF PassStep, NextSlice, BeginPass, WritesInFlight, DropRecord, ScanObject,
                RemoveChunk, EndCollect, FailCollect
  <2>2. QED
    BY <2>1, Zenon DEF writeVars
<1>7. ASSUME \/ \E n \in Node : Crash(n)
             \/ \E k \in Key : Delete(k)
             \/ \E n \in Node : \E v \in Memberships : SetMembers(n, v)
             \/ \E n \in Node : \E c \in Chunk : Age(n, c)
             \/ UNCHANGED vars
      PROVE Same
  BY <1>7, Zenon DEF Crash, Delete, SetMembers, Age, vars, writeVars
<1>8. Same \/ Stored \/ Replicated
  <2> HIDE DEF Same, Stored, Replicated
  <2> QED
    BY <1>1, <1>2, <1>3, <1>4, <1>5, <1>6, <1>7, Zenon DEF Next, WriteStep
<1>9. QED
  BY <1>8, Zenon

\* What a write that can still commit has stored is on the quorum: each chunk got
\* there when its push was acknowledged, and no sweep takes it.
LEMMA InFlightStep == ASSUME IndInv, [Next]_vars PROVE InFlightHeld'
<1> SUFFICES ASSUME NEW w \in Write, Committable(w)'
    PROVE /\ \A i \in 1..stored'[w] : \E q \in SUBSET owners'[w] :
                Cardinality(q) >= W /\ \A n \in q : <<w, i>> \in disk'[n]
          /\ \A n \in acks'[w] : n \in owners'[w] /\ <<w, stored'[w] + 1>> \in disk'[n]
  BY Zenon DEF InFlightHeld, HeldByQuorum
<1>1. CASE pc[w] = "begun" /\ (MarkWriting(w) \/ ShortBody(w) \/ EmptyBody(w))
  <2>1. stored[w] = 0 /\ acks[w] = {}
    BY <1>1, Zenon DEF IndInv, NoChunkTooSoon
  <2>2. UNCHANGED <<stored, acks>>
    BY <1>1, Zenon DEF MarkWriting, ShortBody, EmptyBody
  <2>3. QED
    BY <2>1, <2>2
<1>2. CASE Committable(w)
  <2> DEFINE HeldNext(i) == \E q \in SUBSET owners'[w] :
                              Cardinality(q) >= W /\ \A n \in q : <<w, i>> \in disk'[n]
  <2>1. pc[w] \notin {"idle", "begun"} /\ TypeOK
    BY <1>2, Zenon DEF Committable, IndInv
  <2>2. owners'[w] = owners[w] /\ owners[w] \in SUBSET Node /\ stored[w] \in 0..MaxChunks
    BY Zenon, <2>1, ProgressChanges DEF TypeOK
  <2>3. ASSUME NEW c \in Chunk, c[1] = w, NEW n \in Node PROVE ~RemoveChunk(n, c)
    BY <1>2, <2>3, SweptIsGarbage, Zenon
  <2>4. ASSUME NEW i \in 1..stored[w] PROVE HeldNext(i)
    <3>1. <<w, i>> \in Chunk
      BY <2>2, BoundAssumption DEF Chunk
    <3>2. HeldByQuorum(<<w, i>>, owners[w])
      BY Zenon, <1>2 DEF IndInv, InFlightHeld
    <3>3. \A n \in owners[w] : ~RemoveChunk(n, <<w, i>>)
      BY <2>2, <2>3, <3>1, Zenon
    <3>4. QED
      BY <2>2, <3>1, <3>2, <3>3, HeldStays, Zenon
  <2>5. ASSUME NEW n \in acks[w] PROVE n \in owners[w] /\ <<w, stored[w] + 1>> \in disk'[n]
    <3>1. n \in owners[w] /\ n \in Node /\ <<w, stored[w] + 1>> \in disk[n]
      BY <1>2, <2>2, Zenon DEF IndInv, InFlightHeld
    <3>2. <<w, stored[w] + 1>> \in Chunk
      BY <2>1, <3>1, Zenon DEF TypeOK
    <3>3. CASE \A m \in Node : disk[m] \subseteq disk'[m]
      BY <3>1, <3>3, Zenon
    <3>4. ASSUME NEW m \in Node, NEW d \in Chunk, RemoveChunk(m, d)
          PROVE <<w, stored[w] + 1>> \in disk'[n]
      <4>1. d # <<w, stored[w] + 1>>
        BY <2>3, <3>2, <3>4, Zenon
      <4>2. QED
        BY <2>1, <3>1, <3>4, <4>1, Zenon DEF RemoveChunk, TypeOK
    <3>5. QED
      BY <2>1, <3>1, <3>3, <3>4, OnlySweepsDelete, Zenon
  <2>6. CASE stored'[w] = stored[w]
    <3>1. \A n \in acks'[w] : n \in owners[w] /\ <<w, stored[w] + 1>> \in disk'[n]
      BY <2>1, <2>2, <2>5, <2>6, ProgressChanges, Zenon
    <3>2. QED
      BY <2>2, <2>4, <2>6, <3>1, Zenon
  <2>7. CASE stored'[w] = stored[w] + 1 /\ acks'[w] = {} /\ Cardinality(acks[w]) >= W
    <3>1. HeldNext(stored[w] + 1)
      <4>1. acks[w] \in SUBSET owners'[w]
        BY <2>2, <2>5, Zenon
      <4>2. QED
        BY <2>5, <2>7, <4>1, Zenon
    <3>2. ASSUME NEW i \in 1..stored'[w] PROVE HeldNext(i)
      <4>1. i \in 1..stored[w] \/ i = stored[w] + 1
        BY <2>2, <2>7, <3>2
      <4> HIDE DEF HeldNext
      <4>2. QED
        BY <2>4, <3>1, <4>1, Zenon
    <3>3. QED
      BY <2>7, <3>2, Zenon
  <2>8. QED
    BY Zenon, <2>1, <2>6, <2>7, ProgressChanges
<1>3. QED
  BY <1>1, <1>2, CommittableShrinks, Zenon

-----------------------------------------------------------------------------
(***************************************************************************)
(* The second half of the inductive invariant: what a pass knows.          *)
(***************************************************************************)

\* Where a chunk that is on a disk, is old or is eligible came from.
LEMMA ChunkOrigin ==
  ASSUME TypeOK, [Next]_vars, NEW n \in Node
  PROVE  /\ \A c \in disk'[n] : c \in disk[n] \/ pc[c[1]] \notin {"idle", "begun"}
         /\ \A c \in aged'[n] : c \in aged[n] \/ (c \in disk[n] /\ Age(n, c))
         /\ \A c \in eligible'[n] : c \in eligible[n] \/ (c \in aged[n] /\ phase'[n] = "records")
<1> DEFINE Origin ==
         /\ \A c \in disk'[n] : c \in disk[n] \/ pc[c[1]] \notin {"idle", "begun"}
         /\ \A c \in aged'[n] : c \in aged[n] \/ (c \in disk[n] /\ Age(n, c))
         /\ \A c \in eligible'[n] : c \in eligible[n] \/ (c \in aged[n] /\ phase'[n] = "records")
<1> USE DEF TypeOK
<1>1. ASSUME NEW w \in Write, NEW m \in Node, StoreChunk(w, m) PROVE Origin
  <2> PICK i \in 1..pushed[w] : StoredBy(w, m, i)
    BY <1>1, ChunkLands
  <2>1. \A c \in disk'[n] : c \in disk[n] \/ c = <<w, i>>
    BY Zenon DEF StoredBy
  <2>2. aged'[n] \subseteq aged[n] /\ eligible'[n] \subseteq eligible[n]
    BY Zenon DEF StoredBy
  <2>3. pc[w] \notin {"idle", "begun"}
    BY <1>1, Zenon DEF StoreChunk
  <2> HIDE DEF TypeOK
  <2>4. \A c \in disk'[n] : c \in disk[n] \/ c[1] = w
    BY <2>1
  <2>5. QED
    BY <2>2, <2>3, <2>4, Zenon
<1>2. ASSUME NEW m \in Node, NEW c \in Chunk, Age(m, c) PROVE Origin
  <2>1. UNCHANGED <<disk, eligible>>
    BY <1>2, Zenon DEF Age, passVars
  <2>2. \A d \in aged'[n] : d \in aged[n] \/ (m = n /\ d = c)
    BY <1>2, Zenon DEF Age
  <2>3. c \in disk[m]
    BY <1>2, Zenon DEF Age
  <2>4. QED
    BY <1>2, <2>1, <2>2, <2>3, Zenon
<1>3. ASSUME NEW m \in Node, NextSlice(m) PROVE Origin
  BY <1>3, Zenon DEF NextSlice, BeginPass, diskVars
<1>4. ASSUME NEW m \in Node, NEW c \in Chunk, RemoveChunk(m, c) PROVE Origin
  BY <1>4, Zenon DEF RemoveChunk
<1>5. ASSUME NEW m \in Node, Crash(m) \/ EndCollect(m) \/ FailCollect(m) PROVE Origin
  <2>1. UNCHANGED <<disk, aged>> /\ eligible' = [eligible EXCEPT ![m] = {}]
    BY <1>5, Zenon DEF Crash, EndCollect, FailCollect, EndPass, diskVars
  <2>2. QED
    BY <2>1, Zenon
<1>6. ASSUME UNCHANGED <<disk, aged, eligible>> PROVE Origin
  BY <1>6, Zenon
<1>7. ASSUME NEW w \in Write, WriteStep(w), \A m \in Node : ~StoreChunk(w, m)
      PROVE UNCHANGED <<disk, aged, eligible>>
  BY ZenonT(30), <1>7
  DEF WriteStep, BeginWrite, MarkWriting, ShortBody, EmptyBody, ChunkReplicated, FailWrite,
              Commit, StopWriting, diskVars, passVars
<1>8. ASSUME NEW m \in Node, \/ WritesInFlight(m) \/ ScanObject(m)
                             \/ \E w \in Write : DropRecord(m, w)
      PROVE UNCHANGED <<disk, aged, eligible>>
  BY <1>8, Zenon DEF WritesInFlight, ScanObject, DropRecord, diskVars
<1>9. ASSUME \/ \E k \in Key : Delete(k)
             \/ \E m \in Node : \E v \in Memberships : SetMembers(m, v)
             \/ UNCHANGED vars
      PROVE UNCHANGED <<disk, aged, eligible>>
  BY <1>9, Zenon DEF Delete, SetMembers, vars, diskVars, passVars
<1>10. Origin
  <2> HIDE DEF Origin, TypeOK
  <2> QED
    BY <1>1, <1>2, <1>3, <1>4, <1>5, <1>6, <1>7, <1>8, <1>9, NodeAssumption, Zenon DEF Next, PassStep
<1>11. QED
  BY <1>10, Zenon

\* A write that has not begun to push has not begun to before the step either.
LEMMA EarlyWrites ==
  ASSUME TypeOK, [Next]_vars, NEW w \in Write, pc'[w] \in {"idle", "begun"}
  PROVE  pc[w] \in {"idle", "begun"} /\ stored'[w] = stored[w] /\ acks'[w] \subseteq acks[w]
<1> DEFINE Early == /\ pc[w] \in {"idle", "begun"} /\ stored'[w] = stored[w]
                    /\ acks'[w] \subseteq acks[w]
<1> USE DEF TypeOK
<1>1. ASSUME NEW v \in Write, WriteStep(v) PROVE Early
  <2>1. ASSUME NEW n \in Gateways, NEW k \in Key, BeginWrite(v, n, k) PROVE Early
    BY <2>1, Zenon DEF BeginWrite
  <2>2. ASSUME MarkWriting(v) \/ ShortBody(v) \/ EmptyBody(v) \/ StopWriting(v) PROVE Early
    BY <2>2, Zenon DEF MarkWriting, ShortBody, EmptyBody, StopWriting
  <2>3. ASSUME NEW n \in Node, StoreChunk(v, n) PROVE Early
    <3>1. pc[v] \notin {"idle", "begun"} /\ UNCHANGED <<pc, stored>>
      BY <2>3, Zenon DEF StoreChunk
    <3>2. acks' = acks \/ acks' = [acks EXCEPT ![v] = @ \cup {n}]
      BY <2>3, ChunkLands, Zenon DEF StoredBy
    <3>3. v # w
      BY <3>1, Zenon
    <3>4. QED
      BY <3>1, <3>2, <3>3, Zenon
  <2>4. ASSUME ChunkReplicated(v) PROVE Early
    BY <2>4, Zenon DEF ChunkReplicated
  <2>5. ASSUME FailWrite(v) PROVE Early
    BY <2>5, Zenon DEF FailWrite
  <2>6. ASSUME Commit(v) PROVE Early
    BY <2>6, Zenon DEF Commit
  <2>7. QED
    BY ZenonT(30), <1>1, <2>1, <2>2, <2>3, <2>4, <2>5, <2>6 DEF WriteStep
<1>2. ASSUME NEW n \in Collectors, PassStep(n) \/ FailCollect(n) PROVE Early
  <2>1. UNCHANGED writeVars
    BY ZenonT(30), <1>2 DEF PassStep, NextSlice, BeginPass, WritesInFlight, DropRecord, ScanObject,
                RemoveChunk, EndCollect, FailCollect
  <2>2. QED
    BY <2>1, Zenon DEF writeVars
<1>3. ASSUME NEW n \in Node, Crash(n) PROVE Early
  BY <1>3, Zenon DEF Crash
<1>4. ASSUME \/ \E k \in Key : Delete(k)
             \/ \E n \in Node : \E v \in Memberships : SetMembers(n, v)
             \/ \E n \in Node : \E c \in Chunk : Age(n, c)
             \/ UNCHANGED vars
      PROVE Early
  <2>1. UNCHANGED writeVars
    BY <1>4, Zenon DEF Delete, SetMembers, Age, vars
  <2>2. QED
    BY <2>1, Zenon DEF writeVars
<1>5. QED
  BY ZenonT(30), <1>1, <1>2, <1>3, <1>4 DEF Next

\* No chunk appears before its write pushes it.
LEMMA TooSoonStep == ASSUME IndInv, [Next]_vars PROVE NoChunkTooSoon'
<1> SUFFICES ASSUME NEW w \in Write, pc'[w] \in {"idle", "begun"}
    PROVE /\ stored'[w] = 0 /\ acks'[w] = {}
          /\ \A n \in Node : \A c \in disk'[n] \cup aged'[n] \cup eligible'[n] : c[1] # w
  BY Zenon DEF NoChunkTooSoon
<1>1. pc[w] \in {"idle", "begun"} /\ stored'[w] = stored[w] /\ acks'[w] \subseteq acks[w]
  BY EarlyWrites, Zenon DEF IndInv
<1>2. /\ stored[w] = 0 /\ acks[w] = {}
      /\ \A n \in Node : \A c \in disk[n] \cup aged[n] \cup eligible[n] : c[1] # w
  BY <1>1, Zenon DEF IndInv, NoChunkTooSoon
<1>3. ASSUME NEW n \in Node, NEW c \in disk'[n] \cup aged'[n] \cup eligible'[n] PROVE c[1] # w
  BY <1>1, <1>2, ChunkOrigin, Zenon DEF IndInv
<1>4. QED
  BY Zenon, <1>1, <1>2, <1>3

\* The grace period outlives every unrecorded write: the theorems that follow
\* assume it, as the code does.
LEMMA OldStep == ASSUME GraceCoversTail, IndInv, [Next]_vars PROVE OldMeansRecorded'
<1> SUFFICES ASSUME NEW n \in Node, NEW c \in aged'[n] \cup eligible'[n], Committable(c[1])'
    PROVE announced'[c[1]]
  BY Zenon DEF OldMeansRecorded
<1>1. c \in disk[n] \cup aged[n] \cup eligible[n]
  BY ChunkOrigin, Zenon DEF IndInv
<1>2. c[1] \in Write
  BY <1>1, NodeTypes, ChunkWrite, Zenon DEF IndInv
<1>3. pc[c[1]] \notin {"idle", "begun"}
  BY <1>1, <1>2, Zenon DEF IndInv, NoChunkTooSoon
<1>4. Committable(c[1]) /\ announced'[c[1]] = announced[c[1]]
  BY <1>2, <1>3, CommittableShrinks, Zenon
<1>5. CASE c \in aged[n] \cup eligible[n]
  BY <1>4, <1>5, Zenon DEF IndInv, OldMeansRecorded
<1>6. CASE Age(n, c)
  BY <1>4, <1>6, Zenon DEF Age, UnrecordedTail, Committable
<1>7. QED
  BY <1>4, <1>5, <1>6, ChunkOrigin, Zenon DEF IndInv

\* What a step does to the pass of one node.
LEMMA PassChanges ==
  ASSUME TypeOK, [Next]_vars, NEW n \in Node
  PROVE  \/ /\ phase'[n] = phase[n] /\ at'[n] = at[n] /\ writing'[n] = writing[n]
            /\ stale'[n] = stale[n] /\ referenced'[n] = referenced[n]
         \/ phase'[n] = "idle" /\ at'[n] = 1 /\ stale'[n] = {}
         \/ NextSlice(n) \/ WritesInFlight(n) \/ ScanObject(n)
         \/ \E w \in Write : DropRecord(n, w)
<1> DEFINE Same == /\ phase'[n] = phase[n] /\ at'[n] = at[n] /\ writing'[n] = writing[n]
                   /\ stale'[n] = stale[n] /\ referenced'[n] = referenced[n]
           Ended == phase'[n] = "idle" /\ at'[n] = 1 /\ stale'[n] = {}
<1> USE DEF TypeOK
<1>1. ASSUME NEW m \in Node, NextSlice(m), m # n PROVE Same
  BY <1>1, Zenon DEF NextSlice, BeginPass
<1>2. ASSUME NEW m \in Node, WritesInFlight(m), m # n PROVE Same
  BY <1>2, Zenon DEF WritesInFlight
<1>3. ASSUME NEW m \in Node, NEW w \in Write, DropRecord(m, w), m # n PROVE Same
  BY <1>3, Zenon DEF DropRecord
<1>4. ASSUME NEW m \in Node, ScanObject(m), m # n PROVE Same
  BY <1>4, Zenon DEF ScanObject
<1>5. ASSUME NEW m \in Node, NEW c \in Chunk, RemoveChunk(m, c) PROVE Same
  BY <1>5, Zenon DEF RemoveChunk
<1>6. ASSUME NEW m \in Node, EndCollect(m) \/ FailCollect(m) \/ Crash(m) PROVE Same \/ Ended
  <2>1. EndPass(m)
    BY <1>6, Zenon DEF EndCollect, FailCollect, Crash
  <2>2. QED
    BY <2>1, Zenon DEF EndPass
<1>7. ASSUME NEW w \in Write, WriteStep(w) PROVE Same
  BY ZenonT(30), <1>7 DEF WriteStep, BeginWrite, MarkWriting, ShortBody, EmptyBody, StoreChunk,
              ChunkReplicated, FailWrite, Commit, StopWriting, passVars
<1>8. ASSUME \/ \E k \in Key : Delete(k)
             \/ \E m \in Node : \E v \in Memberships : SetMembers(m, v)
             \/ \E m \in Node : \E c \in Chunk : Age(m, c)
             \/ UNCHANGED vars
      PROVE Same
  BY <1>8, Zenon DEF Delete, SetMembers, Age, vars, passVars
<1>9. Same \/ Ended \/ NextSlice(n) \/ WritesInFlight(n) \/ ScanObject(n)
        \/ \E w \in Write : DropRecord(n, w)
  <2> HIDE DEF Same, Ended, TypeOK
  <2> QED
    BY <1>1, <1>2, <1>3, <1>4, <1>5, <1>6, <1>7, <1>8, NodeAssumption DEF Next, PassStep
<1>10. QED
  BY ZenonT(30), <1>9

\* Of a chunk that a pass may delete: once the records are read, its write is in
\* flight, or is about to have its record dropped, or cannot commit any more.
LEMMA MarkedWrites ==
  ASSUME GraceCoversTail, IndInv, [Next]_vars, NEW n \in Node, phase'[n] = "marking",
         NEW c \in eligible'[n], c[1] \notin writing'[n], c[1] \notin stale'[n]
  PROVE  ~Committable(c[1])'
<1> SUFFICES ASSUME Committable(c[1])' PROVE FALSE
  BY Zenon
<1>1. c \in eligible[n] /\ c[1] \in Write
  <2>1. c \in eligible[n] /\ TypeOK
    BY ChunkOrigin, Zenon DEF IndInv
  <2>2. QED
    BY <2>1, NodeTypes, ChunkWrite, Zenon
<1>2. pc[c[1]] \notin {"idle", "begun"}
  BY ZenonT(30), <1>1 DEF IndInv, NoChunkTooSoon
<1>3. Committable(c[1]) /\ announced'[c[1]] = announced[c[1]]
  BY <1>1, <1>2, CommittableShrinks, Zenon
<1>4. announced[c[1]]
  BY <1>1, <1>3, Zenon DEF IndInv, OldMeansRecorded
<1>5. record[c[1]] # NoNode /\ record'[c[1]] # NoNode
  BY <1>3, <1>4, Zenon DEF Committable
<1>6. ~(phase[n] = "marking" /\ writing'[n] = writing[n] /\ stale'[n] = stale[n])
  BY <1>1, <1>3, Zenon DEF IndInv, MarkIsComplete
<1>7. ~ScanObject(n)
  BY <1>6, Zenon DEF ScanObject
<1>8. ~NextSlice(n)
  BY Zenon DEF NextSlice, BeginPass, IndInv, TypeOK
<1>9. ~WritesInFlight(n)
  BY ZenonT(30), <1>1, <1>5, RecordsRead DEF IndInv
<1>10. ASSUME NEW w \in Write, DropRecord(n, w) PROVE FALSE
  <2>1. /\ record'[w] = NoNode /\ stale'[n] = stale[n] \ {w}
        /\ phase[n] = "marking" /\ writing'[n] = writing[n]
    BY <1>10, DropEffect, Zenon DEF IndInv
  <2>2. c[1] \notin stale[n] /\ phase[n] = "marking" /\ writing'[n] = writing[n]
    BY <1>5, <2>1, Zenon
  <2>3. QED
    BY <1>1, <1>3, <2>2, Zenon DEF IndInv, MarkIsComplete
<1>11. QED
  BY Zenon, <1>6, <1>7, <1>8, <1>9, <1>10, PassChanges DEF IndInv

\* A manifest that comes to name an eligible chunk here is one the scan has still
\* to read: the scan reads nothing before the stale records are gone, and once
\* they are the chunk's write cannot commit.
LEMMA MarkedManifests ==
  ASSUME IndInv, [Next]_vars, NEW n \in Node, phase'[n] = "marking",
         NEW c \in eligible'[n], c[1] \notin writing'[n], c \notin referenced'[n],
         NEW k \in Key, manifest'[k] # NoManifest, n \in manifest'[k].nodes,
         c \in ChunksOf(manifest'[k])
  PROVE  k >= at'[n]
<1>1. c \in eligible[n] /\ c[1] \in Write /\ TypeOK /\ k \in Nat /\ k >= 1
  <2>1. c \in eligible[n] /\ TypeOK
    BY ChunkOrigin, Zenon DEF IndInv
  <2>2. c[1] \in Write
    BY <2>1, NodeTypes, ChunkWrite, Zenon
  <2>3. QED
    BY <2>1, <2>2, KeyTypes, Zenon
<1>2. CASE at'[n] = 1
  BY <1>1, <1>2, Zenon
<1>3. CASE /\ phase'[n] = phase[n] /\ at'[n] = at[n] /\ writing'[n] = writing[n]
           /\ stale'[n] = stale[n] /\ referenced'[n] = referenced[n]
  <2>1. CASE manifest'[k] = manifest[k]
    BY <1>1, <1>3, <2>1, Zenon DEF IndInv, MarkIsComplete
  <2>2. ASSUME NEW w \in Write, Commit(w),
               manifest'[k] = [write |-> w, size |-> stored[w], nodes |-> owners[w]]
        PROVE k >= at'[n]
    <3>1. c[1] = w
      <4>1. c \in ChunksOf([write |-> w, size |-> stored[w], nodes |-> owners[w]])
        BY <2>2, Zenon
      <4>2. QED
        BY ZenonT(30), <4>1, OwnChunks
    <3>2. Committable(w)
      BY ZenonT(30), <2>2 DEF Commit, Committable
    <3>3. w \in stale[n]
      BY ZenonT(30), <1>1, <1>3, <3>1, <3>2 DEF IndInv, MarkIsComplete
    <3>4. at[n] = 1
      BY <3>3, Zenon DEF IndInv, MarkIsComplete
    <3>5. QED
      BY <1>1, <1>3, <3>4, Zenon
  <2>3. QED
    BY ZenonT(30), <1>1, <2>1, <2>2, ManifestChanges
<1>4. CASE ScanObject(n)
  <2>1. /\ phase[n] = "marking" /\ UNCHANGED <<manifest, writing>> /\ at'[n] = at[n] + 1
        /\ referenced'[n] = referenced[n] \cup NamedHere(n, at[n], manifest[at[n]])
        /\ at[n] \in Nat
    BY ZenonT(30), <1>1, <1>4, ScanEffect, NodeTypes
  <2>2. k >= at[n]
    BY ZenonT(30), <1>1, <2>1 DEF IndInv, MarkIsComplete
  <2>3. k # at[n]
    BY <2>1, Zenon DEF NamedHere
  <2>4. QED
    BY ZenonT(30), <1>1, <2>1, <2>2, <2>3, NextKey
<1>5. CASE WritesInFlight(n) \/ \E w \in Write : DropRecord(n, w)
  <2>1. (phase[n] # "marking" \/ stale[n] # {}) /\ UNCHANGED at
    BY <1>5, Zenon DEF WritesInFlight, DropRecord
  <2>2. QED
    BY <1>2, <2>1, Zenon DEF IndInv, MarkIsComplete
<1>6. ~NextSlice(n)
  BY ZenonT(30), <1>1 DEF NextSlice, BeginPass, TypeOK
<1>7. QED
  BY ZenonT(30), <1>1, <1>2, <1>3, <1>4, <1>5, <1>6, PassChanges

\* What a pass knows stays true while it marks.
LEMMA MarkStep == ASSUME GraceCoversTail, IndInv, [Next]_vars PROVE MarkIsComplete'
<1>1. ASSUME NEW n \in Node, phase'[n] # "marking" \/ stale'[n] # {} PROVE at'[n] = 1
  <2>1. phase[n] # "marking" \/ stale[n] # {} => at[n] = 1
    BY ZenonT(30) DEF IndInv, MarkIsComplete
  <2>2. CASE NextSlice(n) \/ WritesInFlight(n)
    BY <2>1, <2>2, Zenon DEF NextSlice, BeginPass, WritesInFlight
  <2>3. CASE ScanObject(n)
    BY <1>1, <2>3, Zenon DEF ScanObject
  <2>4. CASE \E w \in Write : DropRecord(n, w)
    BY Zenon, <2>1, <2>4 DEF DropRecord
  <2>5. QED
    BY ZenonT(30), <1>1, <2>1, <2>2, <2>3, <2>4, PassChanges DEF IndInv
<1>2. QED
  BY <1>1, MarkedWrites, MarkedManifests, Zenon DEF MarkIsComplete

\* IndInv is inductive.
LEMMA IndInvStep == ASSUME GraceCoversTail, IndInv, [Next]_vars PROVE IndInv'
<1>1. TypeOK'
  BY TypeStep, Zenon DEF IndInv
<1>2. QED
  BY <1>1, DurableStep, InFlightStep, TooSoonStep, OldStep, MarkStep, Zenon DEF IndInv

\* Initially there is nothing to lose.
LEMMA IndInvInit == ASSUME Init PROVE IndInv
<1>1. TypeOK
  BY TypeInit, Zenon
<1>2. Durable /\ InFlightHeld /\ NoChunkTooSoon /\ OldMeansRecorded /\ MarkIsComplete
  BY Zenon DEF Init, Durable, InFlightHeld, Committable, NoChunkTooSoon, OldMeansRecorded, MarkIsComplete
<1>3. QED
  BY <1>1, <1>2, Zenon DEF IndInv

\* No acknowledged write is ever lost to collection: as long as the grace period
\* covers the tail of an unrecorded write, every chunk of every committed object
\* is on W of the nodes its manifest names, through every interleaving of any number
\* of writes, deletes, passes, crashes and membership changes.
THEOREM Durability == GraceCoversTail => (Spec => []Durable)
<1> SUFFICES ASSUME GraceCoversTail PROVE Spec => []Durable
  BY Zenon
<1>1. IndInv /\ [Next]_vars => IndInv'
  BY IndInvStep, Zenon
<1>2. IndInv => Durable
  BY Zenon DEF IndInv
<1>3. QED
  BY IndInvInit, <1>1, <1>2, PTL DEF Spec

\* Nor is a write that has not committed yet: every chunk it has stored and could still
\* commit is on W of its owners, and every owner that has acknowledged the chunk it is
\* pushing holds it, however many passes sweep those nodes meanwhile.
THEOREM WritesInFlightKept == GraceCoversTail => (Spec => []InFlightHeld)
<1> SUFFICES ASSUME GraceCoversTail PROVE Spec => []InFlightHeld
  BY Zenon
<1>1. IndInv /\ [Next]_vars => IndInv'
  BY IndInvStep, Zenon
<1>2. IndInv => InFlightHeld
  BY Zenon DEF IndInv
<1>3. QED
  BY IndInvInit, <1>1, <1>2, PTL DEF Spec

\* No pass ever deletes a copy that a manifest says its node holds.
THEOREM SweepSafety == GraceCoversTail => (Spec => OnlyGarbageRemoved)
<1> SUFFICES ASSUME GraceCoversTail PROVE Spec => OnlyGarbageRemoved
  BY Zenon
<1> DEFINE Step == \A n \in Node : \A c \in disk[n] \ disk'[n] :
                     \A k \in Key : manifest[k] # NoManifest /\ n \in manifest[k].nodes
                                      => c \notin ChunksOf(manifest[k])
<1>1. IndInv /\ [Next]_vars => IndInv'
  BY IndInvStep, Zenon
<1>2. IndInv /\ [Next]_vars => Step
  <2> SUFFICES ASSUME IndInv, [Next]_vars, NEW n \in Node, NEW c \in disk[n] \ disk'[n]
      PROVE \A k \in Key : manifest[k] # NoManifest /\ n \in manifest[k].nodes
                             => c \notin ChunksOf(manifest[k])
    BY Zenon
  <2>1. PICK m \in Node, d \in Chunk : RemoveChunk(m, d)
    BY OnlySweepsDelete, Zenon DEF IndInv
  <2>2. m = n /\ d = c
    BY <2>1, Zenon DEF RemoveChunk, IndInv, TypeOK
  <2>3. QED
    BY ZenonT(30), <2>1, <2>2, SweptIsGarbage
<1>3. QED
  BY IndInvInit, <1>1, <1>2, PTL DEF Spec, OnlyGarbageRemoved

\* A pass that has read the records has found, or has still to read, every reason to
\* keep a chunk that is old enough to go: for every number of concurrent passes.
THEOREM MarkCompleteness == GraceCoversTail => (Spec => []MarkIsComplete)
<1> SUFFICES ASSUME GraceCoversTail PROVE Spec => []MarkIsComplete
  BY Zenon
<1>1. IndInv /\ [Next]_vars => IndInv'
  BY IndInvStep, Zenon
<1>2. IndInv => MarkIsComplete
  BY Zenon DEF IndInv
<1>3. QED
  BY IndInvInit, <1>1, <1>2, PTL DEF Spec

-----------------------------------------------------------------------------
(***************************************************************************)
(* The refinement.  Durable makes the object of a key the write that its   *)
(* manifest names, so that an object changes only when a manifest does.    *)
(***************************************************************************)

\* A write that has not begun has no coordinator.
IdleInv == \A w \in Write : pc[w] = "idle" => coord[w] = NoNode

\* Every step keeps IdleInv.
LEMMA IdleStep == ASSUME TypeOK, IdleInv, [Next]_vars PROVE IdleInv'
<1>1. ASSUME NEW w \in Write, WriteStep(w) PROVE IdleInv'
  <2>1. CASE \E n \in Gateways, k \in Key : BeginWrite(w, n, k)
    BY Zenon, <2>1 DEF BeginWrite, IdleInv, TypeOK
  <2>2. CASE coord' = coord /\ (pc' = pc \/ \E to \in PcValues \ {"idle"} : pc' = [pc EXCEPT ![w] = to])
    BY <2>2, Zenon DEF IdleInv, TypeOK
  <2>3. CASE MarkWriting(w) \/ ShortBody(w) \/ EmptyBody(w) \/ (\E n \in Node : StoreChunk(w, n))
    BY <2>2, <2>3, Zenon DEF MarkWriting, ShortBody, EmptyBody, StoreChunk, PcValues
  <2>4. CASE ChunkReplicated(w) \/ FailWrite(w) \/ Commit(w) \/ StopWriting(w)
    BY <2>2, <2>4, Zenon DEF ChunkReplicated, FailWrite, Commit, StopWriting, PcValues
  <2>5. QED
    BY <1>1, <2>1, <2>3, <2>4, Zenon DEF WriteStep
<1>2. ASSUME NEW n \in Node, Crash(n) PROVE IdleInv'
  BY <1>2, Zenon DEF Crash, IdleInv, TypeOK
<1>3. ASSUME UNCHANGED writeVars PROVE IdleInv'
  BY <1>3, Zenon DEF writeVars, IdleInv
<1>4. ASSUME NEW n \in Collectors, PassStep(n) \/ FailCollect(n) PROVE UNCHANGED writeVars
  BY Zenon, <1>4 DEF PassStep, NextSlice, BeginPass, WritesInFlight, DropRecord, ScanObject, RemoveChunk,
              EndCollect, FailCollect
<1>5. QED
  BY ZenonT(30), <1>1, <1>2, <1>3, <1>4 DEF Next, Delete, SetMembers, Age, vars

\* Nothing is lost, so a key's object is that of its manifest.
Whole == [k \in Key |-> IF manifest[k] = NoManifest THEN NoNode ELSE manifest[k].write]

\* No object maps to the lost value.
LEMMA ObjectsAreWhole == IndInv => Objects = Whole
BY Zenon DEF IndInv, Durable, Objects, ObjectOf, Whole

\* A step that changes neither manifests nor what clients know is no step at all.
LEMMA SameStore ==
  ASSUME Objects = Whole, Objects' = Whole', UNCHANGED <<manifest, key>>, Statuses' = Statuses
  PROVE  UNCHANGED Store!storeVars
BY Zenon DEF Whole, Store!storeVars

\* A step that leaves every write where it is leaves the clients' requests as they are.
LEMMA SamePc == ASSUME UNCHANGED pc PROVE Statuses' = Statuses
BY Zenon DEF Statuses, StatusOf

\* One write changes its state, and nobody else does.
LEMMA OnePc ==
  ASSUME TypeOK, NEW w \in Write, NEW to, pc' = [pc EXCEPT ![w] = to],
         NEW s, StatusOf(w)' = s
  PROVE  Statuses' = [Statuses EXCEPT ![w] = s]
<1>1. \A v \in Write : v # w => StatusOf(v)' = StatusOf(v)
  BY Zenon DEF TypeOK, StatusOf
<1>2. QED
  BY Zenon, <1>1 DEF Statuses

\* A write fails, whatever it was at.
LEMMA OneFails ==
  ASSUME TypeOK, Objects = Whole, Objects' = Whole', UNCHANGED <<manifest, key>>,
         NEW w \in Write, pc[w] \in {"begun", "pushing", "stored"}, pc' = [pc EXCEPT ![w] = "failing"]
  PROVE  Store!Fail({w})
<1>1. StatusOf(w) = "open" /\ StatusOf(w)' = "failed"
  BY Zenon DEF StatusOf, TypeOK
<1>2. Statuses' = [Statuses EXCEPT ![w] = "failed"]
  BY ZenonT(30), <1>1, OnePc
<1>3. Objects' = Objects
  BY Zenon DEF Whole
<1>4. QED
  BY Zenon, <1>1, <1>2, <1>3 DEF Store!Fail, Statuses

\* The steps of a write.
LEMMA WriteRefines ==
  ASSUME TypeOK, Objects = Whole, Objects' = Whole', NEW w \in Write, WriteStep(w)
  PROVE  Store!Next \/ UNCHANGED Store!storeVars
<1>1. ASSUME NEW n \in Gateways, NEW k \in Key, BeginWrite(w, n, k) PROVE Store!Begin(w, k)
  <2>1. StatusOf(w) = "idle" /\ StatusOf(w)' = "open"
    BY <1>1, Zenon DEF BeginWrite, StatusOf, TypeOK
  <2>2. Statuses' = [Statuses EXCEPT ![w] = "open"]
    BY Zenon, <1>1, <2>1, OnePc DEF BeginWrite
  <2>3. Objects' = Objects
    BY <1>1, Zenon DEF Whole, BeginWrite, etcdVars
  <2>4. QED
    BY <1>1, <2>1, <2>2, <2>3, Zenon DEF Store!Begin, Statuses, BeginWrite
<1>2. CASE MarkWriting(w)
  <2>1. CASE pc' = [pc EXCEPT ![w] = "failing"]
    BY Zenon, <1>2, <2>1, OneFails DEF MarkWriting, Store!Next
  <2>2. CASE pc' = [pc EXCEPT ![w] = "pushing"]
    <3>1. Statuses' = Statuses
      BY <1>2, <2>2, Zenon DEF MarkWriting, Statuses, StatusOf, TypeOK
    <3>2. QED
      BY <1>2, <3>1, SameStore, Zenon DEF MarkWriting
  <2>3. QED
    BY <1>2, <2>1, <2>2, Zenon DEF MarkWriting
<1>3. CASE ShortBody(w) \/ EmptyBody(w) \/ ChunkReplicated(w)
  <2>1. /\ pc[w] \in {"begun", "pushing", "stored"}
        /\ pc' = pc \/ \E to \in {"pushing", "stored"} : pc' = [pc EXCEPT ![w] = to]
    BY <1>3, Zenon DEF ShortBody, EmptyBody, ChunkReplicated
  <2>2. Statuses' = Statuses
    BY <2>1, Zenon DEF Statuses, StatusOf, TypeOK
  <2>3. UNCHANGED <<manifest, key>>
    BY <1>3, Zenon DEF ShortBody, EmptyBody, ChunkReplicated, etcdVars
  <2>4. QED
    BY <2>2, <2>3, SameStore, Zenon
<1>4. CASE \E n \in Node : StoreChunk(w, n)
  BY ZenonT(30), <1>4, SamePc, SameStore DEF StoreChunk, etcdVars
<1>5. CASE FailWrite(w)
  BY ZenonT(30), <1>5, OneFails DEF FailWrite, etcdVars, Store!Next
<1>6. CASE Commit(w)
  <2>1. PICK next \in {"committed", "failing"} : pc' = [pc EXCEPT ![w] = next]
    BY Zenon, <1>6 DEF Commit
  <2>2. StatusOf(w) = "open"
    BY ZenonT(30), <1>6 DEF Commit, StatusOf
  <2>3. StatusOf(w)' = IF next = "committed" THEN "applied" ELSE "failed"
    BY <2>1, Zenon DEF StatusOf, TypeOK
  <2>4. \E to \in {"applied", "failed"} : Statuses' = [Statuses EXCEPT ![w] = to]
    BY Zenon, <2>1, <2>3, OnePc
  <2>5. Objects' = [Objects EXCEPT ![key[w]] = w]
    <3>1. [write |-> w, size |-> stored[w], nodes |-> owners[w]] # NoManifest
      BY ZenonT(30), WriteAssumption DEF NoManifest
    <3>2. QED
      BY ZenonT(30), <1>6, <3>1 DEF Commit, Whole, TypeOK
  <2>6. Store!Apply(w)
    BY Zenon, <1>6, <2>2, <2>4, <2>5 DEF Store!Apply, Statuses, Commit
  <2>7. QED
    BY <2>6, Zenon DEF Store!Next
<1>7. CASE StopWriting(w)
  <2>1. UNCHANGED <<manifest, key>>
    BY <1>7, Zenon DEF StopWriting
  <2>2. CASE pc[w] = "failing"
    <3>1. Statuses' = Statuses
      BY <1>7, <2>2, Zenon DEF StopWriting, Statuses, StatusOf, TypeOK
    <3>2. QED
      BY <2>1, <3>1, SameStore, Zenon
  <2>3. CASE pc[w] = "committed"
    <3>1. pc' = [pc EXCEPT ![w] = "acked"]
      BY <1>7, <2>3, Zenon DEF StopWriting
    <3>2. StatusOf(w) = "applied" /\ StatusOf(w)' = "acked"
      BY <2>3, <3>1, Zenon DEF StatusOf, TypeOK
    <3>3. Statuses' = [Statuses EXCEPT ![w] = "acked"]
      BY Zenon, <3>1, <3>2, OnePc
    <3>4. Objects' = Objects
      BY <2>1, Zenon DEF Whole
    <3>5. Store!Acknowledge(w)
      BY <2>1, <3>2, <3>3, <3>4, Zenon DEF Store!Acknowledge, Statuses
    <3>6. QED
      BY <3>5, Zenon DEF Store!Next
  <2>4. QED
    BY <1>7, <2>2, <2>3, Zenon DEF StopWriting
<1>8. QED
  BY <1>1, <1>2, <1>3, <1>4, <1>5, <1>6, <1>7, Zenon DEF WriteStep, Store!Next

\* The steps of everyone else.
LEMMA OthersRefine ==
  ASSUME TypeOK, IdleInv, Objects = Whole, Objects' = Whole', Next, ~ \E w \in Write : WriteStep(w)
  PROVE  Store!Next \/ UNCHANGED Store!storeVars
<1>1. ASSUME NEW k \in Key, Delete(k) PROVE Store!Next
  <2>1. Objects' = [Objects EXCEPT ![k] = NoNode]
    BY Zenon, <1>1 DEF Delete, Whole, TypeOK
  <2>2. Statuses' = Statuses /\ key' = key
    BY <1>1, SamePc, Zenon DEF Delete, writeVars
  <2>3. Store!Remove(k)
    BY <2>1, <2>2, Zenon DEF Store!Remove
  <2>4. QED
    BY <2>3, Zenon DEF Store!Next
<1>2. ASSUME NEW n \in Node, Crash(n) PROVE Store!Next
  <2> DEFINE some == {w \in Write : coord[w] = n /\ StatusOf(w) \in {"open", "applied"}}
  <2>1. ASSUME NEW w \in Write
        PROVE  StatusOf(w)' = IF w \in some THEN "failed" ELSE StatusOf(w)
    <3>1. pc'[w] = IF coord[w] = n /\ pc[w] \notin {"acked", "failed"} THEN "dead" ELSE pc[w]
      BY <1>2, Zenon DEF Crash
    <3>2. CASE pc'[w] = pc[w]
      <4>1. w \notin some \/ pc[w] = "dead"
        BY <3>1, <3>2, Zenon DEF StatusOf
      <4>2. QED
        BY <3>2, <4>1, Zenon DEF StatusOf
    <3>3. CASE pc'[w] # pc[w]
      <4>1. coord[w] = n /\ pc[w] \notin {"acked", "failed", "dead"} /\ pc'[w] = "dead"
        BY <3>1, <3>3, Zenon
      <4>2. pc[w] # "idle"
        BY <4>1, NodeAssumption, Zenon DEF IdleInv
      <4>3. StatusOf(w)' = "failed"
        BY <4>1, Zenon DEF StatusOf
      <4>4. CASE pc[w] = "failing"
        BY <4>3, <4>4, Zenon DEF StatusOf
      <4>5. CASE pc[w] # "failing"
        <5>1. pc[w] \in {"begun", "pushing", "stored", "committed"}
          BY <4>1, <4>2, <4>5, Zenon DEF TypeOK, PcValues
        <5>2. QED
          BY <4>1, <4>3, <5>1, Zenon DEF StatusOf
      <4>6. QED
        BY <4>4, <4>5, Zenon
    <3>4. QED
      BY <3>2, <3>3, Zenon
  <2>2. Statuses' = [w \in Write |-> IF w \in some THEN "failed" ELSE Statuses[w]]
    BY <2>1, Zenon DEF Statuses
  <2>3. Objects' = Objects /\ key' = key
    BY Zenon, <1>2 DEF Crash, Whole, etcdVars
  <2>4. \A w \in some : Statuses[w] \in {"open", "applied"}
    BY Zenon DEF Statuses
  <2>5. Store!Fail(some)
    BY Zenon, <2>2, <2>3, <2>4 DEF Store!Fail
  <2>6. QED
    BY <2>5, Zenon DEF Store!Next
<1>3. CASE UNCHANGED <<manifest, writeVars>>
  BY <1>3, SamePc, SameStore, Zenon DEF writeVars
<1>4. ASSUME NEW n \in Collectors, PassStep(n) \/ FailCollect(n) PROVE UNCHANGED <<manifest, writeVars>>
  BY Zenon, <1>4 DEF PassStep, NextSlice, BeginPass, WritesInFlight, DropRecord, ScanObject, RemoveChunk,
              EndCollect, FailCollect, etcdVars
<1>5. QED
  BY Zenon, <1>1, <1>2, <1>3, <1>4 DEF Next, SetMembers, Age, etcdVars

\* The cluster implements the register that its clients are promised: with any number
\* of nodes, keys, concurrent puts and passes, through crashes, lapsed leases and
\* membership changes, an acknowledged put has taken effect once and is readable whole
\* until the key is put again or deleted.
THEOREM ImplementsObjectStore == GraceCoversTail => (Spec => IsObjectStore)
<1> SUFFICES ASSUME GraceCoversTail PROVE Spec => IsObjectStore
  BY Zenon
<1>1. Init => IdleInv /\ Store!Init
  <2> SUFFICES ASSUME Init PROVE IdleInv /\ Store!Init
    BY Zenon
  <2>1. IdleInv /\ key \in [Write -> Key \cup {0}]
    BY Zenon DEF Init, IdleInv
  <2>2. Objects = [k \in Key |-> NoNode]
    BY Zenon DEF Init, Objects, ObjectOf
  <2>3. Statuses = [w \in Write |-> "idle"]
    BY Zenon DEF Init, Statuses, StatusOf
  <2>4. QED
    BY <2>1, <2>2, <2>3, Zenon DEF Store!Init
<1>2. IndInv /\ [Next]_vars => IndInv'
  BY IndInvStep, Zenon
<1>3. IndInv /\ IdleInv /\ [Next]_vars => IdleInv'
  BY IdleStep, Zenon DEF IndInv
<1>4. IndInv /\ IndInv' /\ IdleInv /\ Objects = Whole /\ (Objects = Whole)' /\ [Next]_vars
        => [Store!Next]_(Store!storeVars)
  <2> SUFFICES ASSUME IndInv, IndInv', IdleInv, Objects = Whole, Objects' = Whole', [Next]_vars
      PROVE Store!Next \/ UNCHANGED Store!storeVars
    BY Zenon
  <2>1. TypeOK
    BY Zenon DEF IndInv
  <2>2. CASE UNCHANGED vars
    BY <2>2, SamePc, SameStore, Zenon DEF vars, etcdVars, writeVars
  <2>3. CASE Next
    BY <2>1, <2>3, WriteRefines, OthersRefine, Zenon
  <2>4. QED
    BY <2>2, <2>3, Zenon
<1>5. QED
  BY IndInvInit, <1>1, <1>2, <1>3, <1>4, ObjectsAreWhole, PTL DEF Spec, IsObjectStore, Store!Spec
=============================================================================
