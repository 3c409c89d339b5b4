----------------------------- MODULE Collection -----------------------------
(***************************************************************************)
(* The write path and the collection pass of kavo, and the race between    *)
(* them.                                                                   *)
(*                                                                         *)
(* A write stores its chunks on the nodes that own its key, and only then  *)
(* commits the manifest that names them (cluster.go, Put and write).  Each *)
(* node meanwhile runs a mark-and-sweep pass over its own disk             *)
(* (collect.go, Collect): it reads the records of the writes in flight,    *)
(* then every committed manifest one page at a time, and deletes the old   *)
(* chunks that neither of them mentions.  Nothing locks one out of the     *)
(* other; what keeps a chunk alive is the order in which each side does    *)
(* its reads and writes of etcd.                                           *)
(*                                                                         *)
(* etcd is modelled as a set of atomic registers (external).  Bodies,      *)
(* checksums and sizes are abstracted: a write is a random id prefix, its  *)
(* chunks are that prefix and an index, and a manifest says which write    *)
(* made it, how many chunks it has and which nodes hold them.              *)
(***************************************************************************)
EXTENDS Integers, FiniteSets

CONSTANTS
  Node,           \* node ids
  NoNode,         \* the absence of a node
  Gateways,       \* the nodes that clients send their requests to
  Collectors,     \* the nodes whose CollectLoop is running
  Memberships,    \* the memberships etcd may report
  Write,          \* write ids: object.WriteID, the prefix of a write's chunks
  NumKeys,        \* object keys, numbered in the order a scan reads them
  MaxChunks,      \* bound on the chunks of one write
  W,              \* the write quorum
  Owners(_, _),   \* ring.Owners: a key's owners in a view of the membership
  SliceOf(_),     \* the slice of the id space that a write's chunks are in
  NumSlices,      \* CollectSlices
  BadSlices,      \* slices whose directory cannot be read (ScanChunks fails)
  MaxFaults,      \* bound on crashes and on passes that fail part way
  GraceCoversTail \* an unannounced write ends within the grace period

Key   == 1..NumKeys
Slice == 0..(NumSlices - 1)
Chunk == Write \X (1..MaxChunks)

ASSUME NodeAssumption    == /\ NoNode \notin Node
                            /\ Gateways \subseteq Node /\ Collectors \subseteq Node
                            /\ Memberships \subseteq SUBSET Node
ASSUME BoundAssumption   == NumKeys \in Nat /\ MaxChunks \in Nat \ {0} /\ MaxFaults \in Nat
ASSUME QuorumAssumption  == W \in Nat \ {0}
ASSUME OwnersAssumption  == \A k \in Key, v \in SUBSET Node : Owners(k, v) \subseteq v
ASSUME SliceAssumption   == /\ NumSlices \in Nat \ {0}
                            /\ \A w \in Write : SliceOf(w) \in Slice
                            /\ BadSlices \subseteq Slice
ASSUME GraceAssumption   == GraceCoversTail \in BOOLEAN

VARIABLES
  \* etcd
  manifest,   \* the committed manifest of each key
  record,     \* the node recorded as coordinating each write in flight
  cursor,     \* per node, the slice its next pass sweeps
  \* disks
  disk,       \* per node, the chunks it holds
  aged,       \* per node, the chunks last modified longer than the grace ago
  \* coordinators
  view,       \* per node, live.peers: the members it can see, itself included
  pc,         \* per write, how far it has got
  coord,      \* per write, the node coordinating it
  key,        \* per write, the key it will commit under
  owners,     \* per write, the placement it took when it began
  announced,  \* per write, whether it took out a record
  pushed,     \* per write, how many chunks it has begun to push to the owners
  stored,     \* per write, how many of them have reached the quorum
  acks,       \* per write, the owners that acknowledged the chunk in hand
  \* collection passes
  phase,      \* per node, the step its pass is at
  slice,      \* per node, the slice the pass sweeps
  eligible,   \* per node, chunks older than the pass's cutoff
  writing,    \* per node, the writes the pass found in flight
  stale,      \* per node, the records it has still to drop
  referenced, \* per node, the chunks the manifests read so far name here
  at,         \* per node, the next key of its manifest scan
  faults      \* crashes and failed passes so far

etcdVars   == <<manifest, record, cursor>>
diskVars   == <<disk, aged>>
writeVars  == <<pc, coord, key, owners, announced, pushed, stored, acks>>
passVars   == <<phase, slice, eligible, writing, stale, referenced, at>>
vars       == <<etcdVars, diskVars, view, writeVars, passVars, faults>>

NoManifest == [write |-> NoNode, size |-> 0, nodes |-> {}]
Manifest   == [write : Write, size : 0..MaxChunks, nodes : SUBSET Node]

\* Chunk ids are the write's prefix and an index.
ChunksOf(m) == {m.write} \X (1..m.size)

-----------------------------------------------------------------------------
(***************************************************************************)
(* The write path.                                                         *)
(***************************************************************************)

Init ==
  /\ manifest = [k \in Key |-> NoManifest]
  /\ record = [w \in Write |-> NoNode]
  /\ cursor = [n \in Node |-> 0]
  /\ disk = [n \in Node |-> {}]
  /\ aged = [n \in Node |-> {}]
  /\ view = [n \in Node |-> Node]
  /\ pc = [w \in Write |-> "idle"]
  /\ coord = [w \in Write |-> NoNode]
  /\ key = [w \in Write |-> 0]
  /\ owners = [w \in Write |-> {}]
  /\ announced = [w \in Write |-> FALSE]
  /\ pushed = [w \in Write |-> 0]
  /\ stored = [w \in Write |-> 0]
  /\ acks = [w \in Write |-> {}]
  /\ phase = [n \in Node |-> "idle"]
  /\ slice = [n \in Node |-> 0]
  /\ eligible = [n \in Node |-> {}]
  /\ writing = [n \in Node |-> {}]
  /\ stale = [n \in Node |-> {}]
  /\ referenced = [n \in Node |-> {}]
  /\ at = [n \in Node |-> 1]
  /\ faults = 0

\* Put/write: the placement is one snapshot of the coordinator's view, and a
\* placement narrower than the quorum is refused before a byte is stored.
BeginWrite(w, n, k) ==
  /\ pc[w] = "idle"
  /\ Cardinality(Owners(k, view[n])) >= W
  /\ pc' = [pc EXCEPT ![w] = "begun"]
  /\ coord' = [coord EXCEPT ![w] = n]
  /\ key' = [key EXCEPT ![w] = k]
  /\ owners' = [owners EXCEPT ![w] = Owners(k, view[n])]
  /\ UNCHANGED <<etcdVars, diskVars, view, announced, pushed, stored, acks, passVars, faults>>

\* The first chunk is full, so there may be another: the write records itself
\* before it stores anything.  MarkWriting may also fail after etcd has applied
\* it, and the write then gives up.
MarkWriting(w) ==
  /\ pc[w] = "begun"
  /\ record' = [record EXCEPT ![w] = coord[w]]
  /\ announced' = [announced EXCEPT ![w] = TRUE]
  /\ \/ /\ pc' = [pc EXCEPT ![w] = "pushing"]
        /\ pushed' = [pushed EXCEPT ![w] = 1]
     \/ /\ pc' = [pc EXCEPT ![w] = "failing"]
        /\ pushed' = pushed
  /\ UNCHANGED <<manifest, cursor, diskVars, view, coord, key, owners, stored, acks,
                 passVars, faults>>

\* The first chunk is short, so it is also the last: no record is taken out.
ShortBody(w) ==
  /\ pc[w] = "begun"
  /\ pc' = [pc EXCEPT ![w] = "pushing"]
  /\ pushed' = [pushed EXCEPT ![w] = 1]
  /\ UNCHANGED <<etcdVars, diskVars, view, coord, key, owners, announced, stored, acks,
                 passVars, faults>>

\* An empty body has no chunks at all.
EmptyBody(w) ==
  /\ pc[w] = "begun"
  /\ pc' = [pc EXCEPT ![w] = "stored"]
  /\ UNCHANGED <<etcdVars, diskVars, view, coord, key, owners, announced, pushed, stored,
                 acks, passVars, faults>>

\* One owner fsyncs a chunk, the one in hand or one before it.  The coordinator may not
\* hear of it, and a push that it has given up on, or done without, may land when the
\* write has gone on, has failed or has ended.
StoreChunk(w, n) ==
  /\ pc[w] \notin {"idle", "begun"}
  /\ n \in owners[w]
  /\ \E i \in 1..pushed[w] :
       /\ <<w, i>> \notin disk[n]
       /\ disk' = [disk EXCEPT ![n] = @ \cup {<<w, i>>}]
       /\ aged' = [aged EXCEPT ![n] = @ \ {<<w, i>>}]
       /\ eligible' = [eligible EXCEPT ![n] = @ \ {<<w, i>>}]
       /\ \/ pc[w] = "pushing" /\ i = stored[w] + 1 /\ acks' = [acks EXCEPT ![w] = @ \cup {n}]
          \/ acks' = acks
  /\ UNCHANGED <<etcdVars, view, pc, coord, key, owners, announced, pushed, stored,
                 phase, slice, writing, stale, referenced, at, faults>>

\* replicate: every push has answered and at least W succeeded.  A short chunk
\* was the last one; a full one may be.
ChunkReplicated(w) ==
  /\ pc[w] = "pushing"
  /\ stored[w] < pushed[w]
  /\ Cardinality(acks[w]) >= W
  /\ stored' = [stored EXCEPT ![w] = @ + 1]
  /\ acks' = [acks EXCEPT ![w] = {}]
  /\ \/ /\ pc' = [pc EXCEPT ![w] = "stored"]
        /\ pushed' = pushed
     \/ /\ announced[w] /\ pushed[w] < MaxChunks
        /\ pc' = pc
        /\ pushed' = [pushed EXCEPT ![w] = @ + 1]
  /\ UNCHANGED <<etcdVars, diskVars, view, coord, key, owners, announced, passVars, faults>>

\* A quorum not met, a body that could not be read, a declared digest that does
\* not match, a record found gone (ErrNotWriting) or an etcd error: the write fails.
FailWrite(w) ==
  /\ pc[w] \in {"begun", "pushing", "stored"}
  /\ pc' = [pc EXCEPT ![w] = "failing"]
  /\ acks' = [acks EXCEPT ![w] = {}]
  /\ UNCHANGED <<etcdVars, diskVars, view, coord, key, owners, announced, pushed,
                 stored, passVars, faults>>

\* Mutant: the commit of an announced write does not look at its record.
CommitUnconditionally(w) ==
  /\ pc[w] = "stored"
  /\ manifest' = [manifest EXCEPT
                    ![key[w]] = [write |-> w, size |-> stored[w], nodes |-> owners[w]]]
  /\ \E next \in {"committed", "failing"} : pc' = [pc EXCEPT ![w] = next]
  /\ UNCHANGED <<record, cursor, diskVars, view, coord, key, owners, announced, pushed,
                 stored, acks, passVars, faults>>

\* Mutant: a commit that timed out is tried again after the write was given up.
CommitAgain(w) ==
  /\ pc[w] \in {"stored", "failing"}
  /\ announced[w] => record[w] # NoNode
  /\ manifest' = [manifest EXCEPT
                    ![key[w]] = [write |-> w, size |-> stored[w], nodes |-> owners[w]]]
  /\ \E next \in {"committed", "failing"} : pc' = [pc EXCEPT ![w] = next]
  /\ UNCHANGED <<record, cursor, diskVars, view, coord, key, owners, announced, pushed,
                 stored, acks, passVars, faults>>

\* meta.Commit, or CommitWhileWriting for a write that announced itself: one
\* etcd transaction, conditional on the record.  Its answer may be lost.
Commit(w) ==
  /\ pc[w] = "stored"
  /\ announced[w] => record[w] # NoNode
  /\ manifest' = [manifest EXCEPT
                    ![key[w]] = [write |-> w, size |-> stored[w], nodes |-> owners[w]]]
  /\ \E next \in {"committed", "failing"} : pc' = [pc EXCEPT ![w] = next]
  /\ UNCHANGED <<record, cursor, diskVars, view, coord, key, owners, announced, pushed,
                 stored, acks, passVars, faults>>

\* stopWriting, then the answer to the client.  A failure to clear the record
\* is only logged.
StopWriting(w) ==
  /\ \/ pc[w] = "committed" /\ pc' = [pc EXCEPT ![w] = "acked"]
     \/ pc[w] = "failing"   /\ pc' = [pc EXCEPT ![w] = "failed"]
  /\ \/ record' = [record EXCEPT ![w] = NoNode]
     \/ announced[w] /\ record' = record
  /\ UNCHANGED <<manifest, cursor, diskVars, view, coord, key, owners, announced, pushed,
                 stored, acks, passVars, faults>>

\* Delete removes the manifest and leaves the chunks to collection.
Delete(k) ==
  /\ manifest[k] # NoManifest
  /\ manifest' = [manifest EXCEPT ![k] = NoManifest]
  /\ UNCHANGED <<record, cursor, diskVars, view, writeVars, passVars, faults>>

-----------------------------------------------------------------------------
(***************************************************************************)
(* The environment: membership as each node sees it, time, and crashes.    *)
(***************************************************************************)

\* SetMembers: a lease may lapse or return at any moment and each node hears of
\* it at its own time, but a node is always in its own view.
SetMembers(n, v) ==
  /\ v \cup {n} # view[n]
  /\ view' = [view EXCEPT ![n] = v \cup {n}]
  /\ UNCHANGED <<etcdVars, diskVars, writeVars, passVars, faults>>

\* A write that can still commit although no record protects it.
UnrecordedTail(w) == pc[w] \in {"pushing", "stored"} /\ ~announced[w]

\* A chunk grows older than the grace period.  What the grace period is for is
\* the tail of a write that took out no record: when it is long enough, such a
\* write has ended before its chunk is old.
Age(n, c) ==
  /\ c \in disk[n] \ aged[n]
  /\ GraceCoversTail => ~UnrecordedTail(c[1])
  /\ aged' = [aged EXCEPT ![n] = @ \cup {c}]
  /\ UNCHANGED <<etcdVars, disk, view, writeVars, passVars, faults>>

EndPass(n) ==
  /\ phase' = [phase EXCEPT ![n] = "idle"]
  /\ eligible' = [eligible EXCEPT ![n] = {}]
  /\ writing' = [writing EXCEPT ![n] = {}]
  /\ stale' = [stale EXCEPT ![n] = {}]
  /\ referenced' = [referenced EXCEPT ![n] = {}]
  /\ at' = [at EXCEPT ![n] = 1]
  /\ UNCHANGED slice

\* The process dies and restarts: the requests it was coordinating and its pass
\* are gone, its disk and everything in etcd stay.
Crash(n) ==
  /\ faults < MaxFaults
  /\ faults' = faults + 1
  /\ pc' = [w \in Write |->
              IF coord[w] = n /\ pc[w] \notin {"acked", "failed"} THEN "dead" ELSE pc[w]]
  /\ EndPass(n)
  /\ UNCHANGED <<etcdVars, diskVars, view, coord, key, owners, announced, pushed,
                 stored, acks>>

-----------------------------------------------------------------------------
(***************************************************************************)
(* The collection pass of one node.                                        *)
(***************************************************************************)

BeginPass(n) ==
  /\ phase[n] = "idle"
  /\ slice' = [slice EXCEPT ![n] = cursor[n]]
  /\ eligible' = [eligible EXCEPT ![n] = {c \in aged[n] : SliceOf(c[1]) = cursor[n]}]
  /\ phase' = [phase EXCEPT ![n] = "records"]
  /\ UNCHANGED <<manifest, record, diskVars, view, writeVars, writing, stale, referenced, at,
                 faults>>

\* Mutant: the cursor runs past the last slice.
NextSliceUnwrapped(n) ==
  BeginPass(n) /\ cursor' = [cursor EXCEPT ![n] = @ + 1]

\* Mutant: the cursor is saved once the pass has succeeded.
NextSliceOnSuccess(n) ==
  /\ BeginPass(n)
  /\ cursor' = [cursor EXCEPT ![n] = IF @ \in BadSlices THEN @ ELSE (@ + 1) % NumSlices]

\* Collect/nextSlice: the cursor moves on before the pass runs.  The cutoff is
\* taken here, before any metadata is read: what is not old yet is not eligible.
NextSlice(n) ==
  BeginPass(n) /\ cursor' = [cursor EXCEPT ![n] = (@ + 1) % NumSlices]

\* Mutant: the pass reads no records.
WritesInFlightIgnored(n) ==
  /\ phase[n] = "records"
  /\ phase' = [phase EXCEPT ![n] = "marking"]
  /\ UNCHANGED <<etcdVars, diskVars, view, writeVars, slice, eligible, writing, stale,
                 referenced, at, faults>>

\* Mutant: every record protects its write, whoever took it out.
WritesInFlightAll(n) ==
  /\ phase[n] = "records"
  /\ writing' = [writing EXCEPT ![n] = {w \in Write : record[w] # NoNode}]
  /\ phase' = [phase EXCEPT ![n] = "marking"]
  /\ UNCHANGED <<etcdVars, diskVars, view, writeVars, slice, eligible, stale, referenced, at,
                 faults>>

\* writesInFlight: one read of the records, judged by the node's view.  Those of
\* nodes it no longer sees protect nothing and are to be dropped.  The view is
\* loaded just after the read; a change of it in between commutes with the read.
WritesInFlight(n) ==
  /\ phase[n] = "records"
  /\ writing' = [writing EXCEPT ![n] = {w \in Write : record[w] \in view[n]}]
  /\ stale' = [stale EXCEPT ![n] = {w \in Write : record[w] \notin view[n] \cup {NoNode}}]
  /\ phase' = [phase EXCEPT ![n] = "marking"]
  /\ UNCHANGED <<etcdVars, diskVars, view, writeVars, slice, eligible, referenced, at, faults>>

\* DoneWriting on one stale record, before any manifest is read.
DropRecord(n, w) ==
  /\ phase[n] = "marking"
  /\ w \in stale[n]
  /\ record' = [record EXCEPT ![w] = NoNode]
  /\ stale' = [stale EXCEPT ![n] = @ \ {w}]
  /\ UNCHANGED <<manifest, cursor, diskVars, view, writeVars, phase, slice, eligible, writing,
                 referenced, at, faults>>

\* reference: what manifest m of key k says this node holds, or its own ring
\* says it is about to hold.
NamedHere(n, k, m) ==
  IF m # NoManifest /\ (n \in m.nodes \/ n \in Owners(k, view[n]))
  THEN ChunksOf(m) ELSE {}

\* referenced: the scan reads the manifests in key order, page by page.
ScanObject(n) ==
  /\ phase[n] = "marking"
  /\ stale[n] = {}
  /\ at[n] <= NumKeys
  /\ referenced' = [referenced EXCEPT ![n] = @ \cup NamedHere(n, at[n], manifest[at[n]])]
  /\ at' = [at EXCEPT ![n] = @ + 1]
  /\ UNCHANGED <<etcdVars, diskVars, view, writeVars, phase, slice, eligible, writing, stale,
                 faults>>

\* Mutant: the scan stops one key short of the end.
ScanDoneEarly(n) == phase[n] = "marking" /\ stale[n] = {} /\ at[n] >= NumKeys

ScanDone(n) == phase[n] = "marking" /\ stale[n] = {} /\ at[n] = NumKeys + 1

\* The chunks of the slice that the pass deletes: on disk, older than the
\* cutoff, named by no manifest it read and by no write in flight.
Sweepable(n) ==
  {c \in eligible[n] \cap disk[n] : c \notin referenced[n] /\ c[1] \notin writing[n]}

RemoveChunk(n, c) ==
  /\ ScanDone(n)
  /\ slice[n] \notin BadSlices
  /\ c \in Sweepable(n)
  /\ disk' = [disk EXCEPT ![n] = @ \ {c}]
  /\ aged' = [aged EXCEPT ![n] = @ \ {c}]
  /\ eligible' = [eligible EXCEPT ![n] = @ \ {c}]
  /\ UNCHANGED <<etcdVars, view, writeVars, phase, slice, writing, stale, referenced, at, faults>>

\* The pass is over: the slice is clean, or its directory could not be read.
EndCollect(n) ==
  /\ ScanDone(n)
  /\ slice[n] \in BadSlices \/ Sweepable(n) = {}
  /\ EndPass(n)
  /\ UNCHANGED <<etcdVars, diskVars, view, writeVars, faults>>

\* A read of etcd or a removal failed: whatever is left waits for another pass.
FailCollect(n) ==
  /\ phase[n] # "idle"
  /\ faults < MaxFaults
  /\ faults' = faults + 1
  /\ EndPass(n)
  /\ UNCHANGED <<etcdVars, diskVars, view, writeVars>>

-----------------------------------------------------------------------------
WriteStep(w) ==
  \/ \E n \in Gateways, k \in Key : BeginWrite(w, n, k)
  \/ MarkWriting(w) \/ ShortBody(w) \/ EmptyBody(w)
  \/ \E n \in Node : StoreChunk(w, n)
  \/ ChunkReplicated(w) \/ FailWrite(w) \/ Commit(w) \/ StopWriting(w)

PassStep(n) ==
  \/ NextSlice(n) \/ WritesInFlight(n)
  \/ \E w \in Write : DropRecord(n, w)
  \/ ScanObject(n)
  \/ \E c \in Chunk : RemoveChunk(n, c)
  \/ EndCollect(n)

Next ==
  \/ \E w \in Write : WriteStep(w)
  \/ \E k \in Key : Delete(k)
  \/ \E n \in Collectors : PassStep(n) \/ FailCollect(n)
  \/ \E n \in Node : Crash(n)
  \/ \E n \in Node : \E v \in Memberships : SetMembers(n, v)
  \/ \E n \in Node : \E c \in Chunk : Age(n, c)

Spec == Init /\ [][Next]_vars

\* CollectLoop never stops passing, and time never stops: every step of a pass
\* is eventually taken and every chunk eventually grows old.  A coordinator
\* always finishes what it began, unless it crashes.
Fairness ==
  /\ \A n \in Collectors : WF_vars(PassStep(n))
  /\ \A n \in Node, c \in Chunk : WF_vars(Age(n, c))
  /\ \A w \in Write : WF_vars(StopWriting(w))

FairSpec == Spec /\ Fairness

-----------------------------------------------------------------------------
(***************************************************************************)
(* Properties.                                                             *)
(***************************************************************************)

PcValues == {"idle", "begun", "pushing", "stored", "committed", "failing",
             "acked", "failed", "dead"}

\* Every variable has the values the code gives it.
TypeOK ==
  /\ manifest \in [Key -> Manifest \cup {NoManifest}]
  /\ record \in [Write -> Node \cup {NoNode}]
  /\ cursor \in [Node -> Slice]
  /\ disk \in [Node -> SUBSET Chunk]
  /\ aged \in [Node -> SUBSET Chunk]
  /\ view \in [Node -> SUBSET Node]
  /\ pc \in [Write -> PcValues]
  /\ coord \in [Write -> Node \cup {NoNode}]
  /\ key \in [Write -> Key \cup {0}]
  /\ owners \in [Write -> SUBSET Node]
  /\ announced \in [Write -> BOOLEAN]
  /\ pushed \in [Write -> 0..MaxChunks]
  /\ stored \in [Write -> 0..MaxChunks]
  /\ acks \in [Write -> SUBSET Node]
  /\ phase \in [Node -> {"idle", "records", "marking"}]
  /\ slice \in [Node -> Slice]
  /\ eligible \in [Node -> SUBSET Chunk]
  /\ writing \in [Node -> SUBSET Write]
  /\ stale \in [Node -> SUBSET Write]
  /\ referenced \in [Node -> SUBSET Chunk]
  /\ at \in [Node -> 1..(NumKeys + 1)]
  /\ faults \in Nat

\* A chunk is durable on a placement when at least W of its nodes hold it.
HeldByQuorum(c, nodes) ==
  \E q \in SUBSET nodes : Cardinality(q) >= W /\ \A n \in q : c \in disk[n]

\* Invariant 1 of the design, "acknowledged writes are never lost", as Put states
\* it at the acknowledgement point: every chunk of every committed object stays on
\* at least W of the nodes its manifest names, whatever the passes of those nodes
\* are doing while the object is written, replaced and deleted around them.
Durable ==
  \A k \in Key : manifest[k] # NoManifest =>
    \A c \in ChunksOf(manifest[k]) : HeldByQuorum(c, manifest[k].nodes)

\* "A chunk is live if any manifest names it": no step deletes a copy that some
\* manifest, at that very moment, says this node holds, including the copies past
\* the quorum that Durable does not count.
OnlyGarbageRemoved ==
  [][\A n \in Node : \A c \in disk[n] \ disk'[n] :
       \A k \in Key : manifest[k] # NoManifest /\ n \in manifest[k].nodes
                        => c \notin ChunksOf(manifest[k])]_vars

\* A write that could commit now: it has stored chunks and, if it took out a
\* record, the record is still there for CommitWhileWriting to find.
Committable(w) ==
  pc[w] \in {"pushing", "stored"} /\ (announced[w] => record[w] # NoNode)

\* A write whose record was dropped must not be acknowledged, and one that can
\* still be must have lost nothing: what a write in flight has already stored is on
\* W owners for as long as its commit would succeed, however many passes have run
\* since the first chunk.
InFlightHeld ==
  \A w \in Write : Committable(w) =>
    /\ \A i \in 1..stored[w] : HeldByQuorum(<<w, i>>, owners[w])
    /\ \A n \in acks[w] : n \in owners[w] /\ <<w, stored[w] + 1>> \in disk[n]

\* A write stores nothing before it has decided whether to record itself: until
\* then no disk has, and no pass found, a chunk of it.
NoChunkTooSoon ==
  \A w \in Write : pc[w] \in {"idle", "begun"} =>
    /\ stored[w] = 0 /\ acks[w] = {}
    /\ \A n \in Node : \A c \in disk[n] \cup aged[n] \cup eligible[n] : c[1] # w

\* The tail of an unrecorded write is over before its chunk is old.
OldMeansRecorded ==
  \A n \in Node : \A c \in aged[n] \cup eligible[n] :
    Committable(c[1]) => announced[c[1]]

\* What a pass knows once it has read the records.  Of a chunk it might delete,
\* whose write it did not find in flight: the write cannot commit any more, unless
\* its record is about to be dropped; and a manifest that names the chunk on this
\* node is one it has read already or has still to read.
MarkIsComplete ==
  \A n \in Node :
    /\ phase[n] # "marking" \/ stale[n] # {} => at[n] = 1
    /\ phase[n] = "marking" => \A c \in eligible[n] : c[1] \notin writing[n] =>
         /\ c[1] \notin stale[n] => ~Committable(c[1])
         /\ c \notin referenced[n] =>
              \A k \in Key : manifest[k] # NoManifest /\ n \in manifest[k].nodes
                               /\ c \in ChunksOf(manifest[k]) => k >= at[n]

\* The two lemmas of a pass, and what they protect: the inductive invariant.
IndInv ==
  /\ TypeOK
  /\ Durable
  /\ InFlightHeld
  /\ NoChunkTooSoon
  /\ OldMeansRecorded
  /\ MarkIsComplete

\* What no manifest names and no write will ever commit.
Garbage(n, c) ==
  /\ c \in disk[n]
  /\ pc[c[1]] \in {"acked", "failed", "dead"}
  /\ record[c[1]] = NoNode
  /\ \A k \in Key : c \notin ChunksOf(manifest[k])

\* Collection finishes: garbage in a readable slice is eventually off the disk.  A
\* slice whose pass fails every time costs its own pass and does not hold up the
\* others, because nextSlice moves the cursor before the pass runs.
GarbageCollected ==
  \A n \in Collectors, c \in Chunk :
    SliceOf(c[1]) \notin BadSlices /\ Garbage(n, c) ~> c \notin disk[n]

\* The record of a write whose coordinator died is dropped once the collectors see
\* that node no more, so that a crash in mid-upload does not protect its garbage for
\* ever.  A node that is back before its lease ends is never unseen: see the README.
RecordEnds ==
  \A w \in Write :
    <>[](pc[w] = "dead" /\ \A n \in Collectors : coord[w] \notin view[n])
      => <>[](record[w] = NoNode)
=============================================================================
