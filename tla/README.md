# kavo: a TLA+ verification project

kavo is an object store. Every node runs an S3 front end, a coordinator and a
chunk store; object manifests, multipart uploads, the records of writes in
flight and the membership are in etcd. This project models how those parts act on
shared state, checks the models with TLC on small instances, and proves the
safety properties that matter most with TLAPS for every instance.

Contents: [the system](#the-system), [modules](#modules), [runs](#runs),
[bounds and fairness](#bounds-and-fairness), [proofs](#proofs),
[findings](#findings), [known limits](#known-limits), [what is not modelled](#what-is-not-modelled),
[next](#next), [running it](#running-it).

## The system

| Part | State it keeps | Operations | What makes it correct |
|---|---|---|---|
| Receiving a body (`object.Write`, `sigv4`, `s3.putObject`) | read position, buffer, chunks so far | fill, probe, grow, store, check digests | what is committed is what the client meant to send; only the last chunk is short |
| Write path (`cluster.Put`, `write`, `replicate`) | write record, acknowledgements | place, record, push, commit, clear | a committed object is on W nodes and stays there |
| Collection (`collect.go`) | slice cursor, what the pass has read | read records, scan parts and objects, sweep | deletes nothing live; garbage goes in the end |
| Copy (`cluster.Copy`) | none between its read and its commit | read manifest, commit under another key | shared chunks live as long as one name does |
| Multipart (`cluster/upload.go`, `meta/upload.go`) | upload record, parts, completion record | create, part, complete, abort, expire | chunks pass from parts to object; a retry is told the truth |
| Rebalancing (`rebalance.go`) | a move in progress, its walk's cursor | copy chunks or shards to new owners, conditional commit | no old version comes back; a quorum in place at all times |
| Repair, scrubbing (`repair.go`, `scrub.go`, `erasure.go`) | the gaps a survey found, their walks' cursors | survey, restore; verify, rebuild | heals what can be healed, and comes to rest |
| Chunk store (`store.go`) | files, directory entries, `tmp/` | stage, verify, sync, rename, sync directory; scan, remove | no partial chunk; acknowledged means durable |
| Membership (`members.go`, `SetMembers`) | leased keys, watch loop, view | take a lease, attach the key, renew, register again, list, watch | views follow the membership |
| Read path (`getObject`, `ReadRange`, `fetch`, `decode`) | position, the byte held back | find the window, choose a source, verify, hold back | a read returns what was asked for or stops short of it |
| Ring (`ring.go`) | none | owners of a partition | distinct owners, in a stable order |
| Listings (`cluster/list.go`, `s3/list.go`, `meta.Uploads`) | a marker held by the client | page, group by delimiter | each name exactly once, and an end |
| Front end, signatures, peer protocol, daemon | none, or per connection | translate and dispatch | stateless |

How they interact. A write pushes chunks to the owners that its node's view of the
membership gives, and commits a manifest that names them. From then on four things
act on those chunks without a lock: every node's collection pass deletes what no
manifest, part, record or ring gives it; rebalancing copies chunks to new owners
and changes the manifest; repair and scrubbing put files where they are missing or
rotted; copies and completions commit further manifests for chunks that are
already there. What keeps data alive is the order in which each of them reads and
writes etcd and the disk, and that is what the models keep in full detail.

The hard behaviours, listed one by one under `hazards` in `PROJECT.json`: commits
under keys a scan has passed; a record dropped under a stalled write; chunks that
are old before anything names them (copies, parts, moves); a retry of something
already done; a crash between any two steps of a durable write; views of the
membership that differ; a body cut off anywhere, on the way in or out; listings and
walks resumed in a store that has changed; healing that must not spread rot.

## Modules

| Module | Models | Extended by |
|---|---|---|
| `ObjectStore` | what clients are promised: a register per key | `Refinement`, by INSTANCE |
| `Refinement` | the mapping under which `Collection` implements it | `MCCollection`, `CollectionProofs` |
| `Collection` | the write path against the collection pass: `Put`, `write`, `replicate`, records, conditional commit, slices, scan, sweep | `Refinement`, `CollectionProofs` |
| `Receive` | one upload from the connection to the commit | `MCReceive`, `ReceiveProofs` |
| `Sweep` | the pass as operations that only name old chunks see it; no specification of its own | `Copying`, `Multipart` |
| `Copying` | `Copy` beside writes, deletes and the sweep | `MCCopying` |
| `Multipart` | uploads from creation to completion, abort or expiry, beside the sweep | `MCMultipart`, `MultipartProofs` |
| `Rebalance` | moves of copies and of shards beside clients, differing views and every node's sweep | `MCRebalance`, `RebalanceProofs` |
| `Ring` | virtual nodes and the walk that gives a partition its owners; pure operators | `MCRebalance`, by INSTANCE |
| `Heal` | repair and scrubbing of one chunk, replicated or coded | `MCHeal`, `ChunkStoreProofs` |
| `ChunkStore` | `durableWrite`, scan and removal of one chunk, with crashes | `MCChunkStore`, `ChunkStoreProofs` |
| `Membership` | leases, registration, the watch loop, `SetMembers` | `MCMembership`, `MembershipProofs` |
| `Read` | one GET or copied range, from its window to its last byte | `MCRead`, `ReadProofs` |
| `Listing` | pages of objects, versions, buckets, uploads and parts, and a node's walk over the objects | `MCListing`, `ListingProofs` |

`PROJECT.json` maps every definition to the lines it models. The abstractions:

* **Collection.** etcd is a set of atomic registers. A write is its id prefix; its
  chunks are the prefix and an index. `ShortBody` is the write whose first chunk is
  its last and which takes out no record; `MarkWriting` is every other. The grace
  period is the moment `Age` happens; `GraceCoversTail` says that an unrecorded
  write commits before that. A pass is `NextSlice`, `WritesInFlight`, one
  `DropRecord` per stale record, one `ScanObject` per key, one `RemoveChunk` per
  file: everything else may happen between any two of them. A push may land long after
  the write went on without it or ended. `writesInFlight` keeps every record while its
  view is empty (`collect.go:294`); no view here is, as `SetMembers` puts the node itself
  in it.
* **ObjectStore, Refinement.** A put takes effect at one moment between its request
  and its answer. Under the mapping a key holds a put's object while its manifest
  names that write and every chunk is on `W` of its nodes; an object of which any
  part is lost maps to a value no abstract step can produce.
* **Receive.** A byte is its place in the body. `mem` is the buffer with all it holds,
  bytes of an earlier chunk included, and `content` what was stored; a checksum is
  compared over `content`, and a signature or payload hash by whether all bytes came.
  A commit may fail although all is well: net/http cancels the request when it
  notices that the connection is gone, at any time. `req` fixes at the start what the client means to send, how
  much arrives and how the connection ends. Each reader's way of reporting the end
  is an operator (`RawEnd`, `HashedEnd`, `FramedEnds`), and a copied part's source
  is one more way; net/http and `io.ReadFull` are external and described by what the code relies on.
* **Sweep, Copying, Multipart.** A blob is all chunks of one write and one disk
  stands for the nodes that hold it. A write appears in the step that commits it,
  since how it gets there safely is `Collection`'s subject. `PageSize` is how many
  manifests one read of etcd returns. `QuietSource` leaves out the delete of a source
  inside the copy of it. In `Multipart` the history variable `sound` says whether
  the chunks of the committed object were still named when it was committed;
  `HandedOver` asks for them only then. `blind` is the completions whose lookup of the
  remembered answer failed; `HonestRetry` leaves them out.
* **Rebalance, Ring.** One object, replicated or coded as chosen at the start. A
  copy on a disk is its version and, if it is a shard, its position among the owners;
  `Missing`, `Named` and `Holding` go by position exactly where the code does.
  `Walk` is the order in which walking from the key meets the members. `Ring`
  computes it from virtual nodes, and `MCRebalance` assumes nothing of it that it
  does not evaluate: owners are distinct and as many as asked for, and a node that
  leaves takes only its own place, for every partition and membership of the
  instance. The history variable `agreed` follows whether the new owners of a move
  have counted what it brings as theirs all along, and `sound` whether every move
  since the client's write was such a move; `HeldAtW` asks for a quorum only then. A
  sweep is three kinds of step: `ReadPage` fixes the cutoff and reads the manifest,
  `Mark` goes through what it read with the ring of that later moment, and `Remove`
  deletes one file. Which files are older than the cutoff is left open. `sound` also
  ends when a sweep's view changes between the first two and the object has been moved
  since the first (`MovedSince`).
* **Heal.** Whether the object is replicated or coded is chosen at the start. Each
  node's file is good, rotted or absent. Node 0 is one the manifest does not name: it
  repairs as every node does, by its own survey, and holds nothing. The survey asks the
  members for files and cannot see rot; the scrubber reads its own file and cannot see
  absence. `Place` is the order `localFirst` gives the owners. Reading a source is one
  step, since both ends verify the bytes.
* **ChunkStore.** `lasting` is the set of files that a crash may leave at the path. A
  write that fails at its last step may have made the directory.
  `SyncsOwnName` says that syncing a new directory makes its own name last, as ext4
  and XFS do and POSIX does not promise.
* **Membership.** A member key is the lease it is attached to. Registration is two calls
  to etcd, `Grant` and `Attach`, and what came of the second may be lost: the key is
  then attached to a lease that nobody renews. Renewals may end while the lease is
  alive. The watch is open from
  `OpenWatch`; etcd's events are one flag per watcher, since the loop lists again
  after any number of them. etcd may end a watch, at most `MaxCloses` times.

* **Read.** Byte p is the number p, a rotted byte is `Bad`, and a checksum matches
  when no byte of its chunk is. A chunk is read from an owner byte by byte, or from
  memory once its shards have made it. Copies rot, go (a sweep after a delete or a
  move) and become unreachable between any two steps, and a transfer may be cut.
  `Wrap` keeps the int64 sums of `parseRange`, with a small largest integer. Of an
  object's manifest `Manifest` assumes what `Write` and `CompleteUpload` give it: no
  chunk is empty, chunks and parts lie one after the other, a part begins where a chunk
  does, and no number is that of two parts. `Wanted` says byte by byte what a request
  names, independently of how the code computes the window.
* **Listing.** Names are sequences of bytes in etcd's order, so that `PastPrefix`,
  groups and markers are computed as the code does. A read of etcd is one step;
  names are put and deleted between any two of them, within a page as well. The walk
  visits one object per step and may be restarted between any two.

Operators under a comment beginning "A possible bug" or "Mutant" are in no specification. Each
is a plausible mistake in the definition it precedes, and breaks a property when
put in its place; `mutants` in `PROJECT.json` pairs them.

## Runs

| Run | Checks | Shows |
|---|---|---|
| `collection` | `TypeOK`, `MarkIsComplete`, `OnlyGarbageRemoved`, `IsObjectStore` | two writes, two keys, deletes, a lapsing coordinator: no live chunk is swept, and clients see a register per key, whose objects stay whole (so `IsObjectStore` includes `Durable` here) |
| `collection_quorum` | `Durable`, `InFlightHeld`, `GarbageCollected`, `RecordEnds` | two chunks on a quorum of two, a fault and a slice that fails every time: what can still be committed stays, garbage and the record of a dead coordinator go in the end |
| `receive` | `TypeOK`, `ShortIsLast`, `GrowsForMore`, `StoresWhatArrived` | every framing and every way of ending: however the buffer grows and is used again, what is committed is what arrived |
| `receive_cut` | `NoPartialObject`, violated | a closed connection taken for the end of the body |
| `copying` | `Readable`, violated | copy behind the scan, delete ahead of it |
| `multipart` | `TypeOK`, `HandedOver`, `PartsHeld`, `NoOrphanParts`, `HonestRetry` | two completions, aborts, expiry and late parts in any order; parts before objects hands chunks over without a gap |
| `rebalance` | `TypeOK`, `NewestServed`, `HeldAtW` | several movers, clients and sweeps under differing views, of copies and of shards: no old version returns, and a quorum is in place wherever the new owners agree, from a sweep's page to its judgement too |
| `heal` | `HealTypeOK`, `Healed`, `RepairSettles` | three replicas or 2+1 shards, an outsider repairing, three faults: every copy on a member is good in the end, and no survey finds a gap that it cannot close |
| `chunk_store` | `TypeOK`, `NoPartialChunk`, `AckedSurvives` | three writers, two crashes, the sweep |
| `membership` | `TypeOK`, `NoMissedChange`, `OldLeaseHarmless`, `FollowsMembers` | starts, deaths, restarts, lapses, half-made registrations, an ended watch |
| `listing` | `TypeOK`, `NothingMissed`, `ReportedOnce`, `MoreMeansMore`, `ListingEnds` | every kind of listing and a restarted walk, with a change anywhere: what stays is reported, once and in order, and paging ends |
| `read` | `TypeOK`, `WindowIsWanted`, `CompleteIsExact`, `RefusedRightly`, `Survives` | parts, ranges, replicas and shards with two faults: the window is what was asked for, whoever has the promised length has its bytes, and one good source is enough |

## Bounds and fairness

Two nodes suffice for the races of collection: one that coordinates, one that
holds and sweeps. Two keys give a scan a key behind it and one ahead; two writes
an overwrite. `collection_quorum` trades the second write for a second chunk and a
quorum of two. In `Receive` a chunk is three bytes, the first buffer two and a
frame two, so that five bytes give every order of buffer, frame and chunk
boundaries. Two parts, two blobs and two completions of one upload give a part, its
replacement and a repeated request; three blobs were tried once, and all five
properties held on eight million states. Three
nodes give a move an old owner, a new one and one that stays; the memberships are
those with and without the node that joins or leaves. A coded object has a shard and
its parity there, so that a node that joins first in the walk moves every position
and every copy counts; it is written once, as with two versions the instance grows out
of TLC's reach, and that a move brings no old version of it back is proved. A move is
not begun when the bound on commits is used up. `MaxSweeps` lets two nodes sweep at a
time, one that loses a copy and one that gains it; with all three, on four million
states, the properties held too. The names in `MCListing` have a key that ends in the delimiter, a group
of one and of several, and a key inside two groups; reads of two keys and pages of
one and two break in each of them, and one put or delete and one failure come at
every point. `MCRead` has chunks of one and two bytes in two parts, ranges that
begin and end at, before and past each boundary, and two faults on three nodes,
which leave one good copy, or one shard too few. Three faults on three nodes
reach states with too little left, where `Healed` and `RepairSettles` ask for nothing,
and all states short of them; four nodes with two faults were tried once. Three leases on
two nodes let one of them restart or register again while the other joins; four were
tried once, on 1.6 million states. Deadlock is
checked where a behaviour cannot end; `Heal`, `Multipart`, `Rebalance`,
`ChunkStore`, `Membership` and `Listing` stop when their bounded counters are used up and
nothing is left to do, and their configurations say so.

Symmetry is used in safety runs only, over sets no definition orders.

Fairness is weak and only where a loop of the code retries for ever.
`Collection`: a pass goes on and begins again (`CollectLoop`), every chunk on a
disk grows old, and a write that has ended clears its record; crashes and failed
passes are bounded by `MaxFaults`, but the slice in `BadSlices` fails every time.
`RecordEnds` is about a coordinator that is dead and, from some point on, in no
collector's view. `Heal`: `RepairLoop` and `ScrubLoop` run again on every
node that is up, and etcd ends the lease of one that is not; nothing makes a node
that lost its lease register again. `Membership`: `stayRegistered` and
`WatchMembers` go on, a node without a lease asks for one and attaches its key, and a
lease that nobody renews or registers with runs out. `Listing`: a request is
answered, the client asks for the next page, and a walk goes on or, after a
restart, is begun again by its loop. Faults, clients,
lapses of a live node's lease and ended watches are never fair.

## Proofs

All are for every value of the constants, from the named assumptions of the
module (types of the constants, distinctness of the absent values). Those about
collection, one about the chunk store, two about reads and three about listings carry
a condition in the statement. `ChunkStoreProofs` has the proofs about `Heal` too, whose
definitions carry its name (`HealSpec`, `HealTypeOK`) for that reason.

* Types: `TypeCorrect`, `ReceiveTypes`, `MultipartTypes`, `RebalanceTypes`,
  `HealKeepsTypes`, `StoreTypes`, `MembershipTypes`, `ReadTypes` and `ListingTypes`, one
  for each component with proofs, state `TypeOK` (`HealTypeOK`). Four need more than types. A path
  shows a file only if its directory is there (`PathInv`); a completion at work has an
  upload, so what it remembers or forgets is one (`UploadInv`); the readers of
  `Receive` return no more than they were asked for, so a buffer holds no more than it
  is long (`EndsKnown`, `ReadInv`); and a page keeps to its limit because a read that
  goes on has left it room, and is a page at all because `Sorted` is a sequence.
* `Durability`, `WritesInFlightKept`, `SweepSafety`, `MarkCompleteness`
  (`CollectionProofs`), if `GraceCoversTail`: `Durable`, `InFlightHeld`,
  `OnlyGarbageRemoved` and `MarkIsComplete`. `Durable` is not inductive: a
  sweep deletes by what it read long before. `IndInv` adds what a pass knows.
  `MarkIsComplete` says that once the records are read, an old chunk whose write
  was not found in flight can never be committed any more, and that a manifest
  naming it is at a key already read or still ahead. For that to be kept by a
  commit, old chunks must belong to recorded writes (`OldMeansRecorded`, the only
  place that uses the grace period), and a write must store nothing before it has
  decided on its record (`NoChunkTooSoon`). First come the lemmas on which steps
  delete, commit and change a pass at all, then one step lemma per conjunct.
* `ImplementsObjectStore` (`CollectionProofs`), if `GraceCoversTail`:
  `IsObjectStore`. Step by step, the mapped state changes as an abstract step or not
  at all: by `Durable` before and after, no object maps to the lost value, and a
  write that has not begun has no coordinator whose death would fail it (`IdleInv`).
* `OnlyLastIsShort` (`ReceiveProofs`): `ShortIsLast`. The strengthening says what
  the buffer holds at each step (`BufferInv`) and that once a read came back short
  the body is used up (`AtEndInv`), so that the next chunk is empty.
* `GrowsOnlyForMore` (`ReceiveProofs`): `GrowsForMore`, since a buffer other than the
  first means more was read than that held (`GrowInv`).
* `NothingLost` (`ReceiveProofs`): `StoresWhatArrived`. `KeptInv` says that the bytes
  stored are the first of the body and the first `n` of the buffer those that follow,
  through probing, growing and reuse; `AllReadInv` that an empty chunk, after which the
  write commits, comes only at the end of what arrived.
* `NeverPartial`, `AckedDurable` (`ChunkStoreProofs`): `NoPartialChunk`, and, if
  `SyncsOwnName`, `AckedSurvives`. `StoreInv` says that a writer past its check has
  a whole file, past its sync a flushed one, and that nothing else is at the path or
  may be there after a crash; `AckInv` that while the chunk is acknowledged every
  outcome of a crash leaves a file, in a directory that lasts.
* `MoveKeepsNewest` (`RebalanceProofs`): `NewestServed`. Revisions under a key only
  grow, so a manifest with the revision a move has seen is the manifest it has seen
  (`RevUnique`); the commit then changes the placement and not the version. The
  proof is for copies and shards alike and uses nothing of the ring.
* `MovesKeepCopies` (`RebalanceProofs`): `HeldAtW`. `HeldInv` adds that what a move
  whose new owners agree has copied is there and in no sweep's hands (`MoveBrings`),
  that neither is anything the manifest names (`NotCondemned`), where a sweep's hands
  hold what it has marked and what it would mark, with the view it has, by the page it
  has read (`Condemned`, `PageKnows`), and that a move has no
  fewer targets than the manifest has nodes and no target twice (`MoveShape`). A commit
  then trades positions for positions: those that hold their copy before it are
  mapped one to one into those that do after it, by a lemma on cardinalities. Of the
  ring it uses only that the owners it gives are distinct, which `MCRebalance`
  evaluates on the walk `Ring` computes.
* `StaysMember` (`MembershipProofs`): `OldLeaseHarmless`. Leases are never granted
  twice, so an expired one takes only keys still attached to it; and a node renews no
  lease while it registers with another (`OneLease`).
* `NothingFallsBetween` (`MembershipProofs`): `NoMissedChange`. The strengthening is
  that a list about to be handed on is current unless an event is pending
  (`ViewInv`); the watch was opened before the list was read.
* `HandOver`, `PartsAreHeld`, `RetriesAreHonest`, `PartsGoWithUpload`
  (`MultipartProofs`): `HandedOver`, `PartsHeld`, `HonestRetry` and `NoOrphanParts`.
  `KeepInv` says of every blob that must be kept that
  it is on disk, and that a pass which may remove it either has read a name of it or
  has one still ahead, parts before the object; `UploadInv` that parts belong to
  uploads that are open and that an upload which is gone is remembered, or was
  aborted, expired or forgotten in time.
* `RefusalsAreRight`, `WindowsAreRight` (`ReadProofs`): `RefusedRightly`, and
  `WindowIsWanted` for ranges that end below the largest int64. Both compare what
  `partWindow`, `parseRange` and `parseCopyRange` compute with `Wanted`: the rank of a
  byte in its part is its distance from the part's first byte (`WantedIn`), and each
  form of range is then arithmetic (`RangeRight`, `RangeRefused`). The proviso is
  exact. At the largest integer the sum wraps, and all that can be said is that the
  read fails before its first byte (`AskedRight`, `WindowInv`). `ReadTypes` has it too.
* `CompleteReadsAreExact` (`ReadProofs`): `CompleteIsExact`, for every range. `LoopInv`
  says that what went out and what is held back are as many bytes as the window has
  before the position (`CountInv`), and that they are the window's bytes unless a byte
  of this chunk was `Bad` (`ExactInv`). Once a chunk of the window has given a byte of
  it, one is held back, so a read that fails inside a chunk is short by at least
  that one. An empty window opens no chunk, because it lies where a chunk begins
  (`TouchedSome`); otherwise a read of nothing could fail after it was complete.
* `ReadsSurvive` (`ReadProofs`): `Survives`. `SourceInv` says that a steady copy is there
  and sound on a node that answers (`SteadyInv`), that no `Bad` byte comes from
  memory (`SoundInv`), and that whoever was asked in vain was not steady (`TriedInv`).
  `localFirst` keeps every owner (`LocalFirstAll`), and a decode happens when every
  owner was asked, so that the steady shards are among those that came (`FewShards`).
* `ListingComplete`, `ListingInOrder`, `MoreIsThere` (`ListingProofs`), if
  `PlainDelimiters`: `NothingMissed`, `ReportedOnce` and `MoreMeansMore`. The condition
  is that a delimiter ends in a byte below 0x7f, and that one of a listing of versions
  has one byte; what happens without it is under the known limits. `ListingInv` says
  of the position a page or a read resumes at (`Resumes`) that every name before it that
  was there all the while is told, and that the entry of every key from it on is behind
  all that was told. The second half is what makes a group come once: that a position
  past an entry is past every key of its group and before every later entry
  (`PastPrefix`, `After`) is shown for groups and keys alike. It is kept by other
  clients because it speaks of all keys, not of those that are there. A listing of
  versions resumes from a marker and not from the position, and `MarkerGroup` shows
  that a marker ends in the delimiter just when it is a group. A walk keeps two
  positions, its cursor and where it is (`WalkingAt`), and what it has read and not
  visited has no gap; parts resume at the last that was told (`PartsAt`); uploads at the
  keys of one that was told (`UploadsAt`). Below that lie the lemmas on keys: that `Less`
  is a total order, and that `Sorted` lists a finite set in it. The latter needs no
  induction. How many are before an element tells the elements apart, and a one-to-one
  map of a finite set into as many numbers leaves none out (`Ranks`, `RanksTaken`).

Where the parts of an object begin is a sum over its parts, and what such a sum is for
every manifest needs induction over data; `Manifest` therefore states where they lie,
as an assumption that TLC evaluates on the manifests of `MCRead`.

Only model-checked: every liveness property, which TLAPS does not reach
(`GarbageCollected`, `RecordEnds`, `Healed`, `RepairSettles`, `FollowsMembers`,
`ListingEnds`), and
what `Ring` computes, which needs induction over data.

## Findings

Two runs end in a counterexample, each against a sentence of the repository's own
comments or design document, quoted under `findings` in `PROJECT.json`: a body cut
off by a closed connection is committed when the client declared no digest, and a
copy commits a name for chunks that a pass may have condemned in the meantime.
The first happens when the commit is ahead of net/http, which cancels the request once it
has noticed that the connection is gone; `receive` (`StoresWhatArrived`) checks what
remains of the promise, that all that arrived is stored. The second holds when one page of the scan has every key (`PageSize = NumPlaces`).

## Known limits

The passing runs hold under conditions. What the models show outside them:

* `RecordEnds` needs the dead coordinator to leave the collectors' views. One that
  restarts within its lease never does, and nobody drops the record
  (`writing.go:28`): its chunks are kept for ever.
* With `QuietSource = FALSE`, a copy whose source is deleted and swept between its
  read and its commit commits a manifest without chunks (`cluster.go:528`).
* Without `sound` in `HeldAtW`, a move whose target's view changes while it runs
  loses copies to the target's own sweep before the commit names them. So does one whose
  target has read a page of manifests before the commit (`collect.go:258`) and hears of
  a change that takes the partition from it before it goes through that page
  (`collect.go:350`): neither the old manifest nor the new ring names the copies then,
  and the manifest in force does.
* With `GraceCoversTail = FALSE`, a pass takes the chunk of a write that took out no
  record (`cluster.go:364`) when the grace period ends before its commit; the comment
  at `collect.go:68` calls a grace of zero legal.
* Without `sound` in `HandedOver`, an abort or an expiry between a completion's read of
  the parts and its commit (`cluster/upload.go:296`) leaves an object whose chunks a
  pass has condemned; the same holds of a retry that commits again, over whatever a
  client has put there since.
* A completion that finds no upload looks for the answer it had, and drops an error of
  that lookup (`cluster/upload.go:164`): a client that repeats a completion which
  succeeded may be told there is no such upload. That answer is what the comment above
  it wants to avoid (`cluster/upload.go:159`: it "says the upload failed while the object
  is sitting there").
  `Completion` has the step, and `HonestRetry` excludes it by `blind`.
* A read of a coded object asks for parity every time: `decode` goes on to it unless
  every shard, parity included, has come (`erasure.go:97`). The comment at
  `erasure.go:88` says that parity is fetched only to replace what is missing. Nothing is
  lost by it but bandwidth.
* A directory sync that fails after the rename makes the write an error while the
  chunk is visible (`store.go:186`); `ChunkStore` has the step, and nothing is lost by it.
* With `SyncsOwnName = FALSE`, a crash can lose the first acknowledged chunk of a new
  directory: the directory's own name was not synced.
* A removal is by name after a look at the age (`collect.go:174`): a chunk written
  again between the two is removed as if it were the old one. The window is one
  system call wide, and `AckedSurvives` ends a chunk's life at its removal.
* `FollowsMembers` says nothing of a node whose watch etcd has ended
  (`members.go:139`): the loop returns, and its view stays as it was.

* A copy that rotted, or whose transfer is cut when bytes of it are out, fails a read
  of a replicated object although another owner has a good one: `fetch` chooses by
  what opens (`cluster.go:638`). `Survives` leaves that case out; repair from such a
  copy fails in the same way until the scrubber has replaced it.
* A file that cannot be read at all (an I/O error) is neither rotted to the scrubber
  nor missing to repair (`scrub.go:114`), and stays as it is.
* A range that ends at the largest int64 overflows (`s3.go:1111`); the read then fails
  after the status was sent. `Wrap` has the sum, the run's ranges stay below it, and
  `WindowsAreRight` and `ReadTypes` leave it out.
* A listing of uploads resumes at its marker's upload and reports it again
  (`meta/upload.go:188`): pages of one never advance, and when the budget of one read
  is all parts the page is truncated and has no marker. The comment at
  `meta/upload.go:186` promises every upload exactly once; `ReportedOnce` and
  `ListingEnds` leave uploads out, and `NothingMissed` holds of them. A page size of
  zero, and a prefix that ends in a slash, which `path.Join` drops, are left out of the
  run too, and so is a page of no parts, for which there is no last part to name.
* `PastPrefix` turns a byte from 0x7f on into the two bytes of a character
  (`meta.go:175`), so that a listing skips keys after a group whose name ends in such a
  byte; so does a listing of versions whose delimiter has several characters and
  overlaps itself. Names and delimiters in `MCListing` are ASCII and of one character;
  `PlainDelimiters` says the same of delimiters and nothing of names.

## What is not modelled

* The encoding of coded writes chunk by chunk: `Heal`, `Read` and `Rebalance` have
  coded chunks at rest, and a coded write is one step of `Rebalance`. The interleaving
  of a write with the sweep in `Collection` is of chunks, and a shard is pushed,
  acknowledged, recorded and swept as one.
* Request signatures, header and XML translation, conditional requests, bulk deletes and
  requests about buckets, which are prefixes and not kept anywhere: no state shared between requests.
* The hash that places virtual nodes, Reed-Solomon and checksum arithmetic: out of TLC's
  reach. The models assume their contracts, that any `Data` good shards rebuild a chunk
  and that a digest matches only the bytes it was made of.
* Assembling one manifest from those of the parts, and combining their checksums.
* Pacing, statistics, logging and flags.

## Next

1. Convergence of `Rebalance` once the membership is steady.
2. Coded writes inside `Collection`, with a quorum of shards.

## Running it

    tlc -workers 2 -config MCHeal.cfg MCHeal
    tlapm CollectionProofs.tla

`ListingProofs` takes some fifteen minutes from nothing, `ReadProofs` six and
`RebalanceProofs` four; the others take less than two.

Each run of the table is one configuration, named in `PROJECT.json`.
