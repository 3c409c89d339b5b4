-------------------------------- MODULE Read --------------------------------
(***************************************************************************)
(* One read of an object, from the request to the last byte: the window    *)
(* that a part number and a range name (getObject, copyPart), the loop over*)
(* the chunks (ReadRange), the owner or the shards each is read from, and  *)
(* the byte held back until the chunk has verified (readWindow).           *)
(* Meanwhile copies rot and go, nodes come and go, transfers are cut.      *)
(*                                                                         *)
(* Byte p of the object is the number p, and a byte that has rotted is     *)
(* Bad.  A checksum matches when no byte of a chunk is Bad.  An open       *)
(* transfer of a copy outlives the copy's removal.                         *)
(***************************************************************************)
EXTENDS Integers, Sequences, FiniteSets, FiniteSetsExt

CONSTANTS Nodes, Self,
          Reads,        \* the reads: [obj, use, part, range], see below
          MaxInt,       \* the largest of Go's int64
          MaxFaults     \* bound on the faults during a read

\* obj: its size and the sizes of its chunks; its parts, [number, size], if it was
\* uploaded in parts, and the part each byte came in; its nodes; data, the shards a
\* chunk is rebuilt from, or 0 if it is replicated.
\* use: "get" or "copy".  part: a part number, or 0.
\* range: [form, first, last], a header such as bytes=first-last.

\* The bytes of the parts assembled before part k.
PartStart(o, k) == SumFunction([j \in 1..(k - 1) |-> o.parts[j].size])

\* The bytes that came in the part with that number.
PartBytes(o, number) == {p \in 0..(o.size - 1) : o.partOf[p + 1] = number}

\* Chunk k ends at ends[k], and a part begins where a chunk does.
Offsets(o, ends) ==
  /\ ends[0] = 0 /\ ends[Len(o.sizes)] = o.size
  /\ \A k \in DOMAIN o.sizes : ends[k] = ends[k - 1] + o.sizes[k]
  /\ \A j, k \in 0..Len(o.sizes) : j < k => ends[j] < ends[k]
  /\ \A k \in DOMAIN o.parts : \E j \in 0..Len(o.sizes) : PartStart(o, k) = ends[j]

\* A manifest as Write and CompleteUpload make it: no chunk is empty and together
\* they are the object; parts have numbers of their own, and lie in the object one
\* after the other.
Manifest(o) ==
  /\ o.size \in 0..MaxInt
  /\ o.sizes \in Seq(Nat \ {0})
  /\ o.nodes \in Seq(Nodes) /\ o.nodes # <<>>
  /\ o.data \in 0..Len(o.nodes)
  /\ o.parts \in Seq([number : Nat \ {0}, size : Nat])
  /\ o.partOf \in [1..o.size -> Nat]
  /\ o.parts = <<>> => \A p \in 1..o.size : o.partOf[p] = 1
  /\ \A j, k \in DOMAIN o.parts : o.parts[j].number = o.parts[k].number => j = k
  /\ \E ends \in [0..Len(o.sizes) -> 0..o.size] : Offsets(o, ends)
  /\ \A k \in DOMAIN o.parts :
       /\ PartStart(o, k) \in 0..o.size
       /\ PartStart(o, k) + o.parts[k].size <= o.size
       /\ PartBytes(o, o.parts[k].number) = PartStart(o, k)..(PartStart(o, k) + o.parts[k].size - 1)

ASSUME ReadAssumption == /\ Self \in Nodes
                         /\ "memory" \notin Nodes
                         /\ MaxInt \in Nat /\ MaxFaults \in Nat
                         /\ \A r \in Reads : Manifest(r.obj)
ASSUME RequestAssumption ==
  \A r \in Reads :
    /\ r.use \in {"get", "copy"}
    /\ r.part \in Nat
    /\ r.use = "copy" => r.part = 0
    /\ r.range \in [form  : {"none", "suffix", "from", "between"},
                    first : 0..MaxInt, last : 0..MaxInt]

VARIABLES read,     \* the read
          off,      \* where the window begins
          length,   \* its length, sent to the client as Content-Length
          c,        \* the chunk the loop is at; 0 before it
          at,       \* where in the object that chunk begins
          src,      \* the node it is read from, or Memory
          tried,    \* the owners, or the shards, of the chunk that were tried
          got,      \* the shards of it that came
          i,        \* the bytes of the chunk that were read
          spoilt,   \* one of them was Bad
          back,     \* the byte held back, if any
          out,      \* the bytes that went out
          eof,      \* a failure on the way is an EOF to errors.Is
          phase,    \* "open", "body" or "done"
          result,   \* "none", "refused", "ok", "error" or "eof": an error that is one
          held,     \* the copies and shards there are: <<node, chunk>>
          rot,      \* what has rotted: <<node, chunk, byte>>
          up,       \* the nodes that answer
          steady,   \* history: copies that were good and within reach all the while
          cuts,     \* history: transfers that were cut
          faults

stream == <<c, at, src, tried, got, i, spoilt, back, out, eof, phase, result>>
world  == <<held, rot, up, steady, cuts, faults>>
vars   == <<read, off, length, stream, world>>

obj    == read.obj
Coded  == obj.data > 0
Chunks == DOMAIN obj.sizes
Bad    == -1
Memory == "memory"
Failed == [ok |-> FALSE, off |-> 0, length |-> 0]
Window(o, l) == [ok |-> TRUE, off |-> o, length |-> l]

-----------------------------------------------------------------------------
(***************************************************************************)
(* The window.                                                             *)
(***************************************************************************)

\* An int64 sum.
Wrap(x) == IF x > MaxInt THEN x - 2 * (MaxInt + 1) ELSE x

\* A possible bug: a part's number is taken for its place.
PartWindowByPlace ==
  LET parts == obj.parts
  IN  IF read.part = 0 \/ (parts = <<>> /\ read.part = 1) THEN Window(0, obj.size)
      ELSE IF read.part \notin DOMAIN parts THEN Failed
      ELSE Window(PartStart(obj, read.part), parts[read.part].size)

\* partWindow: a part begins where the parts assembled before it end.
PartWindow ==
  LET parts == obj.parts
      this  == {k \in DOMAIN parts : parts[k].number = read.part}
  IN  IF read.part = 0 \/ (parts = <<>> /\ read.part = 1) THEN Window(0, obj.size)
      ELSE IF this = {} THEN Failed
      ELSE Window(PartStart(obj, Min(this)), parts[Min(this)].size)

\* A possible bug: a range that begins past the end is served.
ParseRangeLax(range, size) ==
  CASE range.form = "suffix"  -> Window(Max({size - range.last, 0}), Min({range.last, size}))
    [] range.form = "from"    -> Window(range.first, size - range.first)
    [] range.form = "between" -> Window(range.first, Min({Wrap(range.last + 1), size}) - range.first)
    [] OTHER                  -> Window(0, size)

\* parseRange: clamped to what is there.  No range, several, or another unit is the
\* whole.
ParseRange(range, size) ==
  CASE range.form = "suffix"  -> IF range.last <= 0 THEN Failed
                                 ELSE Window(Max({size - range.last, 0}), Min({range.last, size}))
    [] range.form = "from"    -> IF range.first >= size THEN Failed
                                 ELSE Window(range.first, size - range.first)
    [] range.form = "between" -> IF range.last < range.first \/ range.first >= size THEN Failed
                                 ELSE Window(range.first,
                                             Min({Wrap(range.last + 1), size}) - range.first)
    [] range.form = "none"    -> Window(0, size)

\* parseCopyRange: both ends are named, and what is named is there.
ParseCopyRange(range, size) ==
  CASE range.form = "none"    -> Window(0, size)
    [] range.form = "between" -> IF range.last < range.first \/ range.last >= size THEN Failed
                                 ELSE Window(range.first, range.last - range.first + 1)
    [] range.form \in {"suffix", "from"} -> Failed

\* getObject: the range is one of the part, and the part is somewhere in the object.
GetWindow ==
  LET base  == PartWindow
      range == ParseRange(read.range, base.length)
  IN  IF base.ok /\ range.ok THEN Window(base.off + range.off, range.length) ELSE Failed

\* copyPart: the range is one of the source.
CopyWindow == ParseCopyRange(read.range, obj.size)

Asked == IF read.use = "copy" THEN CopyWindow ELSE GetWindow

-----------------------------------------------------------------------------
(***************************************************************************)
(* The chunks.                                                             *)
(***************************************************************************)
\* ReadRange: what is left to say at chunk k.  After the last one, what went out is
\* counted against the length.
Outcome(k, sent) == IF k \in Chunks THEN "none"
                    ELSE IF Len(sent) = length THEN "ok" ELSE "error"

\* The loop goes on to chunk k, which begins at a, or ends.
ToChunk(k, a, sent) ==
  /\ c' = k /\ at' = a /\ out' = sent
  /\ phase' = IF k \in Chunks THEN "open" ELSE "done"
  /\ result' = Outcome(k, sent)
  /\ src' = Memory
  /\ tried' = {} /\ got' = {} /\ i' = 0 /\ spoilt' = FALSE /\ back' = <<>> /\ eof' = FALSE

\* The request: refused before a byte goes out, or begun with the length promised.
Init ==
  /\ read \in Reads
  /\ off = Asked.off /\ length = Asked.length
  /\ LET inside == Asked.ok /\ off >= 0 /\ length >= 0 /\ off + length <= obj.size
     IN  /\ c = IF inside THEN 1 ELSE 0
         /\ phase = IF inside /\ 1 \in Chunks THEN "open" ELSE "done"
         /\ result = IF inside THEN Outcome(1, <<>>) ELSE IF Asked.ok THEN "error" ELSE "refused"
  /\ at = 0 /\ src = Memory /\ tried = {} /\ got = {} /\ i = 0 /\ spoilt = FALSE /\ back = <<>>
  /\ out = <<>> /\ eof = FALSE
  /\ held = Range(obj.nodes) \X Chunks
  /\ rot = {} /\ up = Nodes /\ steady = held /\ cuts = 0 /\ faults = 0

\* The window touches the chunk.
Touched == at + obj.sizes[c] > off /\ at < off + length

\* ReadRange: a chunk the window does not touch is passed over.
SkipChunk ==
  /\ phase = "open" /\ ~Touched
  /\ ToChunk(c + 1, at + obj.sizes[c], out)
  /\ UNCHANGED <<read, off, length, world>>

\* The read ends in an error that errors.Is takes for an EOF, or in another.
Fail(isEOF) ==
  /\ phase' = "done"
  /\ result' = IF isEOF THEN "eof" ELSE "error"
  /\ UNCHANGED <<c, at, src, tried, got, i, spoilt, back, out, eof>>

Answers(node, k) == node \in up /\ <<node, k>> \in held
Rotten(node, k)  == \E b \in 0..obj.sizes[k] : <<node, k, b>> \in rot

\* A possible bug: another owner takes the first one's place, and that one is lost.
LocalFirstOnly ==
  IF Self \in Range(obj.nodes) THEN [obj.nodes EXCEPT ![1] = Self] ELSE obj.nodes

\* localFirst: the node itself trades places with the first owner.
LocalFirst ==
  IF Self \in Range(obj.nodes)
  THEN LET k == CHOOSE j \in DOMAIN obj.nodes : obj.nodes[j] = Self
       IN  [obj.nodes EXCEPT ![1] = Self, ![k] = obj.nodes[1]]
  ELSE obj.nodes

\* fetch: the next owner is asked.  One that has the chunk serves it, whatever comes
\* of that; if none has, the read fails.
FetchChunk ==
  /\ phase = "open" /\ Touched /\ ~Coded
  /\ LET k    == Cardinality(tried) + 1
         node == LocalFirst[k]
     IN  IF Answers(node, c)
         THEN /\ src' = node
              /\ phase' = "body"
              /\ UNCHANGED <<c, at, tried, got, i, spoilt, back, out, eof, result>>
         ELSE IF k = Len(obj.nodes) THEN Fail(eof)
         ELSE /\ tried' = tried \cup {k}
              /\ UNCHANGED <<c, at, src, got, i, spoilt, back, out, eof, phase, result>>
  /\ UNCHANGED <<read, off, length, world>>

\* decode: the data shards are gathered first, and then the rest if any shard is still
\* to come, as the parity always is.
Wave == IF (1..obj.data) \subseteq tried /\ got # DOMAIN obj.nodes
        THEN DOMAIN obj.nodes ELSE 1..obj.data

\* fetchShard k: it comes if its node has it and it verifies.
FetchShard(k) ==
  /\ phase = "open" /\ Touched /\ Coded
  /\ k \in Wave \ tried
  /\ tried' = tried \cup {k}
  /\ got' = IF Answers(obj.nodes[k], c) /\ ~Rotten(obj.nodes[k], c) THEN got \cup {k} ELSE got
  /\ UNCHANGED <<read, off, length, c, at, src, i, spoilt, back, out, eof, phase, result, world>>

\* decode: any obj.data shards make the chunk.
Decode ==
  /\ phase = "open" /\ Touched /\ Coded
  /\ Wave \subseteq tried
  /\ IF Cardinality(got) >= obj.data
     THEN /\ src' = Memory
          /\ phase' = "body"
          /\ UNCHANGED <<c, at, tried, got, i, spoilt, back, out, eof, result>>
     ELSE Fail(eof)
  /\ UNCHANGED <<read, off, length, world>>

-----------------------------------------------------------------------------
(***************************************************************************)
(* The bytes.                                                              *)
(***************************************************************************)
Byte     == at + i
ByteRead == IF <<src, c, i>> \in rot THEN Bad ELSE Byte
InWindow == off <= Byte /\ Byte < off + length

\* A possible bug: a byte goes out as it is read.
PassThrough ==
  /\ phase = "body" /\ i < obj.sizes[c]
  /\ out' = IF InWindow THEN Append(out, ByteRead) ELSE out
  /\ spoilt' = (spoilt \/ ByteRead = Bad)
  /\ i' = i + 1
  /\ UNCHANGED <<read, off, length, c, at, src, tried, got, back, eof, phase, result, world>>

\* readWindow and heldBack: a byte of the window is held, and the one before it goes
\* out; the others are read and discarded.
PassByte ==
  /\ phase = "body" /\ i < obj.sizes[c]
  /\ out' = IF InWindow THEN out \o back ELSE out
  /\ back' = IF InWindow THEN <<ByteRead>> ELSE back
  /\ spoilt' = (spoilt \/ ByteRead = Bad)
  /\ i' = i + 1
  /\ UNCHANGED <<read, off, length, c, at, src, tried, got, eof, phase, result, world>>

\* The end of the chunk: a mismatch in place of the EOF, or the byte is released.
EndChunk ==
  /\ phase = "body" /\ i = obj.sizes[c]
  /\ IF spoilt THEN Fail(FALSE) ELSE ToChunk(c + 1, at + obj.sizes[c], out \o back)
  /\ UNCHANGED <<read, off, length, world>>

-----------------------------------------------------------------------------
(***************************************************************************)
(* What goes wrong meanwhile.                                              *)
(***************************************************************************)
Fault == /\ phase # "done"
         /\ faults < MaxFaults
         /\ faults' = faults + 1

\* A byte of a copy rots on its disk; of a shard, it does not matter which.
Rot(node, k, b) ==
  /\ Fault
  /\ <<node, k>> \in held
  /\ IF Coded THEN b = 0 ELSE b < obj.sizes[k]
  /\ rot' = rot \cup {<<node, k, b>>}
  /\ steady' = steady \ {<<node, k>>}
  /\ UNCHANGED <<read, off, length, stream, held, up, cuts>>

\* A copy is swept, the object having been replaced or moved since it was resolved.
Lose(node, k) ==
  /\ Fault
  /\ <<node, k>> \in held
  /\ held' = held \ {<<node, k>>}
  /\ steady' = steady \ {<<node, k>>}
  /\ UNCHANGED <<read, off, length, stream, rot, up, cuts>>

\* A node other than this one stops answering, or is back.
Down(node) ==
  /\ Fault
  /\ node \in up \ {Self, src}
  /\ up' = up \ {node}
  /\ steady' = {s \in steady : s[1] # node}
  /\ UNCHANGED <<read, off, length, stream, held, rot, cuts>>

Return(node) ==
  /\ Fault
  /\ node \notin up
  /\ up' = up \cup {node}
  /\ UNCHANGED <<read, off, length, stream, held, rot, steady, cuts>>

\* A request to an owner fails before it has answered, or the transfer of a shard
\* before it is whole: the next owner is asked, the shard is missing.
CutOpen(k, isEOF) ==
  LET node == IF Coded THEN obj.nodes[k] ELSE LocalFirst[k]
  IN  /\ Fault
      /\ phase = "open" /\ Touched
      /\ IF Coded THEN k \in Wave \ tried ELSE k = Cardinality(tried) + 1
      /\ node # Self
      /\ IF ~Coded /\ k = Len(obj.nodes) THEN Fail(eof \/ isEOF)
         ELSE /\ tried' = tried \cup {k}
              /\ eof' = (eof \/ isEOF)
              /\ UNCHANGED <<c, at, src, got, i, spoilt, back, out, phase, result>>
      /\ steady' = steady \ {<<node, c>>}
      /\ UNCHANGED <<read, off, length, held, rot, up, cuts>>

\* The transfer of a copy is cut: its owner died, which is an unexpected EOF, or the
\* connection broke.  Its bytes may be out, so no other owner is asked.
CutBody(isEOF) ==
  /\ Fault
  /\ phase = "body"
  /\ src \notin {Self, Memory}
  /\ Fail(isEOF)
  /\ cuts' = cuts + 1
  /\ UNCHANGED <<read, off, length, held, rot, up, steady>>

Done == phase = "done" /\ UNCHANGED vars

Next == \/ SkipChunk \/ FetchChunk \/ Decode \/ PassByte \/ EndChunk \/ Done
        \/ \E k \in DOMAIN obj.nodes : FetchShard(k) \/ \E isEOF \in BOOLEAN : CutOpen(k, isEOF)
        \/ \E isEOF \in BOOLEAN : CutBody(isEOF)
        \/ \E node \in Nodes : Down(node) \/ Return(node)
        \/ \E s \in held : Lose(s[1], s[2]) \/ \E b \in 0..obj.sizes[s[2]] : Rot(s[1], s[2], b)

Spec == Init /\ [][Next]_vars

-----------------------------------------------------------------------------
\* A read in progress, and copies of the object's chunks.
TypeOK == /\ read \in Reads
          /\ off \in 0..obj.size /\ length \in 0..obj.size
          /\ c \in 0..(Len(obj.sizes) + 1) /\ at \in 0..obj.size
          /\ phase \in {"open", "body", "done"}
          /\ phase # "done" => c \in Chunks
          /\ src \in Nodes \cup {Memory}
          /\ got \subseteq tried /\ tried \subseteq DOMAIN obj.nodes
          /\ i \in 0..obj.size
          /\ spoilt \in BOOLEAN /\ eof \in BOOLEAN
          /\ out \in Seq(-1..obj.size) /\ back \in Seq(-1..obj.size)
          /\ Len(back) <= 1 /\ Len(out) + Len(back) <= length
          /\ result \in {"none", "refused", "ok", "error", "eof"}
          /\ steady \subseteq held
          /\ up \subseteq Nodes

\* What the request names, byte by byte: those of the part, counted from its first,
\* that the range includes.
Wanted ==
  LET base    == IF read.part = 0 THEN 0..(obj.size - 1) ELSE PartBytes(obj, read.part)
      Rank(p) == Cardinality({q \in base : q < p})
      range   == read.range
  IN  {p \in base : /\ range.form = "suffix"  => Rank(p) >= Cardinality(base) - range.last
                    /\ range.form = "from"    => Rank(p) >= range.first
                    /\ range.form = "between" => Rank(p) \in range.first..range.last}

\* A request that is not refused is begun, and its window is what it names: the bytes
\* of the part that the range includes, for a part anywhere in the object and a range
\* that runs past the end.
WindowIsWanted == result # "refused" => c # 0 /\ off..(off + length - 1) = Wanted

\* A client that has received the length it was promised has exactly the bytes of the
\* window, in order and none of them rotted, whatever rotted, was lost or was cut while
\* they were read; and a read that fails has stopped short of it.  getObject promises
\* the length before the first byte is read, so stopping short is all it can say.
CompleteIsExact ==
  result # "refused" /\ Len(out) = length =>
    /\ result \in {"none", "ok"}
    /\ out = [k \in 1..length |-> off + k - 1]

\* A request is refused exactly when what it names is not there: a read when nothing
\* of its range or its part is, a copy when not all of its range is.
RefusedRightly ==
  LET range   == read.range
      numbers == IF obj.parts = <<>> THEN {1} ELSE {obj.parts[k].number : k \in DOMAIN obj.parts}
      absent  == \/ read.part \notin {0} \cup numbers
                 \/ range.form \in {"from", "between"} /\ Wanted = {}
                 \/ range.form = "suffix" /\ range.last = 0
      partial == \/ range.form \in {"suffix", "from"}
                 \/ range.form = "between" /\ Cardinality(Wanted) # range.last - range.first + 1
  IN  result = "refused" <=> absent \/ (read.use = "copy" /\ partial)

\* The copies, or the shards, that it takes to read a chunk.
Needed == IF Coded THEN obj.data ELSE 1

\* A read that has begun fails only at a chunk of which fewer copies, or shards, than it
\* takes were sound and within reach all the while: owners that have lost a copy or do
\* not answer are passed over, and shards that are missing, cut short or rotted are made
\* up for.  A copy that rotted, or was cut when bytes of it were out, fails the read.
Survives ==
  /\ c # 0 /\ result \in {"error", "eof"}
  /\ Coded \/ (cuts = 0 /\ rot = {})
  => /\ c \in Chunks
     /\ Cardinality({s \in steady : s[2] = c}) < Needed
=============================================================================
