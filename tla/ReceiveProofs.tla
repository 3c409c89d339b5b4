--------------------------- MODULE ReceiveProofs ----------------------------
(***************************************************************************)
(* Proofs about Receive for bodies, chunks, frames and buffers of every    *)
(* size, and every way a body may end.                                     *)
(***************************************************************************)
EXTENDS Receive, TLAPS

USE SizeAssumption

Steps == {"fill", "probe", "rest", "store", "commit", "done"}

ReadTypes == /\ req.sent \in Nat
             /\ pos \in 0..req.sent
             /\ buf \in 1..ChunkSize
             /\ n \in 0..ChunkSize
             /\ step \in Steps
             /\ chunks \in Seq(1..ChunkSize)

\* A buffer is probed when it is full and short of a chunk, and the rest is read once
\* it has grown.
BufferInv == /\ step = "probe" => n = buf /\ buf < ChunkSize
             /\ step = "rest" => buf = ChunkSize /\ n > 0

\* What is short of a chunk, in the buffer or stored, is at the end of the body.
AtEndInv == /\ step = "store" /\ n < ChunkSize => pos = req.sent
            /\ \A i \in DOMAIN chunks : chunks[i] < ChunkSize =>
                 /\ pos = req.sent
                 /\ step \notin {"probe", "rest"}
                 /\ step = "store" => n = 0

ReadInv == ReadTypes /\ BufferInv /\ AtEndInv /\ ShortIsLast

\* ReadFull gives what was asked for, or all that is left when that is less.
LEMMA ReadFullGives ==
  ASSUME ReadTypes, NEW p \in Nat \ {0}, NEW r \in ReadFull(p)
  PROVE  /\ r.n \in 0..p
         /\ pos + r.n \in 0..req.sent
         /\ r.n < p => pos + r.n = req.sent
<1>1. req.sent \in Nat /\ pos \in Nat /\ pos <= req.sent
  BY DEF ReadTypes
<1>2. CASE req.sent - pos >= p
  <2>1. r = [n |-> p, end |-> "none"]
    BY <1>2 DEF ReadFull
  <2>2. QED
    BY <1>1, <1>2, <2>1
<1>3. CASE ~(req.sent - pos >= p)
  <2>1. r.n = req.sent - pos
    BY <1>3 DEF ReadFull
  <2>2. QED
    BY <1>1, <1>3, <2>1
<1>4. QED
  BY <1>2, <1>3

\* Storing no chunk, and leaving what there is behind, keeps the stored ones in order.
LEMMA SameChunks ==
  ASSUME ReadInv, chunks' = chunks, ~(step' = "store" /\ n' > 0)
  PROVE  ShortIsLast'
BY DEF ReadInv, ShortIsLast

\* The write fails, or goes on to the commit or to its end.
LEMMA EndStep ==
  ASSUME ReadInv, UNCHANGED <<req, buf, chunks>>, n' = n, pos' \in 0..req.sent, pos' >= pos,
         step' \in {"commit", "done"}
  PROVE  ReadInv'
<1>1. ReadTypes'
  BY DEF ReadInv, ReadTypes, Steps
<1>2. BufferInv'
  BY DEF BufferInv
<1>3. AtEndInv'
  <2>1. req.sent \in Nat /\ pos \in Nat /\ pos' \in Nat /\ pos' <= req.sent
    BY DEF ReadInv, ReadTypes
  <2>2. QED
    BY <2>1 DEF ReadInv, AtEndInv
<1>4. QED
  BY <1>1, <1>2, <1>3, SameChunks DEF ReadInv

\* readChunk's first read.
LEMMA FillStep == ASSUME ReadInv, Fill PROVE ReadInv'
<1>1. PICK r \in ReadFull(buf) :
        ReadOrEnd(r, /\ n' = r.n
                     /\ mem' = ReadInto(0, r.n)
                     /\ step' = IF r.n < buf \/ buf = ChunkSize THEN "store" ELSE "probe"
                     /\ UNCHANGED buf)
  BY Zenon DEF Fill
<1>2. buf \in Nat \ {0} /\ buf <= ChunkSize /\ req.sent \in Nat /\ pos \in Nat /\ pos <= req.sent
  BY DEF ReadInv, ReadTypes
<1>3. r.n \in 0..buf /\ pos + r.n \in 0..req.sent /\ (r.n < buf => pos + r.n = req.sent)
  BY <1>2, ReadFullGives DEF ReadInv
<1>4. UNCHANGED <<req, chunks>> /\ pos' = pos + r.n
  BY <1>1 DEF ReadOrEnd
<1>5. CASE r.end = "error"
  <2>1. step' = "done" /\ UNCHANGED <<buf, n>>
    BY <1>1, <1>5 DEF ReadOrEnd
  <2>2. QED
    BY <1>2, <1>3, <1>4, <2>1, EndStep
<1>6. CASE r.end # "error"
  <2>1. /\ n' = r.n /\ buf' = buf
        /\ step' = IF r.n < buf \/ buf = ChunkSize THEN "store" ELSE "probe"
    BY <1>1, <1>6 DEF ReadOrEnd
  <2>2. ReadTypes'
    BY <1>2, <1>3, <1>4, <2>1 DEF ReadInv, ReadTypes, Steps
  <2>3. BufferInv'
    BY <1>2, <1>3, <2>1 DEF BufferInv
  <2>4. \A i \in DOMAIN chunks : chunks[i] < ChunkSize => pos = req.sent
    BY DEF ReadInv, AtEndInv
  <2>5. (\E i \in DOMAIN chunks : chunks[i] < ChunkSize) => r.n = 0 /\ step' = "store"
    BY <1>2, <1>3, <2>1, <2>4
  <2>6. AtEndInv'
    BY <1>2, <1>3, <1>4, <2>1, <2>5 DEF ReadInv, AtEndInv
  <2>7. \A i \in DOMAIN chunks : chunks[i] \in 1..ChunkSize
    BY DEF ReadInv, ReadTypes
  <2>8. ShortIsLast'
    BY <1>2, <1>3, <1>4, <2>1, <2>5, <2>7 DEF ReadInv, ShortIsLast
  <2>9. QED
    BY <2>2, <2>3, <2>6, <2>8 DEF ReadInv
<1>7. QED
  BY <1>5, <1>6

\* readChunk's probe: at the end, or with a byte of a chunk that goes on.
LEMMA ProbeStep == ASSUME ReadInv, Probe PROVE ReadInv'
<1>1. PICK r \in ReadFull(1) :
        ReadOrEnd(r, IF r.n = 0 THEN step' = "store" /\ UNCHANGED <<buf, mem, n>>
                                ELSE /\ buf' = ChunkSize
                                     /\ mem' = ReadInto(n, 1)
                                     /\ n' = n + 1
                                     /\ step' = "rest")
  BY Zenon DEF Probe
<1>2. step = "probe" /\ n = buf /\ buf < ChunkSize /\ n \in Nat /\ n > 0 /\ req.sent \in Nat /\ pos \in Nat
  BY DEF Probe, ReadInv, ReadTypes, BufferInv
<1>3. r.n \in 0..1 /\ pos + r.n \in 0..req.sent /\ (r.n < 1 => pos + r.n = req.sent)
  BY ReadFullGives DEF ReadInv
<1>4. UNCHANGED <<req, chunks>> /\ pos' = pos + r.n
  BY <1>1 DEF ReadOrEnd
<1>5. \A i \in DOMAIN chunks : chunks[i] \in 1..ChunkSize /\ ~(chunks[i] < ChunkSize)
  BY <1>2 DEF ReadInv, ReadTypes, AtEndInv
<1>6. CASE r.end = "error"
  <2>1. step' = "done" /\ UNCHANGED <<buf, n>>
    BY <1>1, <1>6 DEF ReadOrEnd
  <2>2. QED
    BY <1>2, <1>3, <1>4, <2>1, EndStep
<1>7. CASE r.end # "error" /\ r.n = 0
  <2>1. step' = "store" /\ UNCHANGED <<buf, n>>
    BY <1>1, <1>7 DEF ReadOrEnd
  <2>2. ReadTypes'
    BY <1>3, <1>4, <2>1 DEF ReadInv, ReadTypes, Steps
  <2>3. AtEndInv' /\ BufferInv' /\ ShortIsLast'
    BY <1>2, <1>3, <1>4, <1>5, <1>7, <2>1 DEF AtEndInv, BufferInv, ShortIsLast
  <2>4. QED
    BY <2>2, <2>3 DEF ReadInv
<1>8. CASE r.end # "error" /\ r.n # 0
  <2>1. step' = "rest" /\ buf' = ChunkSize /\ n' = n + 1
    BY <1>1, <1>8 DEF ReadOrEnd
  <2>2. ReadTypes'
    BY <1>2, <1>3, <1>4, <2>1 DEF ReadInv, ReadTypes, Steps
  <2>3. AtEndInv' /\ BufferInv' /\ ShortIsLast'
    BY <1>2, <1>3, <1>4, <1>5, <1>8, <2>1 DEF AtEndInv, BufferInv, ShortIsLast
  <2>4. QED
    BY <2>2, <2>3 DEF ReadInv
<1>9. QED
  BY <1>6, <1>7, <1>8

\* readChunk's last read.
LEMMA RestStep == ASSUME ReadInv, Rest PROVE ReadInv'
<1>1. PICK r \in ReadFull(ChunkSize - n) :
        ReadOrEnd(r, /\ n' = n + r.n
                     /\ mem' = ReadInto(n, r.n)
                     /\ step' = "store"
                     /\ UNCHANGED buf)
  BY Zenon DEF Rest
<1>2. step = "rest" /\ buf = ChunkSize /\ n \in 1..ChunkSize /\ req.sent \in Nat /\ pos \in Nat
  BY DEF Rest, ReadInv, ReadTypes, BufferInv
<1>3. r.n \in 0..(ChunkSize - n) /\ pos + r.n \in 0..req.sent
      /\ (n + r.n < ChunkSize => pos + r.n = req.sent)
  <2>1. CASE n < ChunkSize
    <3>1. ChunkSize - n \in Nat \ {0}
      BY <1>2, <2>1
    <3>2. QED
      BY <1>2, <3>1, ReadFullGives DEF ReadInv
  <2>2. CASE n = ChunkSize
    <3>1. req.sent - pos >= ChunkSize - n
      BY <2>2 DEF ReadInv, ReadTypes
    <3>2. r = [n |-> ChunkSize - n, end |-> "none"]
      BY <3>1 DEF ReadFull
    <3>3. QED
      BY <1>2, <2>2, <3>2 DEF ReadInv, ReadTypes
  <2>3. QED
    BY <1>2, <2>1, <2>2
<1>4. UNCHANGED <<req, chunks>> /\ pos' = pos + r.n
  BY <1>1 DEF ReadOrEnd
<1>5. \A i \in DOMAIN chunks : chunks[i] \in 1..ChunkSize /\ ~(chunks[i] < ChunkSize)
  BY <1>2 DEF ReadInv, ReadTypes, AtEndInv
<1>6. CASE r.end = "error"
  <2>1. step' = "done" /\ UNCHANGED <<buf, n>>
    BY <1>1, <1>6 DEF ReadOrEnd
  <2>2. QED
    BY <1>2, <1>3, <1>4, <2>1, EndStep
<1>7. CASE r.end # "error"
  <2>1. step' = "store" /\ buf' = buf /\ n' = n + r.n
    BY <1>1, <1>7 DEF ReadOrEnd
  <2>2. ReadTypes'
    BY <1>2, <1>3, <1>4, <2>1, SMTT(20) DEF ReadInv, ReadTypes, Steps
  <2>3. AtEndInv' /\ BufferInv' /\ ShortIsLast'
    BY <1>2, <1>3, <1>4, <1>5, <2>1 DEF AtEndInv, BufferInv, ShortIsLast
  <2>4. QED
    BY <2>2, <2>3 DEF ReadInv
<1>8. QED
  BY <1>6, <1>7

\* Write's store: a chunk goes after full ones only.
LEMMA StoreChunkStep == ASSUME ReadInv, Store PROVE ReadInv'
<1>1. step = "store" /\ UNCHANGED <<req, pos, ending, buf>>
  BY DEF Store
<1>2. CASE step' \in {"commit", "done"} /\ UNCHANGED <<n, chunks>>
  <2>1. pos \in 0..req.sent /\ pos >= pos
    BY DEF ReadInv, ReadTypes
  <2>2. QED
    BY <1>1, <1>2, <2>1, EndStep
<1>3. CASE n > 0 /\ chunks' = Append(chunks, n) /\ n' = 0 /\ step' = "fill"
  <2>1. n \in 1..ChunkSize /\ chunks \in Seq(1..ChunkSize)
    BY <1>3 DEF ReadInv, ReadTypes
  <2>2. \A i \in DOMAIN chunks : chunks[i] = ChunkSize
    BY <1>1, <1>3 DEF ReadInv, ShortIsLast
  <2>3. /\ chunks' \in Seq(1..ChunkSize)
        /\ Len(chunks') = Len(chunks) + 1
        /\ \A i \in DOMAIN chunks' : chunks'[i] = ChunkSize \/ (i = Len(chunks') /\ chunks'[i] = n)
    BY <1>3, <2>1, <2>2
  <2>4. ReadTypes'
    BY <1>1, <1>3, <2>3 DEF ReadInv, ReadTypes, Steps
  <2>5. n < ChunkSize => pos = req.sent
    BY <1>1 DEF ReadInv, AtEndInv
  <2>6. AtEndInv'
    BY <1>1, <1>3, <2>1, <2>3, <2>5 DEF AtEndInv
  <2>7. BufferInv' /\ ShortIsLast'
    BY <1>3, <2>3 DEF BufferInv, ShortIsLast
  <2>8. QED
    BY <2>4, <2>6, <2>7 DEF ReadInv
<1>4. QED
  BY <1>2, <1>3 DEF Store

\* The buffer starts empty, between one byte and a chunk long.
LEMMA ReadInit == ASSUME Init PROVE ReadInv
<1>1. req.sent \in Nat /\ req.expect \in Nat
  BY DEF Init, Requests
<1>2. StartSize(req) \in 1..ChunkSize
  BY <1>1 DEF StartSize
<1>3. ReadTypes
  BY <1>1, <1>2 DEF Init, ReadTypes, Steps
<1>4. BufferInv /\ AtEndInv /\ ShortIsLast
  BY DEF Init, BufferInv, AtEndInv, ShortIsLast
<1>5. QED
  BY <1>3, <1>4 DEF ReadInv

\* Every step keeps ReadInv.
LEMMA ReadStep == ASSUME ReadInv, [Next]_vars PROVE ReadInv'
<1>1. CASE Commit
  <2>1. pos \in 0..req.sent /\ pos >= pos
    BY DEF ReadInv, ReadTypes
  <2>2. QED
    BY <1>1, <2>1, EndStep DEF Commit
<1>2. CASE UNCHANGED vars
  BY <1>2 DEF vars, ReadInv, ReadTypes, BufferInv, AtEndInv, ShortIsLast
<1>3. QED
  BY <1>1, <1>2, FillStep, ProbeStep, RestStep, StoreChunkStep DEF Next, Done

\* Only the last chunk of a body is short of the chunk size, for every body, buffer
\* and chunk size, and however the body ends.
THEOREM OnlyLastIsShort == Spec => []ShortIsLast
<1>1. ReadInv /\ [Next]_vars => ReadInv'
  BY ReadStep
<1>2. ReadInv => ShortIsLast
  BY DEF ReadInv
<1>3. QED
  BY ReadInit, <1>1, <1>2, PTL DEF Spec

-----------------------------------------------------------------------------
\* What a request, its body and its outcome may be, and a buffer that holds no more
\* than it is long.
RequestTypes == /\ req \in Requests
                /\ ending \in {"open", "eof", "unexpected", "error"}
                /\ n <= buf
                /\ outcome \in {"none", "committed", "failed"}

\* Every reader the body may be behind ends it in one of three ways.
LEMMA EndsKnown ==
  ASSUME RequestTypes, ReadTypes, NEW p \in Nat, NEW r \in ReadFull(p)
  PROVE  /\ r.end \in {"none", "eof", "unexpected", "error"}
         /\ r.n \in Nat /\ r.n <= p
<1>1. /\ req.how \in {"whole", "short", "closed", "reset"}
      /\ req.payload \in {"unsigned", "hashed", "framed", "copied"}
  BY HowAssumption, Zenon DEF RequestTypes, Requests
<1>2. RawEnd \in {"eof", "unexpected", "error"}
  BY <1>1 DEF RawEnd
<1>3. HashedEnd \in {"eof", "unexpected", "error"}
  BY <1>2 DEF HashedEnd
<1>4. FramedEnds \subseteq {"eof", "unexpected", "error"}
  BY <1>2 DEF FramedEnds, RequestTypes
<1>5. Ends \subseteq {"eof", "unexpected", "error"}
  BY <1>1, <1>2, <1>3, <1>4 DEF Ends
<1>6. CASE req.sent - pos >= p
  BY <1>6 DEF ReadFull
<1>7. CASE ~(req.sent - pos >= p)
  <2>1. req.sent - pos \in Nat /\ req.sent - pos < p
    BY <1>7 DEF ReadTypes
  <2>2. PICK e \in Ends : r = [n |-> req.sent - pos, end |-> e]
    BY <1>7 DEF ReadFull
  <2>3. QED
    BY <1>5, <2>1, <2>2
<1>8. QED
  BY <1>6, <1>7

\* A read that ends or goes on keeps them, if going on leaves the buffer long enough.
LEMMA EndTypes ==
  ASSUME RequestTypes, ReadTypes, NEW p \in Nat, NEW r \in ReadFull(p), NEW Continue,
         ReadOrEnd(r, Continue), Continue => n' <= buf'
  PROVE  RequestTypes'
<1>1. r.end \in {"none", "eof", "unexpected", "error"}
  BY EndsKnown
<1>2. req' = req /\ ending' \in {ending, r.end} /\ (r.end = "none" => ending' = ending)
  BY DEF ReadOrEnd
<1>3. outcome' \in {outcome, "failed"} /\ n' <= buf'
  BY DEF ReadOrEnd, RequestTypes
<1>4. QED
  BY <1>1, <1>2, <1>3 DEF RequestTypes

\* Every step keeps RequestTypes.
LEMMA RequestTypesStep == ASSUME ReadInv, RequestTypes, [Next]_vars PROVE RequestTypes'
<1>1. /\ ReadTypes /\ BufferInv /\ buf \in Nat /\ n \in Nat /\ ChunkSize - n \in Nat
      /\ n <= buf /\ buf <= ChunkSize
  BY DEF ReadInv, ReadTypes, RequestTypes
<1>2. CASE Fill
  <2>1. PICK r \in ReadFull(buf) :
          ReadOrEnd(r, /\ n' = r.n
                       /\ mem' = ReadInto(0, r.n)
                       /\ step' = IF r.n < buf \/ buf = ChunkSize THEN "store" ELSE "probe"
                       /\ UNCHANGED buf)
    BY <1>2, Zenon DEF Fill
  <2>2. r.n <= buf
    BY <1>1, EndsKnown
  <2>3. QED
    BY <1>1, <2>1, <2>2, EndTypes, Zenon
<1>3. CASE Probe
  <2>1. PICK r \in ReadFull(1) :
          ReadOrEnd(r, IF r.n = 0 THEN step' = "store" /\ UNCHANGED <<buf, mem, n>>
                                  ELSE /\ buf' = ChunkSize
                                       /\ mem' = ReadInto(n, 1)
                                       /\ n' = n + 1
                                       /\ step' = "rest")
    BY <1>3, Zenon DEF Probe
  <2>2. n = buf /\ buf < ChunkSize
    BY <1>1, <1>3 DEF Probe, BufferInv
  <2>3. (IF r.n = 0 THEN step' = "store" /\ UNCHANGED <<buf, mem, n>>
                    ELSE /\ buf' = ChunkSize
                         /\ mem' = ReadInto(n, 1)
                         /\ n' = n + 1
                         /\ step' = "rest") => n' <= buf'
    BY <1>1, <2>2
  <2>4. QED
    BY <1>1, <2>1, <2>3, EndTypes, Zenon
<1>4. CASE Rest
  <2>1. PICK r \in ReadFull(ChunkSize - n) :
          ReadOrEnd(r, /\ n' = n + r.n
                       /\ mem' = ReadInto(n, r.n)
                       /\ step' = "store"
                       /\ UNCHANGED buf)
    BY <1>4, Zenon DEF Rest
  <2>2. buf = ChunkSize
    BY <1>1, <1>4 DEF Rest, BufferInv
  <2>3. r.n \in Nat /\ r.n <= ChunkSize - n
    BY <1>1, EndsKnown
  <2>4. (/\ n' = n + r.n
         /\ mem' = ReadInto(n, r.n)
         /\ step' = "store"
         /\ UNCHANGED buf) => n' <= buf'
    BY <1>1, <2>2, <2>3
  <2>5. QED
    BY <1>1, <2>1, <2>4, EndTypes, Zenon
<1>5. CASE Store \/ Commit
  <2>1. UNCHANGED <<req, ending, buf>> /\ n' \in {n, 0}
        /\ outcome' \in {outcome, "committed", "failed"}
    BY <1>5 DEF Store, Commit
  <2>2. QED
    BY <1>1, <2>1 DEF RequestTypes
<1>6. CASE UNCHANGED vars
  BY <1>6 DEF vars, RequestTypes
<1>7. QED
  BY <1>2, <1>3, <1>4, <1>5, <1>6 DEF Next, Done

-----------------------------------------------------------------------------
\* The bytes stored are the first ones of the body, and those in the buffer the ones
\* that follow, up to where the body has been read.
KeptInv == /\ mem \in [1..ChunkSize -> 0..req.sent]
           /\ content \in Seq(0..req.sent)
           /\ \A k \in 1..Len(content) : content[k] = k
           /\ step # "done" => Len(content) + n = pos
           /\ step \in {"fill", "commit"} => n = 0
           /\ step \in {"probe", "rest", "store"} => \A k \in 1..n : mem[k] = Len(content) + k
           /\ outcome = "committed" => step = "done" /\ content = Body(pos)

\* What is read into the buffer is what comes next in the body, after what it holds.
LEMMA ReadIntoKeeps ==
  ASSUME ReadTypes, KeptInv, NEW from \in Nat, NEW count \in Nat, pos + count <= req.sent,
         mem' = ReadInto(from, count)
  PROVE  /\ mem' \in [1..ChunkSize -> 0..req.sent]
         /\ \A k \in 1..ChunkSize : k <= from => mem'[k] = mem[k]
         /\ \A k \in 1..ChunkSize : from < k /\ k <= from + count => mem'[k] = pos + k - from
<1>1. pos \in Nat /\ req.sent \in Nat /\ mem \in [1..ChunkSize -> 0..req.sent]
  BY DEF ReadTypes, KeptInv
<1>2. ASSUME NEW k \in 1..ChunkSize
      PROVE  (IF k \in (from + 1)..(from + count) THEN pos + k - from ELSE mem[k]) \in 0..req.sent
  BY <1>1, <1>2
<1>3. mem' \in [1..ChunkSize -> 0..req.sent]
  BY <1>2 DEF ReadInto
<1>4. ASSUME NEW k \in 1..ChunkSize
      PROVE  /\ k <= from => mem'[k] = mem[k]
             /\ from < k /\ k <= from + count => mem'[k] = pos + k - from
  BY <1>1, <1>4 DEF ReadInto
<1>5. QED
  BY <1>3, <1>4

\* A read that fails stores nothing and commits nothing.
LEMMA KeptAtEnd ==
  ASSUME KeptInv, step # "done", step' = "done", outcome' \in {outcome, "failed"},
         UNCHANGED <<req, mem, content>>
  PROVE  KeptInv'
BY DEF KeptInv

\* Every step keeps KeptInv.
LEMMA KeptStep == ASSUME ReadInv, KeptInv, [Next]_vars PROVE KeptInv'
<1>1. /\ ReadTypes /\ BufferInv
      /\ pos \in Nat /\ n \in Nat /\ n <= ChunkSize /\ req.sent \in Nat
      /\ buf \in Nat \ {0} /\ buf <= ChunkSize /\ content \in Seq(0..req.sent)
      /\ Len(content) \in Nat
  BY DEF ReadInv, ReadTypes, KeptInv
<1>2. CASE Fill
  <2>1. PICK r \in ReadFull(buf) :
          ReadOrEnd(r, /\ n' = r.n
                       /\ mem' = ReadInto(0, r.n)
                       /\ step' = IF r.n < buf \/ buf = ChunkSize THEN "store" ELSE "probe"
                       /\ UNCHANGED buf)
    BY <1>2, Zenon DEF Fill
  <2>2. r.n \in 0..buf /\ pos + r.n \in 0..req.sent
    BY <1>1, ReadFullGives
  <2>3. step = "fill" /\ UNCHANGED <<req, content>> /\ pos' = pos + r.n
    BY <1>2, <2>1 DEF Fill, ReadOrEnd
  <2>4. CASE r.end = "error"
    BY <2>1, <2>3, <2>4, KeptAtEnd DEF ReadOrEnd
  <2>5. CASE r.end # "error"
    <3>1. /\ n' = r.n /\ mem' = ReadInto(0, r.n) /\ step' \in {"store", "probe"}
          /\ outcome' = outcome
      BY <2>1, <2>5 DEF ReadOrEnd
    <3>2. r.n \in Nat /\ pos + r.n <= req.sent /\ r.n <= ChunkSize
      BY <1>1, <2>2
    <3>3. /\ mem' \in [1..ChunkSize -> 0..req.sent]
          /\ \A k \in 1..ChunkSize : 0 < k /\ k <= 0 + r.n => mem'[k] = pos + k - 0
      BY <1>1, <3>1, <3>2, ReadIntoKeeps
    <3>4. ASSUME NEW k \in 1..r.n PROVE mem'[k] = pos + k
      BY <1>1, <3>2, <3>3
    <3>5. Len(content) = pos /\ outcome # "committed"
      BY <1>1, <2>3 DEF KeptInv
    <3>6. QED
      BY <1>1, <2>2, <2>3, <3>1, <3>2, <3>3, <3>4, <3>5 DEF KeptInv
  <2>6. QED
    BY <2>4, <2>5
<1>3. CASE Probe
  <2>1. PICK r \in ReadFull(1) :
          ReadOrEnd(r, IF r.n = 0 THEN step' = "store" /\ UNCHANGED <<buf, mem, n>>
                                  ELSE /\ buf' = ChunkSize
                                       /\ mem' = ReadInto(n, 1)
                                       /\ n' = n + 1
                                       /\ step' = "rest")
    BY <1>3, Zenon DEF Probe
  <2>2. r.n \in 0..1 /\ pos + r.n \in 0..req.sent
    BY <1>1, ReadFullGives
  <2>3. step = "probe" /\ UNCHANGED <<req, content>> /\ pos' = pos + r.n /\ n < ChunkSize
    BY <1>1, <1>3, <2>1 DEF Probe, ReadOrEnd, BufferInv
  <2>4. outcome # "committed" /\ Len(content) + n = pos /\ \A k \in 1..n : mem[k] = Len(content) + k
    BY <2>3 DEF KeptInv
  <2>5. CASE r.end = "error"
    BY <2>1, <2>3, <2>5, KeptAtEnd DEF ReadOrEnd
  <2>6. CASE r.end # "error" /\ r.n = 0
    <3>1. step' = "store" /\ UNCHANGED <<mem, n, outcome>>
      BY <2>1, <2>6 DEF ReadOrEnd
    <3>2. QED
      BY <1>1, <2>3, <2>4, <2>6, <3>1 DEF KeptInv
  <2>7. CASE r.end # "error" /\ r.n # 0
    <3>1. step' = "rest" /\ mem' = ReadInto(n, 1) /\ n' = n + 1 /\ outcome' = outcome
      BY <2>1, <2>7 DEF ReadOrEnd
    <3>2. r.n = 1 /\ pos + 1 <= req.sent
      BY <1>1, <2>2, <2>7
    <3>3. /\ mem' \in [1..ChunkSize -> 0..req.sent]
          /\ \A k \in 1..ChunkSize : k <= n => mem'[k] = mem[k]
          /\ \A k \in 1..ChunkSize : n < k /\ k <= n + 1 => mem'[k] = pos + k - n
      BY <1>1, <3>1, <3>2, ReadIntoKeeps
    <3>4. ASSUME NEW k \in 1..(n + 1) PROVE mem'[k] = Len(content) + k
      <4>1. k \in 1..ChunkSize /\ (k \in 1..n \/ (n < k /\ k <= n + 1))
        BY <1>1, <2>3, <3>4
      <4>2. CASE k \in 1..n
        <5>1. mem'[k] = mem[k] /\ mem[k] = Len(content) + k
          BY <1>1, <2>4, <3>3, <4>1, <4>2
        <5>2. QED
          BY <5>1
      <4>3. CASE n < k /\ k <= n + 1
        <5>1. mem'[k] = pos + k - n
          BY <3>3, <4>1, <4>3
        <5>2. pos = Len(content) + n /\ k \in Nat /\ Len(content) \in Nat /\ n \in Nat
          BY <1>1, <2>4, <4>1
        <5>3. pos + k - n = Len(content) + k
          BY <5>2
        <5>4. QED
          BY <5>1, <5>3
      <4>4. QED
        BY <4>1, <4>2, <4>3
    <3>5. QED
      BY <1>1, <2>3, <2>4, <3>1, <3>2, <3>3, <3>4 DEF KeptInv
  <2>8. QED
    BY <2>5, <2>6, <2>7
<1>4. CASE Rest
  <2>1. PICK r \in ReadFull(ChunkSize - n) :
          ReadOrEnd(r, /\ n' = n + r.n
                       /\ mem' = ReadInto(n, r.n)
                       /\ step' = "store"
                       /\ UNCHANGED buf)
    BY <1>4, Zenon DEF Rest
  <2>2. r.n \in 0..(ChunkSize - n) /\ pos + r.n <= req.sent
    <3>1. CASE req.sent - pos >= ChunkSize - n
      BY <1>1, <3>1 DEF ReadFull
    <3>2. CASE ~(req.sent - pos >= ChunkSize - n)
      BY <1>1, <3>2 DEF ReadFull, ReadTypes
    <3>3. QED
      BY <3>1, <3>2
  <2>3. step = "rest" /\ UNCHANGED <<req, content>> /\ pos' = pos + r.n
    BY <1>4, <2>1 DEF Rest, ReadOrEnd
  <2>4. outcome # "committed" /\ Len(content) + n = pos /\ \A k \in 1..n : mem[k] = Len(content) + k
    BY <2>3 DEF KeptInv
  <2>5. CASE r.end = "error"
    BY <2>1, <2>3, <2>5, KeptAtEnd DEF ReadOrEnd
  <2>6. CASE r.end # "error"
    <3>1. step' = "store" /\ mem' = ReadInto(n, r.n) /\ n' = n + r.n /\ outcome' = outcome
      BY <2>1, <2>6 DEF ReadOrEnd
    <3>2. r.n \in Nat /\ pos + r.n <= req.sent /\ n + r.n <= ChunkSize
      BY <1>1, <2>2
    <3>3. /\ mem' \in [1..ChunkSize -> 0..req.sent]
          /\ \A k \in 1..ChunkSize : k <= n => mem'[k] = mem[k]
          /\ \A k \in 1..ChunkSize : n < k /\ k <= n + r.n => mem'[k] = pos + k - n
      BY <1>1, <3>1, <3>2, ReadIntoKeeps
    <3>4. ASSUME NEW k \in 1..(n + r.n) PROVE mem'[k] = Len(content) + k
      <4>1. k \in 1..ChunkSize /\ (k \in 1..n \/ (n < k /\ k <= n + r.n))
        BY <1>1, <3>2, <3>4
      <4>2. CASE k \in 1..n
        <5>1. mem'[k] = mem[k] /\ mem[k] = Len(content) + k
          BY <1>1, <2>4, <3>3, <4>1, <4>2
        <5>2. QED
          BY <5>1
      <4>3. CASE n < k /\ k <= n + r.n
        <5>1. mem'[k] = pos + k - n
          BY <3>3, <4>1, <4>3
        <5>2. pos = Len(content) + n /\ k \in Nat /\ Len(content) \in Nat /\ n \in Nat
          BY <1>1, <2>4, <4>1
        <5>3. pos + k - n = Len(content) + k
          BY <5>2
        <5>4. QED
          BY <5>1, <5>3
      <4>4. QED
        BY <4>1, <4>2, <4>3
    <3>5. Len(content) + n' = pos'
      BY <1>1, <2>3, <2>4, <3>1, <3>2
    <3>6. QED
      BY <2>3, <2>4, <3>1, <3>3, <3>4, <3>5 DEF KeptInv
  <2>7. QED
    BY <2>5, <2>6
<1>5. CASE Store
  <2>1. step = "store" /\ UNCHANGED <<req, pos, mem>>
    BY <1>5 DEF Store
  <2>2. outcome # "committed" /\ Len(content) + n = pos /\ \A k \in 1..n : mem[k] = Len(content) + k
    BY <2>1 DEF KeptInv
  <2>3. CASE n = 0 /\ step' = "commit" /\ UNCHANGED <<n, content, outcome>>
    BY <1>1, <2>1, <2>2, <2>3 DEF KeptInv
  <2>4. CASE step' = "done" /\ outcome' = "failed" /\ UNCHANGED content
    BY <2>1, <2>4, KeptAtEnd
  <2>5. CASE /\ content' = content \o [k \in 1..n |-> mem[k]]
             /\ n' = 0 /\ step' = "fill" /\ UNCHANGED outcome
    <3> DEFINE held == [k \in 1..n |-> mem[k]]
    <3>1. held \in Seq(0..req.sent) /\ Len(held) = n /\ \A k \in 1..n : held[k] = Len(content) + k
      BY <1>1, <2>2 DEF KeptInv
    <3> HIDE DEF held
    <3>2. /\ content' \in Seq(0..req.sent)
          /\ Len(content') = Len(content) + n
          /\ \A k \in 1..(Len(content) + n) :
               content'[k] = IF k <= Len(content) THEN content[k] ELSE held[k - Len(content)]
      BY <1>1, <2>5, <3>1 DEF held
    <3>3. ASSUME NEW k \in 1..Len(content') PROVE content'[k] = k
      <4>1. CASE k <= Len(content)
        <5>1. k \in 1..Len(content) /\ k \in 1..(Len(content) + n)
          BY <1>1, <3>2, <4>1
        <5>2. content[k] = k
          BY <5>1 DEF KeptInv
        <5>3. QED
          BY <3>2, <4>1, <5>1, <5>2
      <4>2. CASE k > Len(content)
        <5>1. k - Len(content) \in 1..n
          BY <1>1, <3>2, <4>2
        <5>2. QED
          BY <1>1, <3>1, <3>2, <4>2, <5>1
      <4>3. QED
        BY <1>1, <3>2, <4>1, <4>2
    <3>4. QED
      BY <1>1, <2>1, <2>2, <2>5, <3>2, <3>3 DEF KeptInv
  <2>6. QED
    BY <1>5, <2>3, <2>4, <2>5, Zenon DEF Store
<1>6. CASE Commit
  <2>1. /\ step = "commit" /\ step' = "done" /\ outcome' \in {"committed", "failed"}
        /\ UNCHANGED <<req, pos, mem, n, content>>
    BY <1>6 DEF Commit
  <2>2. Len(content) = pos /\ \A k \in 1..pos : content[k] = k
    BY <1>1, <2>1 DEF KeptInv
  <2>3. content = Body(pos)
    BY <1>1, <2>2 DEF Body
  <2>4. QED
    BY <2>1, <2>3, Zenon DEF KeptInv, Body
<1>7. CASE UNCHANGED vars
  BY <1>7 DEF vars, KeptInv, Body
<1>8. QED
  BY <1>2, <1>3, <1>4, <1>5, <1>6, <1>7 DEF Next, Done

\* The buffer starts empty and nothing is stored.
LEMMA KeptInit == ASSUME Init PROVE KeptInv
<1>1. req.sent \in Nat
  BY DEF Init, Requests
<1>2. QED
  BY <1>1 DEF Init, KeptInv

\* A write that is committed has read all that arrived.
AllReadInv == step = "commit" \/ outcome = "committed" => pos = req.sent

\* Every step keeps AllReadInv: an empty chunk is at the end of the body, and nothing is
\* read after a commit.
LEMMA AllReadStep == ASSUME ReadInv, KeptInv, AllReadInv, [Next]_vars PROVE AllReadInv'
<1>1. CASE Fill \/ Probe \/ Rest
  <2>1. step \in {"fill", "probe", "rest"} /\ outcome # "committed"
    BY <1>1, Zenon DEF Fill, Probe, Rest, KeptInv
  <2>2. step' # "commit" /\ outcome' # "committed"
    BY <1>1, <2>1 DEF Fill, Probe, Rest, ReadOrEnd
  <2>3. QED
    BY <2>2 DEF AllReadInv
<1>2. CASE Store
  <2>1. step = "store" /\ outcome # "committed" /\ UNCHANGED <<req, pos>>
    BY <1>2 DEF Store, KeptInv
  <2>2. outcome' # "committed" /\ (step' = "commit" => n = 0)
    BY <1>2, <2>1 DEF Store
  <2>3. n = 0 => pos = req.sent
    BY <2>1 DEF ReadInv, AtEndInv
  <2>4. QED
    BY <2>1, <2>2, <2>3 DEF AllReadInv
<1>3. CASE Commit
  BY <1>3 DEF Commit, AllReadInv
<1>4. CASE UNCHANGED vars
  BY <1>4 DEF vars, AllReadInv
<1>5. QED
  BY <1>1, <1>2, <1>3, <1>4 DEF Next, Done

\* What is committed is byte for byte what arrived, and all of it, for every body, chunk,
\* buffer and frame size, however the body is framed and ends, with a digest or without.
THEOREM NothingLost == Spec => []StoresWhatArrived
<1>1. ReadInv /\ [Next]_vars => ReadInv'
  BY ReadStep
<1>2. ReadInv /\ KeptInv /\ [Next]_vars => KeptInv'
  BY KeptStep
<1>3. ReadInv /\ KeptInv /\ AllReadInv /\ [Next]_vars => AllReadInv'
  BY AllReadStep
<1>4. Init => AllReadInv
  BY DEF Init, AllReadInv
<1>5. KeptInv /\ AllReadInv => StoresWhatArrived
  BY DEF KeptInv, AllReadInv, StoresWhatArrived
<1>6. QED
  BY ReadInit, KeptInit, <1>1, <1>2, <1>3, <1>4, <1>5, PTL DEF Spec

-----------------------------------------------------------------------------
\* A request and its write keep their types, and a buffer holds no more than it is
\* long, for bodies, chunks and buffers of every size.
THEOREM ReceiveTypes == Spec => []TypeOK
<1>1. Init => RequestTypes
  <2> SUFFICES ASSUME Init PROVE RequestTypes
    OBVIOUS
  <2>1. buf \in Nat /\ n = 0
    BY ReadInit DEF Init, ReadInv, ReadTypes
  <2>2. QED
    BY <2>1 DEF Init, RequestTypes
<1>2. ReadInv /\ [Next]_vars => ReadInv'
  BY ReadStep
<1>3. ReadInv /\ RequestTypes /\ [Next]_vars => RequestTypes'
  BY RequestTypesStep
<1>4. ReadInv /\ KeptInv /\ [Next]_vars => KeptInv'
  BY KeptStep
<1>5. ReadInv /\ RequestTypes /\ KeptInv => TypeOK
  <2> SUFFICES ASSUME ReadInv, RequestTypes, KeptInv PROVE TypeOK
    OBVIOUS
  <2>1. n \in 0..buf
    BY DEF ReadInv, ReadTypes, RequestTypes
  <2>2. QED
    BY <2>1 DEF ReadInv, ReadTypes, Steps, RequestTypes, KeptInv, TypeOK
<1>6. QED
  BY ReadInit, KeptInit, <1>1, <1>2, <1>3, <1>4, <1>5, PTL DEF Spec

-----------------------------------------------------------------------------
\* What is in the buffer has been read, and a buffer that grew has read more than it
\* held at first.
GrowInv == /\ StartSize(req) \in Nat
           /\ pos >= n
           /\ buf = StartSize(req) \/ pos > StartSize(req)

\* Every step keeps GrowInv.
LEMMA GrowStep == ASSUME ReadInv, GrowInv, [Next]_vars PROVE GrowInv'
<1> DEFINE start == StartSize(req)
<1>1. /\ pos \in Nat /\ n \in Nat /\ buf \in Nat \ {0} /\ req.sent \in Nat
      /\ ChunkSize - n \in Nat /\ start \in Int /\ pos >= n
  BY DEF ReadInv, ReadTypes, GrowInv
<1>2. ASSUME NEW p \in Nat, NEW r \in ReadFull(p) PROVE r.n \in Nat
  <2>1. CASE req.sent - pos >= p
    BY <1>2, <2>1 DEF ReadFull
  <2>2. CASE ~(req.sent - pos >= p)
    BY <1>1, <1>2, <2>2 DEF ReadFull, ReadInv, ReadTypes
  <2>3. QED
    BY <2>1, <2>2
<1>3. CASE Fill
  <2>1. PICK r \in ReadFull(buf) :
          ReadOrEnd(r, /\ n' = r.n
                       /\ mem' = ReadInto(0, r.n)
                       /\ step' = IF r.n < buf \/ buf = ChunkSize THEN "store" ELSE "probe"
                       /\ UNCHANGED buf)
    BY <1>3, Zenon DEF Fill
  <2>2. r.n \in Nat
    BY <1>1, <1>2
  <2>3. pos' = pos + r.n /\ buf' = buf /\ req' = req /\ (n' = n \/ n' = r.n)
    BY <2>1 DEF ReadOrEnd
  <2>4. QED
    BY <1>1, <2>2, <2>3 DEF GrowInv, StartSize
<1>4. CASE Probe
  <2>1. PICK r \in ReadFull(1) :
          ReadOrEnd(r, IF r.n = 0 THEN step' = "store" /\ UNCHANGED <<buf, mem, n>>
                                  ELSE /\ buf' = ChunkSize
                                       /\ mem' = ReadInto(n, 1)
                                       /\ n' = n + 1
                                       /\ step' = "rest")
    BY <1>4, Zenon DEF Probe
  <2>2. r.n \in 0..1
    BY ReadFullGives DEF ReadInv
  <2>3. n = buf
    BY <1>4 DEF Probe, ReadInv, BufferInv
  <2>4. /\ pos' = pos + r.n /\ req' = req
        /\ (buf' = buf /\ n' = n) \/ (r.n = 1 /\ n' = n + 1)
    BY <2>1, <2>2 DEF ReadOrEnd
  <2>5. QED
    BY <1>1, <2>2, <2>3, <2>4 DEF GrowInv, StartSize
<1>5. CASE Rest
  <2>1. PICK r \in ReadFull(ChunkSize - n) :
          ReadOrEnd(r, /\ n' = n + r.n
                       /\ mem' = ReadInto(n, r.n)
                       /\ step' = "store"
                       /\ UNCHANGED buf)
    BY <1>5, Zenon DEF Rest
  <2>2. r.n \in Nat
    BY <1>1, <1>2
  <2>3. pos' = pos + r.n /\ buf' = buf /\ req' = req /\ (n' = n \/ n' = n + r.n)
    BY <2>1 DEF ReadOrEnd
  <2>4. QED
    BY <1>1, <2>2, <2>3 DEF GrowInv, StartSize
<1>6. CASE Store \/ Commit \/ Done \/ UNCHANGED vars
  <2>1. UNCHANGED <<req, pos, buf>> /\ (n' = n \/ n' = 0)
    BY <1>6 DEF Store, Commit, Done, vars
  <2>2. QED
    BY <1>1, <2>1 DEF GrowInv, StartSize
<1>7. QED
  BY <1>3, <1>4, <1>5, <1>6 DEF Next

\* The buffer of a write grows past what the caller expects only for a body that has
\* proved to be longer, whatever the sizes.
THEOREM GrowsOnlyForMore == Spec => []GrowsForMore
<1>1. Init => GrowInv
  <2> SUFFICES ASSUME Init PROVE GrowInv
    OBVIOUS
  <2>1. req.expect \in Nat
    BY DEF Init, Requests
  <2>2. QED
    BY <2>1 DEF Init, GrowInv, StartSize
<1>2. ReadInv /\ [Next]_vars => ReadInv'
  BY ReadStep
<1>3. ReadInv /\ GrowInv /\ [Next]_vars => GrowInv'
  BY GrowStep
<1>4. ReadInv /\ GrowInv => GrowsForMore
  <2>1. ASSUME ReadInv PROVE buf \in Nat
    BY <2>1 DEF ReadInv, ReadTypes
  <2>2. QED
    BY <2>1 DEF GrowInv, GrowsForMore
<1>5. QED
  BY ReadInit, <1>1, <1>2, <1>3, <1>4, PTL DEF Spec

=============================================================================
