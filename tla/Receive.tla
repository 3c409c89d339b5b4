------------------------------ MODULE Receive ------------------------------
(***************************************************************************)
(* One upload, from the connection to the commit: what net/http and the    *)
(* payload readers of sigv4 report about the end of a body, how            *)
(* object.Write cuts it into chunks, and what Put checks before it commits.*)
(*                                                                         *)
(* A byte is its place in the body that the client means to send, and a    *)
(* digest is the sequence it is the digest of.  Where the chunks go, and   *)
(* what protects them until the commit, is Collection's subject.           *)
(***************************************************************************)
EXTENDS Integers, Sequences

CONSTANTS MaxLen,       \* bound on the length of a body
          ChunkSize,    \* the chunk size of the data path
          SmallObject,  \* where a write's buffer starts when nothing is declared
          FrameSize,    \* data bytes of an aws-chunked frame
          Hows          \* the ways a body may end

ASSUME SizeAssumption == /\ MaxLen \in Nat
                         /\ ChunkSize \in Nat \ {0}
                         /\ SmallObject \in Nat \ {0}
                         /\ FrameSize \in Nat \ {0}
ASSUME HowAssumption  == Hows \subseteq {"whole", "short", "closed", "reset"}

VARIABLES req,      \* the request: what the client means to send, and what arrives
          pos,      \* bytes of the body read so far
          ending,   \* how the body has reported its end: "open" until it has
          buf,      \* length of the write's buffer
          mem,      \* what the buffer holds, bytes of an earlier chunk included
          n,        \* bytes of the next chunk that are in the buffer
          step,     \* where object.Write is
          chunks,   \* sizes of the chunks stored
          content,  \* their bytes, in order: what a read of the manifest returns
          outcome   \* "none", "committed" or "failed"

vars == <<req, pos, ending, buf, mem, n, step, chunks, content, outcome>>

-----------------------------------------------------------------------------
\* len bytes are meant and sent bytes arrive: all of them and the terminators
\* ("whole"), until the connection is closed or reset, or until an HTTP body that
\* ends properly although its aws-chunked framing does not ("short").  expect is
\* what the handler passes on as the length: a hint.
\* A part that is copied comes through a pipe from a read of its source, which stops
\* short when it fails, and whose error the pipe reports every time: "closed" is one
\* that wraps an EOF, as Read's result "eof" is.
Requests ==
  {r \in [len     : 0..MaxLen,
          sent    : 0..MaxLen,
          how     : Hows,
          framing : {"length", "chunked"},
          payload : {"unsigned", "hashed", "framed", "copied"},
          digest  : {"none", "header", "trailer"},
          expect  : 0..MaxLen] :
     /\ r.sent <= r.len
     /\ r.how = "whole" => r.sent = r.len
     /\ r.how = "short" => r.payload = "framed"
     /\ r.digest = "trailer" => r.payload = "framed"
     /\ r.payload = "copied" =>
          /\ r.framing = "chunked" /\ r.expect = r.len
          /\ r.how # "whole" => r.sent < r.len
     /\ r.payload \in {"unsigned", "hashed"} =>
          /\ r.expect = (IF r.framing = "length" THEN r.len ELSE 0)
          /\ r.framing = "length" /\ r.how # "whole" => r.sent < r.len}

\* net/http: how the body reports its end.  A body cut short of its
\* Content-Length is reported once, and is at its end when it is read again; one
\* cut short of the terminating HTTP chunk is reported every time.
RawEnd ==
  CASE req.how \in {"whole", "short"} -> "eof"
    [] req.how = "reset"              -> "error"
    [] req.how = "closed"             -> IF req.framing = "length" /\ ending = "unexpected"
                                         THEN "eof" ELSE "unexpected"

\* hashChecker: at the end of the body, and only there, the hash must match.
HashedEnd == IF RawEnd = "eof" /\ req.sent < req.len THEN "error" ELSE RawEnd

\* chunkedReader: an error is kept and reported again.  Inside a frame, and in a
\* framing line, what the body reported is wrapped; a body that ends between two
\* frames is an error, unless it ends within a framing line, whose beginning is
\* then taken for the whole of it.
FramedEnds ==
  LET midFrame == req.sent < req.len /\ req.sent % FrameSize # 0
  IN  IF ending # "open" THEN {ending}
      ELSE IF req.how = "short" /\ ~midFrame THEN {"error", "eof"}
      ELSE {RawEnd}

\* verifiedBody: the reader for the payload the client declared; CopyPart's pipe.
Ends == CASE req.payload \in {"unsigned", "copied"} -> {RawEnd}
          [] req.payload = "hashed"                -> {HashedEnd}
          [] req.payload = "framed"                -> FramedEnds

\* io.ReadFull over the body: p bytes, or those that are left and why.
ReadFull(p) ==
  LET left == req.sent - pos
  IN  IF left >= p THEN {[n |-> p, end |-> "none"]}
                   ELSE {[n |-> left, end |-> e] : e \in Ends}

\* readOrEnd with result r: a source that ends is not an error, whether it says
\* EOF or unexpected EOF, wrapped or not.  Then continue as Continue says.
ReadOrEnd(r, Continue) ==
  /\ pos' = pos + r.n
  /\ ending' = IF r.end = "none" THEN ending ELSE r.end
  /\ IF r.end = "error"
     THEN /\ outcome' = "failed"
          /\ step' = "done"
          /\ UNCHANGED <<buf, mem, n>>
     ELSE /\ Continue
          /\ UNCHANGED outcome
  /\ UNCHANGED <<req, chunks, content>>

\* The first count bytes of a body.
Body(count) == [k \in 1..count |-> k]

\* The buffer with the next count bytes of the body read into it after the first from.
ReadInto(from, count) ==
  [k \in 1..ChunkSize |-> IF k \in (from + 1)..(from + count) THEN pos + k - from ELSE mem[k]]

-----------------------------------------------------------------------------
\* A possible bug: the buffer is as long as the caller expects.
StartSizeUncapped(r) == IF r.expect > 0 THEN r.expect ELSE SmallObject

\* Write: the buffer starts at what the caller expects, a chunk at the most.
StartSize(r) ==
  LET size == IF r.expect > 0 THEN r.expect ELSE SmallObject
  IN  IF size < ChunkSize THEN size ELSE ChunkSize

Init == /\ req \in Requests
        /\ pos = 0
        /\ ending = "open"
        /\ buf = StartSize(req)
        /\ mem = [k \in 1..ChunkSize |-> 0]
        /\ n = 0
        /\ step = "fill"
        /\ chunks = <<>>
        /\ content = <<>>
        /\ outcome = "none"

\* readChunk, first read: fill the buffer.  A full buffer short of a chunk may
\* already hold the whole object.
Fill ==
  /\ step = "fill"
  /\ \E r \in ReadFull(buf) :
       ReadOrEnd(r, /\ n' = r.n
                    /\ mem' = ReadInto(0, r.n)
                    /\ step' = IF r.n < buf \/ buf = ChunkSize THEN "store" ELSE "probe"
                    /\ UNCHANGED buf)

\* A possible bug: grow on the guess that more is coming.
ProbeBlindly ==
  /\ step = "probe"
  /\ buf' = ChunkSize
  /\ step' = "rest"
  /\ UNCHANGED <<req, pos, ending, mem, n, chunks, content, outcome>>

\* A possible bug: the buffer grows and what it held is left behind.
ProbeUncopied ==
  /\ step = "probe"
  /\ \E r \in ReadFull(1) :
       ReadOrEnd(r, IF r.n = 0 THEN step' = "store" /\ UNCHANGED <<buf, mem, n>>
                               ELSE /\ buf' = ChunkSize
                                    /\ mem' = [k \in 1..ChunkSize |-> IF k = n + 1 THEN pos + 1 ELSE 0]
                                    /\ n' = n + 1
                                    /\ step' = "rest")

\* readChunk: one more byte decides whether the buffer grows to a full chunk.
Probe ==
  /\ step = "probe"
  /\ \E r \in ReadFull(1) :
       ReadOrEnd(r, IF r.n = 0 THEN step' = "store" /\ UNCHANGED <<buf, mem, n>>
                               ELSE /\ buf' = ChunkSize
                                    /\ mem' = ReadInto(n, 1)
                                    /\ n' = n + 1
                                    /\ step' = "rest")

\* A possible bug: the buffer grows and the chunk is what it held before.
RestSkipped ==
  /\ step = "rest"
  /\ step' = "store"
  /\ UNCHANGED <<req, pos, ending, buf, mem, n, chunks, content, outcome>>

\* readChunk, last read: the rest of the grown buffer.
Rest ==
  /\ step = "rest"
  /\ \E r \in ReadFull(ChunkSize - n) :
       ReadOrEnd(r, /\ n' = n + r.n
                    /\ mem' = ReadInto(n, r.n)
                    /\ step' = "store"
                    /\ UNCHANGED buf)

\* Write: the chunk goes to its owners, or the write fails.  Nothing read means
\* nothing left, and no trailing empty chunk.  The hashes read the chunk beside the
\* store, and both are waited for before the buffer is used again.
Store ==
  /\ step = "store"
  /\ \/ /\ n = 0
        /\ step' = "commit"
        /\ UNCHANGED <<n, chunks, content, outcome>>
     \/ /\ n > 0
        /\ chunks' = Append(chunks, n)
        /\ content' = content \o [k \in 1..n |-> mem[k]]
        /\ n' = 0
        /\ step' = "fill"
        /\ UNCHANGED outcome
     \/ /\ n > 0
        /\ step' = "done"
        /\ outcome' = "failed"
        /\ UNCHANGED <<n, chunks, content>>
  /\ UNCHANGED <<req, pos, ending, buf, mem>>

\* Put: the client declares the digest of what it means to send, and it must be that
\* of what was stored; a trailing one that was announced must have come.
DigestOK == /\ req.digest # "none" => content = Body(req.len)
            /\ req.digest = "trailer" => req.how = "whole"

\* Put: commit the manifest, unless a digest does not match or the commit fails, as
\* it does when net/http has seen the connection close and cancelled the request.
Commit ==
  /\ step = "commit"
  /\ step' = "done"
  /\ \/ DigestOK /\ outcome' = "committed"
     \/ outcome' = "failed"
  /\ UNCHANGED <<req, pos, ending, buf, mem, n, chunks, content>>

Done == step = "done" /\ UNCHANGED vars

Next == Fill \/ Probe \/ Rest \/ Store \/ Commit \/ Done

Spec == Init /\ [][Next]_vars

-----------------------------------------------------------------------------
\* A request and a write in progress.
TypeOK == /\ req \in Requests
          /\ pos \in 0..req.sent
          /\ ending \in {"open", "eof", "unexpected", "error"}
          /\ buf \in 1..ChunkSize
          /\ mem \in [1..ChunkSize -> 0..req.sent]
          /\ n \in 0..buf
          /\ step \in {"fill", "probe", "rest", "store", "commit", "done"}
          /\ chunks \in Seq(1..ChunkSize)
          /\ content \in Seq(0..req.sent)
          /\ outcome \in {"none", "committed", "failed"}

\* Only the last chunk of a body may be short of the chunk size, however the
\* buffer grew while it was read: write takes a short chunk for the last one and
\* takes out no record for it.
ShortIsLast ==
  /\ \A i \in DOMAIN chunks : chunks[i] < ChunkSize => i = Len(chunks)
  /\ step = "store" /\ n > 0 => \A i \in DOMAIN chunks : chunks[i] = ChunkSize

\* The buffer grows only when the body has proved to be longer than it, so an
\* object of at most the expected size never allocates a full chunk.
GrowsForMore == buf > StartSize(req) => pos > StartSize(req)

\* What is committed is all that arrived, byte for byte and in order: none lost or
\* doubled, none left unread, and none left over from an earlier chunk, where the buffer
\* was probed, grew, filled up or was used again.  Without a declared digest nothing else
\* would notice.
StoresWhatArrived == outcome = "committed" => content = Body(req.sent)

\* What is committed is the whole body that the client meant to send.
NoPartialObject == outcome = "committed" => pos = req.len
=============================================================================
