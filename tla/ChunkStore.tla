----------------------------- MODULE ChunkStore -----------------------------
(***************************************************************************)
(* One node's chunk files: durableWrite staged through tmp/ by several     *)
(* writers of the same chunk at once, the sweep's removal of it, and       *)
(* crashes between any two steps, after which the disk holds what was      *)
(* synced and any part of what was not.                                    *)
(*                                                                         *)
(* The file system is the one POSIX describes: a file's bytes last once    *)
(* the file is synced, a name in a directory once that directory is.       *)
(***************************************************************************)
EXTENDS Naturals, FiniteSets

CONSTANTS Writer,
          SyncsOwnName,  \* syncing a new directory makes its own name last too
          MaxCrashes, NoFile

ASSUME StoreAssumption == /\ SyncsOwnName \in BOOLEAN
                          /\ MaxCrashes \in Nat
                          /\ NoFile \notin Writer

VARIABLES pc,       \* where each writer is in durableWrite
          whole,    \* did each writer's source send it the declared bytes
          flushed,  \* the writers whose file is synced
          entry,    \* whose file the chunk's path shows
          lasting,  \* whose file it may show after a crash: one of these
          dir,      \* the chunk's directory: absent, made or lasting
          acked,    \* history: a write was acknowledged, and the chunk not removed since
          examined, \* the file the sweep has found old enough to remove
          crashes

vars == <<pc, whole, flushed, entry, lasting, dir, acked, examined, crashes>>

PcValues == {"idle", "staged", "verified", "synced", "renamed", "done", "failed"}

Init == /\ pc = [w \in Writer |-> "idle"]
        /\ whole \in [Writer -> BOOLEAN]
        /\ flushed = {}
        /\ entry = NoFile
        /\ lasting = {NoFile}
        /\ dir = "absent"
        /\ acked = FALSE
        /\ examined = NoFile
        /\ crashes = 0

Step(w, from, to) == /\ pc[w] = from
                     /\ pc' = [pc EXCEPT ![w] = to]

\* CreateTemp and the copy of the source into it.
Stage(w) == /\ Step(w, "idle", "staged")
            /\ UNCHANGED <<whole, flushed, entry, lasting, dir, acked, examined, crashes>>

\* A possible bug: what was staged is not verified.
VerifyNothing(w) ==
  /\ Step(w, "staged", "verified")
  /\ UNCHANGED <<whole, flushed, entry, lasting, dir, acked, examined, crashes>>

Verify(w) == /\ whole[w]
             /\ Step(w, "staged", "verified")
             /\ UNCHANGED <<whole, flushed, entry, lasting, dir, acked, examined, crashes>>

Sync(w) == /\ Step(w, "verified", "synced")
           /\ flushed' = flushed \cup {w}
           /\ UNCHANGED <<whole, entry, lasting, dir, acked, examined, crashes>>

\* Any error up to the rename: the temporary file is removed.  The last of them comes
\* with the directory made.
Fail(w) == /\ pc[w] \in {"staged", "verified", "synced"}
           /\ Step(w, pc[w], "failed")
           /\ \/ UNCHANGED dir
              \/ pc[w] = "synced" /\ dir = "absent" /\ dir' = "made"
           /\ UNCHANGED <<whole, flushed, entry, lasting, acked, examined, crashes>>

\* A possible bug: the directory is taken to be there.
RenameOnly(w) == /\ Step(w, "synced", "renamed")
                 /\ entry' = w
                 /\ lasting' = lasting \cup {w}
                 /\ UNCHANGED <<whole, flushed, dir, acked, examined, crashes>>

\* MkdirAll, then Rename over whatever is there.
Rename(w) == /\ Step(w, "synced", "renamed")
             /\ entry' = w
             /\ lasting' = lasting \cup {w}
             /\ dir' = IF dir = "absent" THEN "made" ELSE dir
             /\ UNCHANGED <<whole, flushed, acked, examined, crashes>>

\* A possible bug: the directory is not synced.
SyncDirSkipped(w) == /\ Step(w, "renamed", "done")
                     /\ acked' = TRUE
                     /\ UNCHANGED <<whole, flushed, entry, lasting, dir, examined, crashes>>

\* syncDir: what the directory shows now lasts, and the write is acknowledged.  By
\* then it may show another writer's file, or none.
SyncDir(w) == /\ Step(w, "renamed", "done")
              /\ lasting' = {entry}
              /\ dir' = IF SyncsOwnName THEN "lasting" ELSE dir
              /\ acked' = (entry # NoFile)
              /\ UNCHANGED <<whole, flushed, entry, examined, crashes>>

\* syncDir fails: the write is an error, and its file stays where it was renamed to.
SyncDirFails(w) == /\ Step(w, "renamed", "failed")
                   /\ UNCHANGED <<whole, flushed, entry, lasting, dir, acked, examined, crashes>>

\* A retry of a write that ended, or another one: repair, a move, a client's.
Again(w) == /\ pc[w] \in {"done", "failed"}
            /\ pc' = [pc EXCEPT ![w] = "idle"]
            /\ w \notin lasting \cup {examined}
            /\ flushed' = flushed \ {w}
            /\ whole' \in {[whole EXCEPT ![w] = b] : b \in BOOLEAN}
            /\ UNCHANGED <<entry, lasting, dir, acked, examined, crashes>>

\* ScanChunks and Collect: the file is old, and nothing names the chunk.
Examine == /\ examined = NoFile
           /\ entry # NoFile
           /\ pc[entry] \in {"done", "failed"}
           /\ examined' = entry
           /\ UNCHANGED <<pc, whole, flushed, entry, lasting, dir, acked, crashes>>

\* RemoveChunk: nothing syncs the directory, so the file may be back after a crash.
\* It removes by name: what is there now.
RemoveChunk == /\ examined # NoFile
               /\ examined' = NoFile
               /\ entry' = NoFile
               /\ lasting' = lasting \cup {NoFile}
               /\ acked' = FALSE
               /\ UNCHANGED <<pc, whole, flushed, dir, crashes>>

\* The node loses power and starts again: Open discards tmp/.
Crash == /\ crashes < MaxCrashes
         /\ crashes' = crashes + 1
         /\ pc' = [w \in Writer |-> "failed"]
         /\ \/ /\ entry' \in lasting
               /\ dir' = IF dir = "absent" THEN dir ELSE "lasting"
            \/ /\ dir # "lasting"
               /\ entry' = NoFile
               /\ dir' = "absent"
         /\ lasting' = {entry'}
         /\ examined' = NoFile
         /\ UNCHANGED <<whole, flushed, acked>>

Next == \/ \E w \in Writer : \/ Stage(w) \/ Verify(w) \/ Sync(w) \/ Fail(w) \/ Rename(w)
                             \/ SyncDir(w) \/ SyncDirFails(w) \/ Again(w)
        \/ Examine
        \/ RemoveChunk
        \/ Crash

Spec == Init /\ [][Next]_vars

-----------------------------------------------------------------------------
\* The writers, the path and its directory have their types; a path is shown only in
\* a directory that exists, and what it shows may be there after a crash.
TypeOK == /\ pc \in [Writer -> PcValues]
          /\ whole \in [Writer -> BOOLEAN]
          /\ flushed \subseteq Writer
          /\ entry \in Writer \cup {NoFile}
          /\ lasting \subseteq Writer \cup {NoFile}
          /\ entry \in lasting
          /\ dir \in {"absent", "made", "lasting"}
          /\ dir = "absent" => entry = NoFile
          /\ acked \in BOOLEAN
          /\ examined \in Writer \cup {NoFile}
          /\ crashes \in 0..MaxCrashes

\* Whatever the path shows, now or after a crash, is a whole and synced file: no
\* reader ever meets part of a chunk.
NoPartialChunk == \A f \in lasting \ {NoFile} : whole[f] /\ f \in flushed

\* A chunk whose write was acknowledged is there, through crashes too, until it is
\* removed, whatever other writers of it do and however they fail.
AckedSurvives == acked => entry # NoFile
=============================================================================
