-------------------------- MODULE ChunkStoreProofs --------------------------
(***************************************************************************)
(* Proofs about ChunkStore for every number of writers and of crashes, and *)
(* about Heal for every number of nodes, code and number of faults: how a  *)
(* chunk's file gets onto a node's disk, and how it is kept there.         *)
(***************************************************************************)
EXTENDS ChunkStore, Heal, TLAPS

\* The path shows one of the files it may show after a crash, those are whole and
\* synced, and a writer past a step has done it.
StoreInv ==
  /\ entry \in lasting
  /\ lasting \subseteq Writer \cup {NoFile}
  /\ pc \in [Writer -> PcValues]
  /\ whole \in [Writer -> BOOLEAN]
  /\ \A w \in Writer : pc[w] \in {"verified", "synced", "renamed"} => whole[w]
  /\ \A w \in Writer : pc[w] \in {"synced", "renamed"} => w \in flushed
  /\ NoPartialChunk

\* An acknowledged chunk's name lasts, and so does its directory's.
AckInv == acked => NoFile \notin lasting /\ dir = "lasting"

\* Every step of a writer, of the sweep and of a crash keeps StoreInv.
LEMMA StoreStep == ASSUME StoreInv, [Next]_vars PROVE StoreInv'
<1>1. ASSUME NEW w \in Writer, Stage(w) PROVE StoreInv'
  BY <1>1 DEF Stage, Step, StoreInv, NoPartialChunk, PcValues
<1>2. ASSUME NEW w \in Writer, Verify(w) PROVE StoreInv'
  BY <1>2 DEF Verify, Step, StoreInv, NoPartialChunk, PcValues
<1>3. ASSUME NEW w \in Writer, Sync(w) PROVE StoreInv'
  BY <1>3 DEF Sync, Step, StoreInv, NoPartialChunk, PcValues
<1>4. ASSUME NEW w \in Writer, Fail(w) PROVE StoreInv'
  BY <1>4 DEF Fail, Step, StoreInv, NoPartialChunk, PcValues
<1>5. ASSUME NEW w \in Writer, Rename(w) PROVE StoreInv'
  BY <1>5, StoreAssumption DEF Rename, Step, StoreInv, NoPartialChunk, PcValues
<1>6. ASSUME NEW w \in Writer, SyncDir(w) PROVE StoreInv'
  BY <1>6 DEF SyncDir, Step, StoreInv, NoPartialChunk, PcValues
<1>7. ASSUME NEW w \in Writer, SyncDirFails(w) PROVE StoreInv'
  BY <1>7 DEF SyncDirFails, Step, StoreInv, NoPartialChunk, PcValues
<1>8. ASSUME NEW w \in Writer, Again(w) PROVE StoreInv'
  <2>1. PICK b \in BOOLEAN : whole' = [whole EXCEPT ![w] = b]
    BY <1>8 DEF Again
  <2>2. NoPartialChunk'
    BY <1>8, <2>1 DEF Again, StoreInv, NoPartialChunk, PcValues
  <2>3. QED
    BY <1>8, <2>1, <2>2 DEF Again, StoreInv, PcValues
<1>9. ASSUME Examine PROVE StoreInv'
  BY <1>9 DEF Examine, StoreInv, NoPartialChunk, PcValues
<1>10. ASSUME RemoveChunk PROVE StoreInv'
  BY <1>10 DEF RemoveChunk, StoreInv, NoPartialChunk, PcValues
<1>11. ASSUME Crash PROVE StoreInv'
  <2>1. entry' \in lasting \cup {NoFile} /\ lasting' = {entry'}
    BY <1>11 DEF Crash
  <2>2. pc' \in [Writer -> PcValues] /\ \A w \in Writer : pc'[w] = "failed"
    BY <1>11 DEF Crash, PcValues
  <2>3. NoPartialChunk'
    BY <1>11, <2>1 DEF Crash, StoreInv, NoPartialChunk, PcValues
  <2>4. QED
    BY <1>11, <2>1, <2>2, <2>3 DEF Crash, StoreInv
<1>12. CASE UNCHANGED vars
  BY <1>12 DEF vars, StoreInv, NoPartialChunk, PcValues
<1>13. QED
  BY <1>1, <1>2, <1>3, <1>4, <1>5, <1>6, <1>7, <1>8, <1>9, <1>10, <1>11, <1>12 DEF Next

\* So they keep AckInv, where a synced directory's own name lasts: only SyncDir
\* acknowledges, only Rename, RemoveChunk and Crash change what may be shown.
LEMMA AckStep == ASSUME SyncsOwnName, StoreInv, AckInv, [Next]_vars PROVE AckInv'
<1>1. ASSUME NEW w \in Writer, Rename(w) PROVE AckInv'
  BY <1>1, StoreAssumption DEF Rename, AckInv
<1>2. ASSUME NEW w \in Writer, SyncDir(w) PROVE AckInv'
  BY <1>2, Zenon DEF SyncDir, AckInv
<1>3. ASSUME RemoveChunk PROVE AckInv'
  BY <1>3 DEF RemoveChunk, AckInv
<1>4. ASSUME Crash PROVE AckInv'
  BY <1>4 DEF Crash, AckInv
<1>5. ASSUME UNCHANGED <<acked, lasting, dir>> PROVE AckInv'
  BY <1>5 DEF AckInv
<1>6. ASSUME NEW w \in Writer, Fail(w) PROVE AckInv'
  BY <1>6 DEF Fail, AckInv
<1>7. QED
  BY <1>1, <1>2, <1>3, <1>4, <1>5, <1>6
     DEF Next, vars, Stage, Verify, Sync, SyncDirFails, Again, Examine

\* An empty store has both.
LEMMA StoreInit == ASSUME Init PROVE StoreInv /\ AckInv
BY DEF Init, StoreInv, AckInv, NoPartialChunk, PcValues

\* No reader meets part of a chunk: durableWrite shows a file only once it is
\* verified and synced, and whatever a crash leaves is such a file.
THEOREM NeverPartial == Spec => []NoPartialChunk
<1>1. StoreInv /\ [Next]_vars => StoreInv'
  BY StoreStep
<1>2. StoreInv => NoPartialChunk
  BY DEF StoreInv
<1>3. QED
  BY StoreInit, <1>1, <1>2, PTL DEF Spec

\* On a file system where syncing a new directory makes its own name last, a chunk
\* whose write was acknowledged survives every crash until it is removed.
THEOREM AckedDurable == ASSUME SyncsOwnName PROVE Spec => []AckedSurvives
<1>1. StoreInv /\ AckInv /\ [Next]_vars => StoreInv' /\ AckInv'
  BY StoreStep, AckStep
<1>2. StoreInv /\ AckInv => AckedSurvives
  BY DEF StoreInv, AckInv, AckedSurvives
<1>3. QED
  BY StoreInit, <1>1, <1>2, PTL DEF Spec

-----------------------------------------------------------------------------
\* A directory that is not there holds nothing a crash could bring back.
PathInv == /\ flushed \subseteq Writer
           /\ dir \in {"absent", "made", "lasting"}
           /\ dir = "absent" => lasting = {NoFile}
           /\ acked \in BOOLEAN
           /\ examined \in Writer \cup {NoFile}
           /\ crashes \in 0..MaxCrashes

\* Every step keeps PathInv: only a rename shows a file, and it makes the directory.
LEMMA PathStep == ASSUME StoreInv, PathInv, [Next]_vars PROVE PathInv'
<1>1. ASSUME NEW w \in Writer, Rename(w) PROVE PathInv'
  BY <1>1 DEF Rename, PathInv
<1>2. ASSUME NEW w \in Writer, SyncDir(w) PROVE PathInv'
  <2>1. acked' \in BOOLEAN
    BY <1>2 DEF SyncDir
  <2>2. dir' = "absent" => lasting' = {NoFile}
    BY <1>2 DEF SyncDir, StoreInv, PathInv
  <2>3. QED
    BY <1>2, <2>1, <2>2 DEF SyncDir, PathInv
<1>3. ASSUME NEW w \in Writer, Sync(w) \/ Again(w) PROVE PathInv'
  BY <1>3 DEF Sync, Again, PathInv
<1>4. ASSUME Examine \/ RemoveChunk PROVE PathInv'
  BY <1>4, Zenon DEF Examine, RemoveChunk, StoreInv, PathInv
<1>5. ASSUME Crash PROVE PathInv'
  <2>1. crashes' \in 0..MaxCrashes
    BY <1>5, StoreAssumption DEF Crash, PathInv
  <2>2. dir' \in {"absent", "made", "lasting"} /\ (dir' = "absent" => entry' = NoFile)
    BY <1>5 DEF Crash, PathInv
  <2>3. QED
    BY <1>5, <2>1, <2>2 DEF Crash, PathInv
<1>6. ASSUME UNCHANGED <<flushed, lasting, dir, acked, examined, crashes>> PROVE PathInv'
  BY <1>6 DEF PathInv
<1>7. ASSUME NEW w \in Writer, Fail(w) PROVE PathInv'
  BY <1>7 DEF Fail, PathInv
<1>8. QED
  BY <1>1, <1>2, <1>3, <1>4, <1>5, <1>6, <1>7 DEF Next, vars, Stage, Verify, SyncDirFails

\* Writers, path and directory keep their types; the path shows a file only in a
\* directory that exists, and what it shows may be there after a crash, for every
\* number of writers and crashes.
THEOREM StoreTypes == Spec => []TypeOK
<1>1. Init => PathInv
  <2>1. 0 \in 0..MaxCrashes
    BY StoreAssumption
  <2>2. QED
    BY <2>1, Zenon DEF Init, PathInv
<1>2. StoreInv /\ [Next]_vars => StoreInv'
  BY StoreStep
<1>3. StoreInv /\ PathInv /\ [Next]_vars => PathInv'
  BY PathStep
<1>4. StoreInv /\ PathInv => TypeOK
  BY DEF StoreInv, PathInv, TypeOK
<1>5. QED
  BY StoreInit, <1>1, <1>2, <1>3, <1>4, PTL DEF Spec
-----------------------------------------------------------------------------
\* Every step keeps the types.
LEMMA HealTypes == ASSUME HealTypeOK, [HealNext]_healVars PROVE HealTypeOK'
<1>1. ASSUME NEW n \in Node, Rot(n) \/ LoseDisk(n) PROVE HealTypeOK'
  BY <1>1, HealAssumption DEF Rot, LoseDisk, Fault, HealTypeOK
<1>2. ASSUME NEW r \in Repairer, Die(r) \/ LoseLease(r) PROVE HealTypeOK'
  BY <1>2, HealAssumption DEF Die, LoseLease, Fault, HealTypeOK
<1>3. ASSUME NEW r \in Repairer, LeaseRunsOut(r) \/ Register(r) PROVE HealTypeOK'
  BY <1>3 DEF LeaseRunsOut, Register, HealTypeOK
<1>4. ASSUME NEW r \in Repairer, Survey(r) PROVE HealTypeOK'
  BY <1>4 DEF Survey, HealTypeOK
<1>5. ASSUME NEW n \in Node, Scrub(n) PROVE HealTypeOK'
  BY <1>5 DEF Scrub, HealTypeOK
<1>6. ASSUME NEW r \in Repairer, NEW n \in Node, Restore(r, n) PROVE HealTypeOK'
  BY <1>6 DEF Restore, HealTypeOK
<1>7. CASE UNCHANGED healVars
  BY <1>7 DEF healVars, HealTypeOK
<1>8. QED
  BY <1>1, <1>2, <1>3, <1>4, <1>5, <1>6, <1>7 DEF HealNext

\* Copies, members and what each survey found keep their types, for every number of
\* nodes and of faults.
THEOREM HealKeepsTypes == HealSpec => []HealTypeOK
<1>1. HealInit => HealTypeOK
  <2>1. Node \subseteq Repairer /\ 0 \in 0..MaxFaults
    BY HealAssumption DEF Node, Repairer
  <2>2. ASSUME NEW c \in [Node -> {"good", "none"}] PROVE c \in [Node -> {"good", "rotted", "none"}]
    OBVIOUS
  <2>3. QED
    BY <2>1, <2>2, Zenon DEF HealInit, HealTypeOK
<1>2. HealTypeOK /\ [HealNext]_healVars => HealTypeOK'
  BY HealTypes
<1>3. QED
  BY <1>1, <1>2, PTL DEF HealSpec
=============================================================================
