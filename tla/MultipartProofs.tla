-------------------------- MODULE MultipartProofs ---------------------------
(***************************************************************************)
(* Proofs about Multipart for every number of uploads, parts, blobs and    *)
(* completions, and every size of a page.                                  *)
(***************************************************************************)
EXTENDS Multipart, TLAPS

USE PlaceAssumption, UploadAssumption

\* The types the sweep depends on.
SweepTypes == /\ SweepTypeOK
              /\ parts \in [Upload -> [PartNumber -> Blob \cup {NoBlob}]]
              /\ object \in SUBSET Blob
              /\ chosen \in [Completer -> SUBSET Blob]
              /\ fresh \in SUBSET Blob

\* What is named anywhere is a blob.
LEMMA NamedBlobs ==
  ASSUME SweepTypes
  PROVE  /\ \A u \in Upload : PartBlobs(u) \in SUBSET Blob
         /\ \A i \in Place : Named(i) \in SUBSET Blob
<1>1. \A u \in Upload : PartBlobs(u) \in SUBSET Blob
  BY DEF SweepTypes, PartBlobs
<1>2. QED
  BY <1>1 DEF SweepTypes, Named

\* A page is some places from the next on.
LEMMA ScanGives ==
  ASSUME SweepTypes, NEW named, ScanPage(named)
  PROVE  \E last \in Place :
           /\ at \in Nat /\ at <= last
           /\ referenced' = referenced \cup UNION {named[i] : i \in at..last}
           /\ at' = last + 1
           /\ UNCHANGED <<disk, old, phase, eligible>>
<1> DEFINE last == IF at + PageSize > NumPlaces THEN NumPlaces ELSE at + PageSize - 1
<1>1. at \in 1..NumPlaces
  BY DEF SweepTypes, SweepTypeOK, ScanPage
<1>2. last \in Place /\ at <= last
  BY <1>1 DEF Place
<1>3. QED
  BY <1>1, <1>2 DEF ScanPage

\* Every step of a pass keeps the types.
LEMMA PassTypes ==
  ASSUME SweepTypes, PassStep([i \in Place |-> Named(i)])
  PROVE  SweepTypeOK'
<1> DEFINE named == [i \in Place |-> Named(i)]
<1>1. ASSUME NEW b \in Blob, Age(b) \/ RemoveBlob(b) PROVE SweepTypeOK'
  BY <1>1 DEF Age, RemoveBlob, passVars, SweepTypes, SweepTypeOK
<1>2. CASE BeginPass \/ EndPass
  BY <1>2 DEF BeginPass, EndPass, SweepTypes, SweepTypeOK
<1>3. CASE ScanPage(named)
  <2> HIDE DEF named
  <2>1. PICK last \in Place : /\ at \in Nat /\ at <= last
                              /\ referenced' = referenced \cup UNION {named[i] : i \in at..last}
                              /\ at' = last + 1
                              /\ UNCHANGED <<disk, old, phase, eligible>>
    BY <1>3, ScanGives
  <2>2. \A i \in at..last : i \in Place
    BY <2>1 DEF SweepTypes, SweepTypeOK, Place
  <2>3. \A i \in at..last : named[i] \in SUBSET Blob
    BY <2>2, NamedBlobs DEF named
  <2>4. referenced' \in SUBSET Blob
    BY <2>1, <2>3 DEF SweepTypes, SweepTypeOK
  <2>5. at' \in 1..(NumPlaces + 1)
    BY <2>1 DEF Place
  <2>6. QED
    BY <2>1, <2>4, <2>5 DEF SweepTypes, SweepTypeOK
<1>4. QED
  BY <1>1, <1>2, <1>3 DEF PassStep

-----------------------------------------------------------------------------
(***************************************************************************)
(* The hand-over.  A pass reads the parts before the object, and blobs only*)
(* go from parts to the object: what is named now, and the pass has not    *)
(* found yet, is in a place it has still to read.                          *)
(***************************************************************************)

\* What the object names, if it was named when the object was committed.
Kept == IF sound THEN object ELSE {}

Held == /\ \A u \in Upload : PartBlobs(u) \subseteq disk
        /\ Kept \subseteq disk

StillToRead == \A b \in eligible \ referenced :
                 /\ \A u \in Upload : b \in PartBlobs(u) => u >= at
                 /\ b \in Kept => at <= NumPlaces

FreshIsNew == fresh \cap (disk \cup eligible) = {}

IdleInv == phase = "idle" => at = 1 /\ eligible = {}

KeepInv == Held /\ StillToRead /\ FreshIsNew /\ IdleInv

\* A step that names nothing new, or hands over what a part names.
LEMMA NamedBefore ==
  ASSUME SweepTypes, KeepInv, UNCHANGED <<sweepVars, fresh>>,
         \A u \in Upload : PartBlobs(u)' \subseteq PartBlobs(u),
         \A b \in Kept' : b \in Kept \/ \E u \in Upload : b \in PartBlobs(u)
  PROVE  KeepInv'
<1>1. UNCHANGED <<disk, eligible, referenced, at, phase, fresh>>
  BY DEF sweepVars, passVars
<1>2. Held'
  BY <1>1 DEF KeepInv, Held
<1>3. ASSUME NEW b \in eligible \ referenced, NEW u \in Upload, b \in PartBlobs(u)
      PROVE at <= NumPlaces
  <2>1. u >= at
    BY <1>3 DEF KeepInv, StillToRead
  <2>2. QED
    BY <2>1 DEF SweepTypes, SweepTypeOK, Upload
<1>4. StillToRead'
  BY <1>1, <1>3 DEF KeepInv, StillToRead
<1>5. QED
  BY <1>1, <1>2, <1>4 DEF KeepInv, FreshIsNew, IdleInv

\* A step that stores a new blob and names it.
LEMMA NamedNow ==
  ASSUME SweepTypes, KeepInv, NEW b \in fresh, StoreBlob(b), fresh' = fresh \ {b},
         \A u \in Upload : PartBlobs(u)' \subseteq PartBlobs(u) \cup {b},
         Kept' \subseteq Kept \cup {b}
  PROVE  KeepInv'
<1>1. disk' = disk \cup {b} /\ UNCHANGED <<eligible, referenced, at, phase>>
  BY DEF StoreBlob, passVars
<1>2. b \notin eligible
  BY DEF KeepInv, FreshIsNew
<1>3. Held'
  BY <1>1 DEF KeepInv, Held
<1>4. StillToRead'
  BY <1>1, <1>2 DEF KeepInv, StillToRead
<1>5. FreshIsNew' /\ IdleInv'
  BY <1>1 DEF KeepInv, FreshIsNew, IdleInv
<1>6. QED
  BY <1>3, <1>4, <1>5 DEF KeepInv

\* The pass itself removes nothing that is named.
LEMMA PassKeeps ==
  ASSUME SweepTypes, KeepInv, PassStep([i \in Place |-> Named(i)]),
         \A u \in Upload : PartBlobs(u)' = PartBlobs(u), Kept' = Kept, fresh' = fresh
  PROVE  KeepInv'
<1> DEFINE named == [i \in Place |-> Named(i)]
<1>1. ASSUME NEW b \in Blob, Age(b) PROVE KeepInv'
  BY <1>1 DEF Age, passVars, KeepInv, Held, StillToRead, FreshIsNew, IdleInv
<1>2. ASSUME NEW b \in Blob, RemoveBlob(b) PROVE KeepInv'
  <2>1. b \in eligible \ referenced /\ at > NumPlaces /\ disk' = disk \ {b}
        /\ UNCHANGED <<eligible, referenced, at, phase>>
    BY <1>2 DEF RemoveBlob, passVars
  <2>2. ~(at <= NumPlaces) /\ \A u \in Upload : ~(u >= at)
    BY <2>1 DEF SweepTypes, SweepTypeOK, Upload
  <2>3. b \notin Kept /\ \A u \in Upload : b \notin PartBlobs(u)
    BY <2>1, <2>2 DEF KeepInv, StillToRead
  <2>4. Held'
    BY <2>1, <2>3 DEF KeepInv, Held
  <2>5. QED
    BY <2>1, <2>4 DEF KeepInv, StillToRead, FreshIsNew, IdleInv
<1>3. CASE BeginPass
  <2>1. at = 1 /\ eligible' = old /\ UNCHANGED <<disk, old, referenced, at>> /\ phase' = "marking"
    BY <1>3 DEF BeginPass, KeepInv, IdleInv
  <2>2. StillToRead'
    BY <2>1 DEF StillToRead, Upload
  <2>3. FreshIsNew'
    BY <2>1 DEF KeepInv, FreshIsNew, SweepTypes, SweepTypeOK
  <2>4. QED
    BY <2>1, <2>2, <2>3 DEF KeepInv, Held, IdleInv
<1>4. CASE EndPass
  BY <1>4 DEF EndPass, KeepInv, Held, StillToRead, FreshIsNew, IdleInv
<1>5. CASE ScanPage(named)
  <2> HIDE DEF named
  <2>1. PICK last \in Place : /\ at \in Nat /\ at <= last
                              /\ referenced' = referenced \cup UNION {named[i] : i \in at..last}
                              /\ at' = last + 1
                              /\ UNCHANGED <<disk, old, phase, eligible>>
    BY <1>5, ScanGives
  <2>2. \A u \in Upload : u \in at..last => PartBlobs(u) \subseteq referenced'
    <3>1. \A u \in Upload : u \in Place /\ named[u] = PartBlobs(u)
      BY DEF named, Named, Upload, Place
    <3>2. QED
      BY <2>1, <3>1
  <2>3. last = NumPlaces => Kept \subseteq referenced'
    <3>1. NumPlaces \in Place /\ named[NumPlaces] = object
      BY DEF named, Named, Upload, Place
    <3>2. QED
      BY <2>1, <3>1 DEF Kept, Place
  <2>4. ASSUME NEW b \in eligible \ referenced', NEW u \in Upload, b \in PartBlobs(u)
        PROVE u >= last + 1
    <3>1. u >= at
      BY <2>1, <2>4 DEF KeepInv, StillToRead
    <3>2. u \notin at..last
      BY <2>2, <2>4
    <3>3. QED
      BY <2>1, <3>1, <3>2 DEF Upload, Place
  <2>5. ASSUME NEW b \in eligible \ referenced', b \in Kept PROVE last + 1 <= NumPlaces
    <3>1. last # NumPlaces
      BY <2>3, <2>5
    <3>2. QED
      BY <3>1 DEF Place
  <2>6. StillToRead'
    BY <2>1, <2>4, <2>5 DEF StillToRead
  <2>7. phase = "marking"
    BY <1>5 DEF ScanPage
  <2>8. QED
    BY <2>1, <2>6, <2>7 DEF KeepInv, Held, FreshIsNew, IdleInv
<1>6. QED
  BY <1>1, <1>2, <1>3, <1>4, <1>5 DEF PassStep

-----------------------------------------------------------------------------
(***************************************************************************)
(* Uploads and completions.                                                *)
(***************************************************************************)

PcValues == {"idle", "found", "missed", "read", "committed", "finished", "done",
             "no such upload", "failed"}

\* Ids are not given out twice; a completion has an upload; one that misses it, or is
\* told there is none, does so for an upload that is gone or blindly; an upload that is gone is
\* remembered, or its memory was lost for a known reason; it has no parts.
UploadInv ==
  /\ pc \in [Completer -> PcValues] /\ of \in [Completer -> 0..NumUploads]
  /\ uploads \subseteq Upload \ unused /\ unused \subseteq Upload
  /\ \A c \in Completer : pc[c] # "idle" => of[c] \in Upload \ unused
  /\ \A u \in Upload \ (uploads \cup unused) : u \in remembered \cup forgotten
  /\ \A c \in Completer : pc[c] = "missed" => of[c] \notin uploads
  /\ \A c \in Completer : pc[c] = "finished" => of[c] \in remembered \cup forgotten
  /\ \A c \in Completer : pc[c] = "no such upload" => of[c] \in forgotten \/ c \in blind
  /\ NoOrphanParts

\* What a step of one completion leaves alone.
LEMMA CompleteKeeps ==
  ASSUME NEW c \in Completer, Complete(c)
  PROVE  UNCHANGED <<sweepVars, fresh, sending, unused>>
BY Zenon DEF Complete, BeginComplete, Completion, ReadParts, CommitObject, FinishUpload, ForgetUpload,
       StopComplete, DeleteUpload, uploadVars

\* The upload goes with its parts.
LEMMA DeleteKeeps ==
  ASSUME SweepTypes, NEW u, DeleteUpload(u)
  PROVE  /\ parts' \in [Upload -> [PartNumber -> Blob \cup {NoBlob}]]
         /\ \A v \in Upload : PartBlobs(v)' \subseteq PartBlobs(v)
         /\ \A v \in Upload : parts'[v] = IF v = u THEN NoParts ELSE parts[v]
<1>1. NoParts \in [PartNumber -> Blob \cup {NoBlob}]
  BY DEF NoParts
<1>2. parts' = [parts EXCEPT ![u] = NoParts] /\ parts \in [Upload -> [PartNumber -> Blob \cup {NoBlob}]]
  BY DEF DeleteUpload, SweepTypes
<1>3. \A v \in Upload : parts'[v] = IF v = u THEN NoParts ELSE parts[v]
  BY <1>2
<1>4. \A v \in Upload : PartBlobs(v)' \subseteq PartBlobs(v)
  BY <1>3 DEF PartBlobs, NoParts
<1>5. QED
  BY <1>1, <1>2, <1>3, <1>4, Zenon

\* A part that is committed names its blob and no other.
LEMMA PartKeeps ==
  ASSUME SweepTypes, NEW u \in Upload, NEW p \in PartNumber, NEW b \in Blob, CommitPart(u, p, b)
  PROVE  /\ parts' \in [Upload -> [PartNumber -> Blob \cup {NoBlob}]]
         /\ \A v \in Upload : PartBlobs(v)' \subseteq PartBlobs(v) \cup {b}
         /\ \A v \in Upload : v \notin uploads => parts'[v] = parts[v]
<1>1. parts \in [Upload -> [PartNumber -> Blob \cup {NoBlob}]]
  BY DEF SweepTypes
<1>2. parts' = [parts EXCEPT ![u][p] = b] \/ parts' = parts
  BY DEF CommitPart
<1>3. \A v \in Upload : \A q \in PartNumber : parts'[v][q] = parts[v][q] \/ parts'[v][q] = b
  BY <1>1, <1>2
<1>4. \A v \in Upload : PartBlobs(v)' \subseteq PartBlobs(v) \cup {b}
  BY <1>3 DEF PartBlobs
<1>5. \A v \in Upload : v \notin uploads => parts'[v] = parts[v]
  BY <1>1 DEF CommitPart
<1>6. QED
  BY <1>1, <1>2, <1>4, <1>5

\* A completion hands over what the parts of its upload name, or names what the
\* object does.
LEMMA CompleteStep ==
  ASSUME SweepTypes, KeepInv, UploadInv, NEW c \in Completer, Complete(c)
  PROVE  SweepTypes' /\ KeepInv'
<1>1. UNCHANGED <<sweepVars, fresh>> /\ SweepTypeOK' /\ fresh' \in SUBSET Blob
  BY CompleteKeeps DEF sweepVars, passVars, SweepTypes, SweepTypeOK
<1>2. CASE UNCHANGED <<parts, object, sound, chosen>>
  <2>1. Kept' = Kept /\ \A u \in Upload : PartBlobs(u)' = PartBlobs(u)
    BY <1>2 DEF Kept, PartBlobs
  <2>2. QED
    BY <1>1, <1>2, <2>1, NamedBefore DEF SweepTypes
<1>3. ASSUME NEW named \in SUBSET PartNumber, ReadParts(c, named) PROVE SweepTypes' /\ KeepInv'
  <2>1. UNCHANGED <<parts, object, sound>>
    BY <1>3 DEF ReadParts, uploadVars, history
  <2>2. Kept' = Kept /\ \A u \in Upload : PartBlobs(u)' = PartBlobs(u)
    BY <2>1 DEF Kept, PartBlobs
  <2>3. of[c] \in Upload
    BY <1>3, Zenon DEF ReadParts, UploadInv
  <2>4. {parts[of[c]][p] : p \in named} \in SUBSET Blob
    BY <1>3, <2>3 DEF ReadParts, SweepTypes
  <2>5. chosen' \in [Completer -> SUBSET Blob]
    BY <1>3, <2>4 DEF ReadParts, SweepTypes
  <2>6. QED
    BY <1>1, <2>1, <2>2, <2>5, NamedBefore DEF SweepTypes
<1>4. CASE CommitObject(c)
  <2>1. UNCHANGED <<parts, chosen>> /\ object' = chosen[c] /\ sound' = StillNamed(c)
    BY <1>4 DEF CommitObject, uploadVars
  <2>2. of[c] \in Upload
    BY <1>4, Zenon DEF CommitObject, UploadInv
  <2>3. \A b \in Kept' : b \in Kept \/ b \in PartBlobs(of[c])
    BY <2>1 DEF Kept, StillNamed
  <2>4. \A u \in Upload : PartBlobs(u)' = PartBlobs(u)
    BY <2>1 DEF PartBlobs
  <2>5. KeepInv'
    BY <1>1, <2>2, <2>3, <2>4, NamedBefore
  <2>6. object' \in SUBSET Blob
    BY <2>1 DEF SweepTypes
  <2>7. QED
    BY <1>1, <2>1, <2>5, <2>6 DEF SweepTypes
<1>5. CASE DeleteUpload(of[c]) /\ UNCHANGED <<object, sound, chosen>>
  <2>1. Kept' = Kept
    BY <1>5 DEF Kept
  <2>2. QED
    BY <1>1, <1>5, <2>1, DeleteKeeps, NamedBefore DEF SweepTypes
<1>6. QED
  BY <1>2, <1>3, <1>4, <1>5, Zenon DEF Complete, BeginComplete, Completion, FinishUpload, ForgetUpload,
        StopComplete, uploadVars, history

\* Every step keeps what is named.
LEMMA KeepStep ==
  ASSUME SweepTypes, KeepInv, UploadInv, [Next]_vars
  PROVE  SweepTypes' /\ KeepInv'
<1>1. ASSUME NEW u \in Upload, NEW p \in PartNumber, NEW b \in Blob, CommitPart(u, p, b)
      PROVE SweepTypes' /\ KeepInv'
  <2>1. b \in fresh /\ StoreBlob(b) /\ fresh' = fresh \ {b} /\ UNCHANGED <<object, sound, chosen>>
    BY <1>1 DEF CommitPart, doneVars, history
  <2>2. Kept' = Kept
    BY <2>1 DEF Kept
  <2>3. KeepInv'
    BY <1>1, <2>1, <2>2, PartKeeps, NamedNow
  <2>4. SweepTypeOK'
    BY <2>1 DEF StoreBlob, passVars, SweepTypes, SweepTypeOK
  <2>5. QED
    BY <1>1, <2>1, <2>3, <2>4, PartKeeps DEF SweepTypes
<1>2. ASSUME NEW b \in Blob, PutObject(b) PROVE SweepTypes' /\ KeepInv'
  <2>1. /\ b \in fresh /\ StoreBlob(b) /\ fresh' = fresh \ {b} /\ object' = {b}
        /\ UNCHANGED <<parts, chosen>>
    BY <1>2 DEF PutObject, uploadVars, doneVars
  <2>2. Kept' \subseteq {b} /\ \A u \in Upload : PartBlobs(u)' = PartBlobs(u)
    BY <2>1 DEF Kept, PartBlobs
  <2>3. KeepInv'
    BY <2>1, <2>2, NamedNow
  <2>4. SweepTypeOK'
    BY <2>1 DEF StoreBlob, passVars, SweepTypes, SweepTypeOK
  <2>5. QED
    BY <2>1, <2>3, <2>4 DEF SweepTypes
<1>3. CASE DeleteObject
  <2>1. object' = {} /\ UNCHANGED <<sweepVars, parts, chosen, fresh>>
    BY <1>3 DEF DeleteObject, uploadVars, doneVars
  <2>2. Kept' = {} /\ \A u \in Upload : PartBlobs(u)' = PartBlobs(u)
    BY <2>1 DEF Kept, PartBlobs
  <2>3. KeepInv'
    BY <2>1, <2>2, NamedBefore
  <2>4. QED
    BY <2>1, <2>3 DEF sweepVars, passVars, SweepTypes, SweepTypeOK
<1>4. ASSUME NEW u \in Upload, AbortUpload(u) PROVE SweepTypes' /\ KeepInv'
  <2>1. DeleteUpload(u) /\ UNCHANGED <<sweepVars, object, chosen, fresh, sound>>
    BY <1>4 DEF AbortUpload, doneVars
  <2>2. Kept' = Kept
    BY <2>1 DEF Kept
  <2>3. KeepInv'
    BY <2>1, <2>2, DeleteKeeps, NamedBefore
  <2>4. QED
    BY <2>1, <2>3, DeleteKeeps DEF sweepVars, passVars, SweepTypes, SweepTypeOK
<1>5. CASE UNCHANGED <<sweepVars, parts, object, chosen, fresh, sound>>
  <2>1. Kept' = Kept /\ \A u \in Upload : PartBlobs(u)' = PartBlobs(u)
    BY <1>5 DEF Kept, PartBlobs
  <2>2. KeepInv'
    BY <1>5, <2>1, NamedBefore
  <2>3. QED
    BY <1>5, <2>2 DEF sweepVars, passVars, SweepTypes, SweepTypeOK
<1>6. ASSUME NEW u \in Upload,
             CreateUpload(u) \/ LapseCompletion(u) \/ \E p \in PartNumber : UploadPart(u, p)
      PROVE UNCHANGED <<sweepVars, parts, object, chosen, fresh, sound>>
  BY <1>6 DEF CreateUpload, LapseCompletion, UploadPart, uploadVars, doneVars, history
<1>7. CASE /\ PassStep([i \in Place |-> Named(i)])
           /\ UNCHANGED <<uploadVars, object, remembered, doneVars, fresh, history>>
  <2>1. UNCHANGED <<parts, object, chosen, fresh, sound>>
    BY <1>7 DEF uploadVars, doneVars, history
  <2>2. Kept' = Kept /\ \A u \in Upload : PartBlobs(u)' = PartBlobs(u)
    BY <2>1 DEF Kept, PartBlobs
  <2>3. QED
    BY <1>7, <2>1, <2>2, PassTypes, PassKeeps DEF SweepTypes
<1>8. UNCHANGED vars => UNCHANGED <<sweepVars, parts, object, chosen, fresh, sound>>
  BY SMTT(20) DEF vars, uploadVars, doneVars, history
<1>9. QED
  BY <1>1, <1>2, <1>3, <1>4, <1>5, <1>6, <1>7, <1>8, CompleteStep DEF Next

\* The parts of an upload that is gone stay gone.
LEMMA OrphanStep ==
  ASSUME SweepTypes, UploadInv, [Next]_vars
  PROVE  NoOrphanParts'
<1> USE DEF NoOrphanParts
<1>1. ASSUME NEW u \in Upload, AbortUpload(u) \/ \E c \in Completer : ForgetUpload(c) /\ of[c] = u
      PROVE NoOrphanParts'
  <2>1. (DeleteUpload(u) /\ uploads' = uploads \ {u}) \/ UNCHANGED <<uploads, parts>>
    BY <1>1 DEF AbortUpload, ForgetUpload, DeleteUpload, uploadVars
  <2>2. CASE DeleteUpload(u) /\ uploads' = uploads \ {u}
    <3>1. \A v \in Upload : parts'[v] = IF v = u THEN NoParts ELSE parts[v]
      BY <2>2, DeleteKeeps
    <3>2. QED
      BY <2>2, <3>1, Zenon DEF UploadInv
  <2>3. CASE UNCHANGED <<uploads, parts>>
    BY <2>3, Zenon DEF UploadInv
  <2>4. QED
    BY <2>1, <2>2, <2>3, Zenon
<1>2. ASSUME NEW u \in Upload, NEW p \in PartNumber, NEW b \in Blob, CommitPart(u, p, b)
      PROVE NoOrphanParts'
  <2>1. uploads' = uploads
    BY <1>2 DEF CommitPart
  <2>2. QED
    BY <1>2, <2>1, PartKeeps, Zenon DEF UploadInv
<1>3. CASE parts' = parts /\ uploads \subseteq uploads'
  BY <1>3, Zenon DEF UploadInv
<1>4. ASSUME NEW c \in Completer, Complete(c), ~ForgetUpload(c) PROVE UNCHANGED <<uploads, parts>>
  BY <1>4, Zenon DEF Complete, BeginComplete, Completion, ReadParts, CommitObject, FinishUpload,
              StopComplete, uploadVars
<1>5. ASSUME NEW c \in Completer, ForgetUpload(c) PROVE of[c] \in Upload
  BY <1>5, Zenon DEF ForgetUpload, UploadInv
<1>6. ASSUME NEW u \in Upload,
             CreateUpload(u) \/ LapseCompletion(u) \/ \E p \in PartNumber : UploadPart(u, p)
      PROVE parts' = parts /\ uploads \subseteq uploads'
  BY <1>6 DEF CreateUpload, LapseCompletion, UploadPart, uploadVars
<1>7. ASSUME \/ \E b \in Blob : PutObject(b)
             \/ DeleteObject
             \/ UNCHANGED uploadVars
             \/ UNCHANGED vars
      PROVE parts' = parts /\ uploads' = uploads
  BY <1>7 DEF PutObject, DeleteObject, vars, uploadVars
<1>8. QED
  BY <1>1, <1>2, <1>3, <1>4, <1>5, <1>6, <1>7, Zenon DEF Next

\* A step of a completion.
LEMMA RequestStep ==
  ASSUME UploadInv, NEW c \in Completer, Complete(c), NoOrphanParts'
  PROVE  UploadInv'
<1>1. unused' = unused
  BY CompleteKeeps
<1>2. ASSUME NEW u \in Upload, BeginComplete(c, u) PROVE UploadInv'
  <2>1. /\ u \notin unused /\ of' = [of EXCEPT ![c] = u]
        /\ pc' = [pc EXCEPT ![c] = IF u \in uploads THEN "found" ELSE "missed"]
        /\ UNCHANGED <<uploads, remembered, forgotten, blind>>
    BY <1>2 DEF BeginComplete, uploadVars, history
  <2>2. /\ of'[c] = u /\ pc'[c] = IF u \in uploads THEN "found" ELSE "missed"
        /\ \A d \in Completer : d # c => of'[d] = of[d] /\ pc'[d] = pc[d]
    BY <2>1, Zenon DEF UploadInv
  <2>3. pc' \in [Completer -> PcValues] /\ of' \in [Completer -> 0..NumUploads]
    <3>1. \E to \in {"found", "missed"} : pc' = [pc EXCEPT ![c] = to]
      BY <2>1, Zenon
    <3>2. pc' \in [Completer -> PcValues]
      BY <3>1, Zenon DEF UploadInv, PcValues
    <3>3. u \in 0..NumUploads
      BY DEF Upload
    <3>4. QED
      BY <2>1, <3>2, <3>3, Zenon DEF UploadInv
  <2>4. \A d \in Completer : pc'[d] = "missed" => of'[d] \notin uploads
    BY <2>2, Zenon DEF UploadInv
  <2>5. QED
    BY <1>1, <2>1, <2>2, <2>3, <2>4, Zenon DEF UploadInv
<1>3. CASE Completion(c)
  BY <1>1, <1>3, Zenon DEF Completion, uploadVars, history, UploadInv, PcValues
<1>4. CASE (\E named \in SUBSET PartNumber : ReadParts(c, named)) \/ CommitObject(c) \/ StopComplete(c)
  <2>1. /\ pc[c] # "idle" /\ \E to \in {"read", "committed", "failed"} : pc' = [pc EXCEPT ![c] = to]
        /\ UNCHANGED <<uploads, remembered, forgotten, blind, of>>
    BY <1>4 DEF ReadParts, CommitObject, StopComplete, uploadVars, history
  <2>2. QED
    BY <1>1, <2>1, Zenon DEF UploadInv, PcValues
<1>5. CASE FinishUpload(c)
  BY <1>1, <1>5, Zenon DEF FinishUpload, uploadVars, UploadInv, PcValues
<1>6. CASE ForgetUpload(c)
  <2>1. pc[c] = "finished" /\ pc' = [pc EXCEPT ![c] = "done"] /\ UNCHANGED <<remembered, forgotten, blind, of>>
        /\ uploads' \in {uploads, uploads \ {of[c]}}
    BY <1>6 DEF ForgetUpload, DeleteUpload, uploadVars, history
  <2>2. QED
    BY <1>1, <2>1, Zenon DEF UploadInv, PcValues
<1>7. QED
  BY <1>2, <1>3, <1>4, <1>5, <1>6 DEF Complete

\* Every step keeps what is known of the uploads.
LEMMA UploadStep ==
  ASSUME SweepTypes, UploadInv, [Next]_vars
  PROVE  UploadInv'
<1>1. NoOrphanParts'
  BY OrphanStep
<1>2. ASSUME NEW u \in Upload, CreateUpload(u) PROVE UploadInv'
  BY <1>1, <1>2, Zenon DEF CreateUpload, doneVars, history, UploadInv, PcValues
<1>3. ASSUME NEW u \in Upload, AbortUpload(u) PROVE UploadInv'
  BY <1>1, <1>3, Zenon DEF AbortUpload, DeleteUpload, doneVars, UploadInv, PcValues
<1>4. ASSUME NEW u \in Upload, LapseCompletion(u) PROVE UploadInv'
  BY <1>1, <1>4, Zenon DEF LapseCompletion, uploadVars, doneVars, UploadInv, PcValues
<1>5. CASE UNCHANGED <<uploads, unused, remembered, pc, of, forgotten, blind>>
  BY <1>1, <1>5, Zenon DEF UploadInv, PcValues
<1>6. ASSUME NEW u \in Upload, NEW p \in PartNumber,
             UploadPart(u, p) \/ \E b \in Blob : CommitPart(u, p, b)
      PROVE UNCHANGED <<uploads, unused, remembered, pc, of, forgotten, blind>>
  BY <1>6 DEF UploadPart, CommitPart, doneVars, history
<1>7. ASSUME \/ \E b \in Blob : PutObject(b)
             \/ DeleteObject
             \/ UNCHANGED <<uploadVars, object, remembered, doneVars, fresh, history>>
             \/ UNCHANGED vars
      PROVE UNCHANGED <<uploads, unused, remembered, pc, of, forgotten, blind>>
  BY <1>7 DEF PutObject, DeleteObject, vars, uploadVars, doneVars, history
<1>8. QED
  BY <1>1, <1>2, <1>3, <1>4, <1>5, <1>6, <1>7, RequestStep DEF Next

\* The three invariants hold before the first upload.
LEMMA MultipartInit == Init => SweepTypes /\ KeepInv /\ UploadInv
<1> SUFFICES ASSUME Init PROVE SweepTypes /\ KeepInv /\ UploadInv
  OBVIOUS
<1>1. SweepTypes
  BY DEF Init, SweepInit, SweepTypes, SweepTypeOK, NoParts
<1>2. \A u \in Upload : PartBlobs(u) = {}
  BY DEF Init, PartBlobs, NoParts
<1>3. KeepInv
  BY <1>2 DEF Init, SweepInit, KeepInv, Held, StillToRead, FreshIsNew, IdleInv, Kept
<1>4. UploadInv
  BY DEF Init, UploadInv, NoOrphanParts, PcValues, Upload
<1>5. QED
  BY <1>1, <1>3, <1>4

\* What every behaviour keeps.
LEMMA MultipartInv == Spec => [](SweepTypes /\ KeepInv /\ UploadInv)
<1>1. SweepTypes /\ KeepInv /\ UploadInv /\ [Next]_vars => SweepTypes' /\ KeepInv'
  BY KeepStep
<1>2. SweepTypes /\ UploadInv /\ [Next]_vars => UploadInv'
  BY UploadStep
<1>3. QED
  BY MultipartInit, <1>1, <1>2, PTL DEF Spec

\* The chunks of an upload pass from its parts to the object without any pass taking
\* them, however old they are, however many uploads and completions there are and
\* whatever a page of the pass holds.
THEOREM HandOver == Spec => []HandedOver
<1>1. KeepInv => HandedOver
  BY DEF KeepInv, Held, Kept, HandedOver
<1>2. QED
  BY MultipartInv, <1>1, PTL

\* No part of an upload in flight is taken, for every number of uploads, parts and
\* completions and every size of a page.
THEOREM PartsAreHeld == Spec => []PartsHeld
<1>1. UploadInv /\ KeepInv => PartsHeld
  BY Zenon DEF UploadInv, KeepInv, Held, PartsHeld
<1>2. QED
  BY MultipartInv, <1>1, PTL

\* A client that repeats a completion whose answer it lost is not told that it failed
\* while that answer is remembered and can be read, for every number of uploads and
\* requests.
THEOREM RetriesAreHonest == Spec => []HonestRetry
<1>1. UploadInv => HonestRetry
  BY Zenon DEF UploadInv, HonestRetry
<1>2. QED
  BY MultipartInv, <1>1, PTL

\* No part outlives its upload, however its arrival meets an abort, an expiry or a
\* completion, for every number of uploads and parts.
THEOREM PartsGoWithUpload == Spec => []NoOrphanParts
<1>1. UploadInv => NoOrphanParts
  BY Zenon DEF UploadInv
<1>2. QED
  BY MultipartInv, <1>1, PTL

-----------------------------------------------------------------------------
\* The records that are only read by their own requests.
RecordTypes == /\ sending \in SUBSET (Upload \X PartNumber)
               /\ remembered \in SUBSET Upload
               /\ made \in SUBSET Upload
               /\ forgotten \in SUBSET Upload
               /\ sound \in BOOLEAN
               /\ blind \in SUBSET Completer

\* A completion at work has an upload, so what it remembers or forgets is one.
LEMMA RecordStep == ASSUME UploadInv, RecordTypes, [Next]_vars PROVE RecordTypes'
<1>1. ASSUME NEW u \in Upload, CreateUpload(u) \/ AbortUpload(u) \/ LapseCompletion(u)
      PROVE RecordTypes'
  BY <1>1 DEF CreateUpload, AbortUpload, DeleteUpload, LapseCompletion, uploadVars, history,
              RecordTypes
<1>2. ASSUME NEW u \in Upload, NEW p \in PartNumber,
             UploadPart(u, p) \/ \E b \in Blob : CommitPart(u, p, b)
      PROVE RecordTypes'
  BY <1>2 DEF UploadPart, CommitPart, history, RecordTypes
<1>3. ASSUME NEW c \in Completer, Complete(c) PROVE RecordTypes'
  <2>1. sending' = sending
    BY <1>3, CompleteKeeps
  <2>2. CASE CommitObject(c) \/ FinishUpload(c)
    <3>1. of[c] \in Upload
      BY <2>2, Zenon DEF CommitObject, FinishUpload, UploadInv
    <3>2. made' \in SUBSET Upload /\ remembered' \in SUBSET Upload /\ forgotten' \in SUBSET Upload
      BY <2>2, <3>1, SMTT(20) DEF CommitObject, FinishUpload, RecordTypes
    <3>3. sound' \in BOOLEAN
      BY <2>2, Zenon DEF CommitObject, StillNamed, FinishUpload, RecordTypes
    <3>4. blind' = blind
      BY <2>2 DEF CommitObject, FinishUpload
    <3>5. QED
      BY <2>1, <3>2, <3>3, <3>4 DEF RecordTypes
  <2>3. CASE ~(CommitObject(c) \/ FinishUpload(c))
    <3>1. UNCHANGED <<remembered, made, forgotten, sound>>
      BY <1>3, <2>3, Zenon DEF Complete, BeginComplete, Completion, ReadParts, ForgetUpload, StopComplete,
                        history
    <3>2. blind' \in {blind, blind \cup {c}}
      BY <1>3, <2>3, Zenon DEF Complete, BeginComplete, Completion, ReadParts, ForgetUpload, StopComplete,
                        history
    <3>3. QED
      BY <2>1, <3>1, <3>2 DEF RecordTypes
  <2>4. QED
    BY <2>2, <2>3
<1>4. ASSUME \/ \E b \in Blob : PutObject(b)
             \/ DeleteObject
             \/ UNCHANGED <<uploadVars, object, remembered, doneVars, fresh, history>>
             \/ UNCHANGED vars
      PROVE RecordTypes'
  BY <1>4, Zenon DEF PutObject, DeleteObject, vars, uploadVars, history, RecordTypes
<1>5. QED
  BY <1>1, <1>2, <1>3, <1>4 DEF Next

\* The disk, the uploads, their parts and the completions keep their types, for every
\* number of them.
THEOREM MultipartTypes == Spec => []TypeOK
<1>1. Init => RecordTypes
  BY DEF Init, RecordTypes
<1>2. UploadInv /\ RecordTypes /\ [Next]_vars => RecordTypes'
  BY RecordStep
<1>3. SweepTypes /\ UploadInv /\ RecordTypes => TypeOK
  BY Zenon DEF SweepTypes, UploadInv, PcValues, RecordTypes, TypeOK
<1>4. QED
  BY MultipartInv, <1>1, <1>2, <1>3, PTL DEF Spec
=============================================================================
