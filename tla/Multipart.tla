----------------------------- MODULE Multipart -----------------------------
(***************************************************************************)
(* Multipart uploads: parts that are stored long before the object exists, *)
(* a completion that hands their chunks over to the object, aborts,        *)
(* expiry, repeated parts and repeated completions, beside the sweep.      *)
(*                                                                         *)
(* All uploads are of one object key, which clients also write and delete. *)
(* A completion is the request of one client; a client whose connection    *)
(* died repeats it, and both requests may be running.                      *)
(***************************************************************************)
EXTENDS Sweep

CONSTANTS NumUploads, PartNumber,
          Completer,  \* the requests that complete an upload
          NoBlob

ASSUME UploadAssumption == /\ NumUploads \in Nat
                           /\ NoBlob \notin Blob
                           /\ NumPlaces = NumUploads + 1

VARIABLES uploads,     \* the upload records in etcd
          parts,       \* per upload and part number, the blob of the part's manifest
          sending,     \* the parts being received: the upload was there when they began
          object,      \* the blobs the object's manifest names
          remembered,  \* the uploads with a completion record
          pc,          \* per completion, where it is
          of,          \* per completion, its upload
          chosen,      \* per completion, the parts it read
          unused,      \* the upload ids not yet given out
          fresh,       \* the blobs not yet written
          made,        \* history: the uploads whose object was committed
          sound,       \* history: the object's chunks were named when it was committed
          forgotten,   \* history: the uploads that lost their memory for a known reason
          blind        \* history: the completions that could not read what is remembered

uploadVars == <<uploads, parts, sending, unused>>
doneVars   == <<pc, of, chosen>>
history    == <<made, forgotten, sound, blind>>
vars == <<sweepVars, uploadVars, object, remembered, doneVars, fresh, history>>

Upload  == 1..NumUploads
NoParts == [p \in PartNumber |-> NoBlob]

Init == /\ SweepInit
        /\ uploads = {}
        /\ parts = [u \in Upload |-> NoParts]
        /\ sending = {}
        /\ object = {}
        /\ remembered = {}
        /\ pc = [c \in Completer |-> "idle"]
        /\ of = [c \in Completer |-> 0]
        /\ chosen = [c \in Completer |-> {}]
        /\ unused = Upload
        /\ fresh = Blob
        /\ made = {}
        /\ forgotten = {}
        /\ sound = TRUE
        /\ blind = {}

\* What the parts of an upload name.
PartBlobs(u) == {parts[u][p] : p \in PartNumber} \ {NoBlob}

-----------------------------------------------------------------------------
\* CreateUpload: a random id.
CreateUpload(u) ==
  /\ u \in unused
  /\ uploads' = uploads \cup {u}
  /\ unused' = unused \ {u}
  /\ UNCHANGED <<sweepVars, parts, sending, object, remembered, doneVars, fresh, history>>

\* UploadPart: the upload is looked up before the part is received.
UploadPart(u, p) ==
  /\ u \in uploads
  /\ sending' = sending \cup {<<u, p>>}
  /\ UNCHANGED <<sweepVars, uploads, parts, object, remembered, doneVars, unused, fresh, history>>

\* A possible bug: the part is recorded whether or not the upload is still there.
CommitPartAnyway(u, p, b) ==
  /\ <<u, p>> \in sending
  /\ b \in fresh
  /\ StoreBlob(b)
  /\ fresh' = fresh \ {b}
  /\ sending' = sending \ {<<u, p>>}
  /\ parts' = [parts EXCEPT ![u][p] = b]
  /\ UNCHANGED <<uploads, object, remembered, doneVars, unused, history>>

\* CommitPart: the part's manifest, if the upload is still there; the chunks are
\* stored either way.
CommitPart(u, p, b) ==
  /\ <<u, p>> \in sending
  /\ b \in fresh
  /\ StoreBlob(b)
  /\ fresh' = fresh \ {b}
  /\ sending' = sending \ {<<u, p>>}
  /\ parts' = IF u \in uploads THEN [parts EXCEPT ![u][p] = b] ELSE parts
  /\ UNCHANGED <<uploads, object, remembered, doneVars, unused, history>>

\* DeleteUpload: the record and the parts go in one ranged delete.
DeleteUpload(u) ==
  /\ uploads' = uploads \ {u}
  /\ parts' = [parts EXCEPT ![u] = NoParts]
  /\ UNCHANGED <<sending, unused>>

\* AbortUpload by a client, or ExpireUploads once the upload is seven days old.
AbortUpload(u) ==
  /\ u \in uploads
  /\ DeleteUpload(u)
  /\ forgotten' = forgotten \cup {u}
  /\ UNCHANGED <<sweepVars, object, remembered, doneVars, fresh, made, sound, blind>>

-----------------------------------------------------------------------------
\* CompleteUpload, first read: the upload's record.
BeginComplete(c, u) ==
  /\ pc[c] = "idle"
  /\ u \notin unused
  /\ of' = [of EXCEPT ![c] = u]
  /\ pc' = [pc EXCEPT ![c] = IF u \in uploads THEN "found" ELSE "missed"]
  /\ UNCHANGED <<sweepVars, uploadVars, object, remembered, chosen, fresh, history>>

\* An upload that is not there may have been completed: the answer it had.  When that
\* cannot be read, its error is dropped and the answer is that of the first read.
Completion(c) ==
  /\ pc[c] = "missed"
  /\ \/ /\ pc' = [pc EXCEPT ![c] = IF of[c] \in remembered THEN "done" ELSE "no such upload"]
        /\ UNCHANGED blind
     \/ /\ pc' = [pc EXCEPT ![c] = "no such upload"]
        /\ blind' = blind \cup {c}
  /\ UNCHANGED <<sweepVars, uploadVars, object, remembered, of, chosen, fresh, made, forgotten, sound>>

\* A possible bug: a part that is named and was never stored is not missed.
ReadPartsUnchecked(c, named) ==
  /\ pc[c] = "found"
  /\ named # {}
  /\ chosen' = [chosen EXCEPT ![c] = {parts[of[c]][p] : p \in named}]
  /\ pc' = [pc EXCEPT ![c] = "read"]
  /\ UNCHANGED <<sweepVars, uploadVars, object, remembered, of, fresh, history>>

\* CompleteUpload, second read: all parts at once.  The client names some of them,
\* and each must be there; otherwise, or if it is refused for another reason (the
\* order, an ETag, the placement, a checksum), nothing has changed.
ReadParts(c, named) ==
  /\ pc[c] = "found"
  /\ named # {}
  /\ \A p \in named : parts[of[c]][p] # NoBlob
  /\ chosen' = [chosen EXCEPT ![c] = {parts[of[c]][p] : p \in named}]
  /\ pc' = [pc EXCEPT ![c] = "read"]
  /\ UNCHANGED <<sweepVars, uploadVars, object, remembered, of, fresh, history>>

\* What a completion is about to commit is still named by its parts, or by the object
\* another completion of the upload has made of them.
StillNamed(c) == \/ chosen[c] \subseteq PartBlobs(of[c])
                 \/ sound /\ chosen[c] \subseteq object

\* A possible bug: the upload is forgotten before its completion is remembered.
CommitObjectAndForget(c) ==
  /\ pc[c] = "read"
  /\ object' = chosen[c]
  /\ made' = made \cup {of[c]}
  /\ sound' = StillNamed(c)
  /\ pc' = [pc EXCEPT ![c] = "committed"]
  /\ DeleteUpload(of[c])
  /\ UNCHANGED <<sweepVars, remembered, of, chosen, fresh, forgotten, blind>>

\* The object's manifest is committed, conditional on nothing.
CommitObject(c) ==
  /\ pc[c] = "read"
  /\ object' = chosen[c]
  /\ made' = made \cup {of[c]}
  /\ sound' = StillNamed(c)
  /\ pc' = [pc EXCEPT ![c] = "committed"]
  /\ UNCHANGED <<sweepVars, uploadVars, remembered, of, chosen, fresh, forgotten, blind>>

\* FinishUpload: what the upload became is remembered, or that fails and is logged.
FinishUpload(c) ==
  /\ pc[c] = "committed"
  /\ \/ remembered' = remembered \cup {of[c]} /\ UNCHANGED forgotten
     \/ forgotten' = forgotten \cup {of[c]} /\ UNCHANGED remembered
  /\ pc' = [pc EXCEPT ![c] = "finished"]
  /\ UNCHANGED <<sweepVars, uploadVars, object, of, chosen, fresh, made, sound, blind>>

\* The upload is forgotten, or that fails and is logged; the client has its answer.
ForgetUpload(c) ==
  /\ pc[c] = "finished"
  /\ DeleteUpload(of[c]) \/ UNCHANGED uploadVars
  /\ pc' = [pc EXCEPT ![c] = "done"]
  /\ UNCHANGED <<sweepVars, object, remembered, of, chosen, fresh, history>>

\* The request is refused, or dies with its connection or its node, wherever it is.
StopComplete(c) ==
  /\ pc[c] \in {"found", "missed", "read", "committed", "finished"}
  /\ pc' = [pc EXCEPT ![c] = "failed"]
  /\ UNCHANGED <<sweepVars, uploadVars, object, remembered, of, chosen, fresh, history>>

\* The completion record's lease ends.
LapseCompletion(u) ==
  /\ u \in remembered
  /\ remembered' = remembered \ {u}
  /\ forgotten' = forgotten \cup {u}
  /\ UNCHANGED <<sweepVars, uploadVars, object, doneVars, fresh, made, sound, blind>>

\* The object is written or deleted by other requests.
PutObject(b) ==
  /\ b \in fresh
  /\ StoreBlob(b)
  /\ fresh' = fresh \ {b}
  /\ object' = {b}
  /\ sound' = TRUE
  /\ UNCHANGED <<uploadVars, remembered, doneVars, made, forgotten, blind>>

DeleteObject ==
  /\ object # {}
  /\ object' = {}
  /\ UNCHANGED <<sweepVars, uploadVars, remembered, doneVars, fresh, history>>

-----------------------------------------------------------------------------
\* A possible bug: only the objects are read.
NamedObjectsOnly(i) == IF i \in Upload THEN {} ELSE object

\* A possible bug: the objects are read before the parts.
NamedObjectsFirst(i) == IF i = 1 THEN object ELSE PartBlobs(i - 1)

\* referenced: the parts of every upload, and then the object.
Named(i) == IF i \in Upload THEN PartBlobs(i) ELSE object

Complete(c) ==
  \/ \E u \in Upload : BeginComplete(c, u)
  \/ Completion(c)
  \/ \E named \in SUBSET PartNumber : ReadParts(c, named)
  \/ CommitObject(c)
  \/ FinishUpload(c)
  \/ ForgetUpload(c)
  \/ StopComplete(c)

Next ==
  \/ \E u \in Upload : \/ CreateUpload(u) \/ AbortUpload(u) \/ LapseCompletion(u)
                       \/ \E p \in PartNumber : \/ UploadPart(u, p)
                                                \/ \E b \in Blob : CommitPart(u, p, b)
  \/ \E c \in Completer : Complete(c)
  \/ \E b \in Blob : PutObject(b)
  \/ DeleteObject
  \/ /\ PassStep([i \in Place |-> Named(i)])
     /\ UNCHANGED <<uploadVars, object, remembered, doneVars, fresh, history>>

Spec == Init /\ [][Next]_vars

-----------------------------------------------------------------------------
\* The disk, the uploads, their parts and the completions have their types, and only
\* what is on disk is old.
TypeOK == /\ SweepTypeOK
          /\ uploads \in SUBSET Upload
          /\ parts \in [Upload -> [PartNumber -> Blob \cup {NoBlob}]]
          /\ sending \in SUBSET (Upload \X PartNumber)
          /\ object \in SUBSET Blob
          /\ remembered \in SUBSET Upload
          /\ pc \in [Completer -> {"idle", "found", "missed", "read", "committed", "finished",
                                   "done", "no such upload", "failed"}]
          /\ of \in [Completer -> 0..NumUploads]
          /\ chosen \in [Completer -> SUBSET Blob]
          /\ unused \in SUBSET Upload
          /\ fresh \in SUBSET Blob
          /\ made \in SUBSET Upload
          /\ forgotten \in SUBSET Upload
          /\ sound \in BOOLEAN
          /\ blind \in SUBSET Completer

\* An upload's chunks, which may be days old, pass from the parts to the object
\* without the sweep taking them: what was still named when the object was committed
\* is on disk for as long as the object is there, whatever the pass had read by then.
HandedOver == sound => object \subseteq disk

\* What an upload in flight has stored stays until the upload is gone: the sweep
\* reads the parts' manifests too.
PartsHeld == \A u \in uploads : PartBlobs(u) \subseteq disk

\* No part outlives its upload, however a part's arrival and an abort, an expiry or
\* a completion meet: nothing would ever delete such a part or its chunks.
NoOrphanParts == \A u \in Upload \ uploads : parts[u] = NoParts

\* A completion is told there is no such upload only if the upload made no object,
\* or was aborted, or its completion could not be remembered or is an hour old, or
\* what is remembered could not be read: a client repeating a completion whose answer
\* it lost is not told it failed.
HonestRetry ==
  \A c \in Completer : pc[c] = "no such upload" =>
    of[c] \notin made \/ of[c] \in forgotten \/ c \in blind
=============================================================================
