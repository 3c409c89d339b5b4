------------------------------ MODULE Copying ------------------------------
(***************************************************************************)
(* Server-side copies: a copy commits the source's manifest under another  *)
(* key, so several keys name the same chunks, and only the sweep, which    *)
(* reads the manifests in key order while clients go on, deletes a chunk.  *)
(***************************************************************************)
EXTENDS Sweep

CONSTANTS NoBlob, Copier,
          QuietSource  \* no client deletes or replaces an object while it is being copied

VARIABLES object,  \* per key, the blob its manifest names
          copy,    \* per copier, the manifest it has read and its source, or NoCopy
          fresh    \* the blobs not yet written

vars == <<sweepVars, object, copy, fresh>>

Key    == 1..NumPlaces
NoCopy == [from |-> 0, blob |-> NoBlob]

Init == /\ SweepInit
        /\ object = [k \in Key |-> NoBlob]
        /\ copy = [c \in Copier |-> NoCopy]
        /\ fresh = Blob

BeingCopied(k) == QuietSource /\ \E c \in Copier : copy[c].from = k

\* Put of a new object, or over an old one.
Put(k, b) ==
  /\ ~BeingCopied(k)
  /\ b \in fresh
  /\ StoreBlob(b)
  /\ fresh' = fresh \ {b}
  /\ object' = [object EXCEPT ![k] = b]
  /\ UNCHANGED copy

\* Delete removes the manifest and nothing else.
Delete(k) ==
  /\ ~BeingCopied(k)
  /\ object[k] # NoBlob
  /\ object' = [object EXCEPT ![k] = NoBlob]
  /\ UNCHANGED <<sweepVars, copy, fresh>>

\* Copy, its read: the source's manifest.
ReadSource(c, k) ==
  /\ copy[c] = NoCopy
  /\ object[k] # NoBlob
  /\ copy' = [copy EXCEPT ![c] = [from |-> k, blob |-> object[k]]]
  /\ UNCHANGED <<sweepVars, object, fresh>>

\* Copy, its commit, which is conditional on nothing; or the copier fails.
CommitCopy(c, k) ==
  /\ copy[c] # NoCopy
  /\ ~BeingCopied(k) \/ k = copy[c].from
  /\ object' = [object EXCEPT ![k] = copy[c].blob]
  /\ copy' = [copy EXCEPT ![c] = NoCopy]
  /\ UNCHANGED <<sweepVars, fresh>>

FailCopy(c) ==
  /\ copy[c] # NoCopy
  /\ copy' = [copy EXCEPT ![c] = NoCopy]
  /\ UNCHANGED <<sweepVars, object, fresh>>

\* reference: the blobs the manifest at place k names.
Named(k) == {object[k]} \cap Blob

Next ==
  \/ \E k \in Key : \/ \E b \in Blob : Put(k, b)
                    \/ Delete(k)
                    \/ \E c \in Copier : ReadSource(c, k) \/ CommitCopy(c, k)
  \/ \E c \in Copier : FailCopy(c)
  \/ PassStep([i \in Place |-> Named(i)]) /\ UNCHANGED <<object, copy, fresh>>

Spec == Init /\ [][Next]_vars

-----------------------------------------------------------------------------
\* Every object can be read: the chunks its manifest names are on disk, whether it
\* was written or copied, and whatever became of the other objects that name them.
Readable == \A k \in Key : object[k] # NoBlob => object[k] \in disk
=============================================================================
