----------------------------- MODULE Refinement -----------------------------
(***************************************************************************)
(* The write path and the collection passes implement ObjectStore.         *)
(***************************************************************************)
EXTENDS Collection

\* A read tells an object from none.
ASSUME WriteAssumption == NoNode \notin Write

\* What a read of key k returns: nothing; the object of the write that the manifest
\* names, when every chunk of it is on W of its nodes; or an object of which some is
\* lost, which the key was never given.
Lost == "lost"
ObjectOf(k) ==
  IF manifest[k] = NoManifest THEN NoNode
  ELSE IF \A c \in ChunksOf(manifest[k]) : HeldByQuorum(c, manifest[k].nodes)
       THEN manifest[k].write ELSE Lost

\* What its client knows of write w: a coordinator that died will not answer.
StatusOf(w) ==
  IF pc[w] = "idle" THEN "idle"
  ELSE IF pc[w] \in {"begun", "pushing", "stored"} THEN "open"
  ELSE IF pc[w] = "committed" THEN "applied"
  ELSE IF pc[w] = "acked" THEN "acked"
  ELSE "failed"

Objects  == [k \in Key |-> ObjectOf(k)]
Statuses == [w \in Write |-> StatusOf(w)]

Store == INSTANCE ObjectStore
           WITH Keys <- Key, Puts <- Write, Nothing <- NoNode,
                object <- Objects, target <- key, status <- Statuses

\* To its clients the cluster is a register per key: an acknowledged put has taken
\* effect and stays readable whole until the next, a failed one never takes effect
\* after its answer, and neither a pass, nor a lapsed lease, nor a crash changes an
\* object or loses part of it.
IsObjectStore == Store!Spec
=============================================================================
