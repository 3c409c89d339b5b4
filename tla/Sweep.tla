-------------------------------- MODULE Sweep --------------------------------
(***************************************************************************)
(* The collection pass as the operations that only name chunks see it.     *)
(*                                                                         *)
(* Copying an object and completing a multipart upload store nothing: they *)
(* commit manifests for chunks that are already on disk, may be old, and   *)
(* belong to no write in flight.  A blob stands for all chunks of one      *)
(* write, and one node's disk for those of the nodes that hold them.  How  *)
(* a blob comes to be committed safely in the first place is Collection's  *)
(* subject; here it appears on the disk in the step that commits it.       *)
(***************************************************************************)
EXTENDS Integers, FiniteSets

CONSTANTS Blob,       \* the chunks of one write
          NumPlaces,  \* where manifests are, in the order the pass reads them
          PageSize    \* how many of them one read of etcd returns

ASSUME PlaceAssumption == NumPlaces \in Nat /\ PageSize \in Nat \ {0}

VARIABLES disk,        \* the blobs on disk
          old,         \* those of them older than the grace period
          phase,       \* "idle" or "marking"
          eligible,    \* what was old when the pass began: its cutoff
          referenced,  \* what the manifests read so far name
          at           \* the next place to read

Place == 1..NumPlaces

passVars  == <<phase, eligible, referenced, at>>
sweepVars == <<disk, old, passVars>>

SweepTypeOK == /\ disk \in SUBSET Blob
               /\ old \in SUBSET disk
               /\ phase \in {"idle", "marking"}
               /\ eligible \in SUBSET Blob
               /\ referenced \in SUBSET Blob
               /\ at \in 1..(NumPlaces + 1)

SweepInit == /\ disk = {}
             /\ old = {}
             /\ phase = "idle"
             /\ eligible = {}
             /\ referenced = {}
             /\ at = 1

\* A write stores a blob; nothing has its id yet.
StoreBlob(b) ==
  /\ b \notin disk
  /\ disk' = disk \cup {b}
  /\ UNCHANGED <<old, passVars>>

\* A blob outlives the grace period.
Age(b) ==
  /\ b \in disk \ old
  /\ old' = old \cup {b}
  /\ UNCHANGED <<disk, passVars>>

\* Collect: a pass begins and fixes its cutoff.
BeginPass ==
  /\ phase = "idle"
  /\ phase' = "marking"
  /\ eligible' = old
  /\ UNCHANGED <<disk, old, referenced, at>>

\* referenced: one page of manifests is read; named gives what each names.
ScanPage(named) ==
  /\ phase = "marking"
  /\ at <= NumPlaces
  /\ LET last == IF at + PageSize > NumPlaces THEN NumPlaces ELSE at + PageSize - 1
     IN  /\ referenced' = referenced \cup UNION {named[i] : i \in at..last}
         /\ at' = last + 1
  /\ UNCHANGED <<disk, old, phase, eligible>>

\* Collect: an old blob that nothing read named is removed.
RemoveBlob(b) ==
  /\ phase = "marking"
  /\ at > NumPlaces
  /\ b \in disk \cap (eligible \ referenced)
  /\ disk' = disk \ {b}
  /\ old' = old \ {b}
  /\ UNCHANGED passVars

\* The pass ends: the sweep is over, or an error ended it anywhere.
EndPass ==
  /\ phase = "marking"
  /\ phase' = "idle"
  /\ eligible' = {}
  /\ referenced' = {}
  /\ at' = 1
  /\ UNCHANGED <<disk, old>>

PassStep(named) ==
  \/ \E b \in Blob : Age(b) \/ RemoveBlob(b)
  \/ BeginPass
  \/ ScanPage(named)
  \/ EndPass
=============================================================================
