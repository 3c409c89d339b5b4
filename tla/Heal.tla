-------------------------------- MODULE Heal --------------------------------
(***************************************************************************)
(* Repair and scrubbing of one chunk against rot, lost disks, nodes that   *)
(* die and leases that lapse.  Node i holds a copy of the chunk, or, if    *)
(* the object is coded, shard i of it; any Data good shards rebuild it.    *)
(* Repair asks who has a file and sends one to whoever has none.  It can   *)
(* not tell rot from data: that is what each node's own scrubber is for.   *)
(* Init, Next and so on are HealInit, HealNext here, so that a module can  *)
(* extend both this one and ChunkStore.                                    *)
(***************************************************************************)
EXTENDS Integers, FiniteSets

CONSTANTS NumNodes,    \* the nodes the manifest names, in its order
          Data,        \* how many shards rebuild a coded chunk
          MaxFaults    \* bound on the faults

ASSUME HealAssumption ==
  /\ NumNodes \in Nat \ {0} /\ Data \in 1..NumNodes
  /\ MaxFaults \in Nat

Node == 1..NumNodes

\* Node 0 is one that the manifest does not name.  It holds nothing of the object, but
\* the ring may have come to put it before the others, and repair is then its task.
Repairer == 0..NumNodes

VARIABLES coded,    \* is the chunk coded, or replicated
          copy,     \* each node's file: good, rotted or none
          up,       \* the nodes that answer
          member,   \* the nodes with a lease
          missing,  \* per node, what its repair has still to restore
          faults    \* faults so far

healVars == <<coded, copy, up, member, missing, faults>>

\* How many good files make the chunk.
Needed == IF coded THEN Data ELSE 1

HealInit == /\ coded \in BOOLEAN
            /\ copy \in [Node -> {"good", "none"}]
            /\ Cardinality({n \in Node : copy[n] = "good"}) >= Needed
            /\ up = Repairer
            /\ member \in {Node, Repairer}
            /\ missing = [r \in Repairer |-> {}]
            /\ faults = 0

-----------------------------------------------------------------------------
Fault == /\ faults < MaxFaults
         /\ faults' = faults + 1

Rot(n) == /\ Fault
          /\ copy[n] = "good"
          /\ copy' = [copy EXCEPT ![n] = "rotted"]
          /\ UNCHANGED <<coded, up, member, missing>>

LoseDisk(n) == /\ Fault
               /\ copy[n] # "none"
               /\ copy' = [copy EXCEPT ![n] = "none"]
               /\ UNCHANGED <<coded, up, member, missing>>

Die(n) == /\ Fault
          /\ n \in up
          /\ up' = up \ {n}
          /\ missing' = [missing EXCEPT ![n] = {}]
          /\ UNCHANGED <<coded, copy, member>>

\* A live node loses its lease, as one too busy to renew it does.
LoseLease(n) == /\ Fault
                /\ n \in member
                /\ member' = member \ {n}
                /\ UNCHANGED <<coded, copy, up, missing>>

\* A dead one loses it in time; a live one may register again.
LeaseRunsOut(n) == /\ n \in member \ up
                   /\ member' = member \ {n}
                   /\ UNCHANGED <<coded, copy, up, missing, faults>>

Register(n) == /\ n \in up \ member
               /\ member' = member \cup {n}
               /\ UNCHANGED <<coded, copy, up, missing, faults>>

-----------------------------------------------------------------------------
Answering == {m \in up \cap Node : copy[m] # "none"}

\* localFirst: the manifest's order, with a node's own place and the first exchanged.
Place(r, m) == IF m = r THEN 1 ELSE IF m = 1 /\ r \in Node THEN r ELSE m

\* fetch: the first node with a file to open.
FirstSource(r) == CHOOSE m \in Answering : \A k \in Answering : Place(r, m) <= Place(r, k)

GoodShards == {m \in up \cap Node : copy[m] = "good"}

\* restore opens one source and its bytes verify or they do not; restoreShards
\* reads every shard and needs Data that verify.
CanRestore(r) == IF coded THEN Cardinality(GoodShards) >= Data
                 ELSE Answering # {} /\ copy[FirstSource(r)] = "good"

\* A possible bug: the survey asks every node that the manifest names.
SurveyEveryone(r) ==
  /\ r \in up
  /\ missing[r] = {}
  /\ \A m \in member \cup {r} : r <= m
  /\ missing' = [missing EXCEPT ![r] = {n \in Node : n \notin up \/ copy[n] = "none"}]
  /\ missing'[r] # {}
  /\ UNCHANGED <<coded, copy, up, member, faults>>

\* repairObject on node r, its survey: the partition's first owner asks the
\* members who has a file.  A member that does not answer counts as without one.
Survey(r) ==
  /\ r \in up
  /\ missing[r] = {}
  /\ \A m \in member \cup {r} : r <= m
  /\ missing' = [missing EXCEPT ![r] =
                   {n \in Node \cap (member \cup {r}) : n \notin up \/ copy[n] = "none"}]
  /\ missing'[r] # {}
  /\ UNCHANGED <<coded, copy, up, member, faults>>

\* A possible bug: the receiver keeps what it has of a transfer that was cut off.
RestoreKeepsPart(r, n) ==
  /\ r \in up
  /\ n \in missing[r]
  /\ copy' = IF n \in up THEN [copy EXCEPT ![n] = "part"] ELSE copy
  /\ missing' = [missing EXCEPT ![r] = @ \ {n}]
  /\ UNCHANGED <<coded, up, member, faults>>

\* Repair of one node: the receiver verifies before it commits, and an error
\* leaves the copy to the next pass.
Restore(r, n) ==
  /\ r \in up
  /\ n \in missing[r]
  /\ copy' = IF n \in up /\ CanRestore(r) THEN [copy EXCEPT ![n] = "good"] ELSE copy
  /\ missing' = [missing EXCEPT ![r] = @ \ {n}]
  /\ UNCHANGED <<coded, up, member, faults>>

\* A possible bug: the scrubber asks members only.
ScrubMembersOnly(n) ==
  /\ n \in up
  /\ copy[n] = "rotted"
  /\ Cardinality(GoodShards \cap member) >= Needed
  /\ copy' = [copy EXCEPT ![n] = "good"]
  /\ UNCHANGED <<coded, up, member, missing, faults>>

\* scrubObject, scrubShards: a node whose own file does not verify replaces it by a
\* copy that does, trying every other node at its last known address.
Scrub(n) ==
  /\ n \in up
  /\ copy[n] = "rotted"
  /\ Cardinality(GoodShards) >= Needed
  /\ copy' = [copy EXCEPT ![n] = "good"]
  /\ UNCHANGED <<coded, up, member, missing, faults>>

HealNext == \/ \E n \in Node : Rot(n) \/ LoseDisk(n) \/ Scrub(n)
            \/ \E r \in Repairer : \/ Die(r) \/ LoseLease(r) \/ LeaseRunsOut(r) \/ Register(r)
                                  \/ Survey(r)
                                  \/ \E n \in Node : Restore(r, n)

\* Repair and scrubbing run again and again on every node that is up, and etcd
\* drops the lease of one that is not.
HealFairness == /\ \A n \in Node : WF_healVars(Scrub(n))
                /\ \A r \in Repairer : /\ WF_healVars(LeaseRunsOut(r))
                                       /\ WF_healVars(Survey(r))
                                       /\ \A n \in Node : WF_healVars(Restore(r, n))

HealSpec == HealInit /\ [][HealNext]_healVars /\ HealFairness

-----------------------------------------------------------------------------
\* A copy is good, rotted or gone, never part of one; nodes and faults stay in bounds.
HealTypeOK == /\ coded \in BOOLEAN
              /\ copy \in [Node -> {"good", "rotted", "none"}]
              /\ up \subseteq Repairer
              /\ member \subseteq Repairer
              /\ missing \in [Repairer -> SUBSET Node]
              /\ faults \in 0..MaxFaults

\* Enough of the chunk is left on nodes that answer.
Recoverable == Cardinality(GoodShards) >= Needed

\* Once the faults stop, every member's copy is good again, if anything good is
\* left to restore it from, on a member or not.
Healed == <>[](Recoverable => \A n \in member \cap Node : copy[n] = "good")

\* Once the faults stop, passes of repair find nothing more to restore, if anything good
\* is left, whichever node comes to be the one that repairs: "a pass over a healthy
\* cluster moves nothing".  None goes on pushing to a node that has left, and a copy
\* that repair has made counts as one.
RepairSettles == <>[](Recoverable => \A r \in Repairer : missing[r] = {})
=============================================================================
