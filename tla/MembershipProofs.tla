-------------------------- MODULE MembershipProofs --------------------------
(***************************************************************************)
(* Proofs about Membership for every set of nodes and number of leases.    *)
(***************************************************************************)
EXTENDS Membership, TLAPS

USE MembershipAssumption

\* Every lease in use has been granted, so a new one is nobody's.
LeaseTypes == /\ granted \in Nat
              /\ alive \subseteq 1..granted
              /\ key \in [Node -> 1..granted \cup {NoLease}]
              /\ lease \in [Node -> 1..granted \cup {NoLease}]
              /\ joining \in [Node -> 1..granted \cup {NoLease}]
              /\ running \subseteq Node

\* A node renews no lease while it registers with another, and a process that is not
\* there does neither.
OneLease ==
  /\ \A n \in Node : joining[n] # NoLease => lease[n] = NoLease
  /\ \A n \in Node \ running : lease[n] = NoLease /\ joining[n] = NoLease

LeaseInv == LeaseTypes /\ OneLease /\ OldLeaseHarmless

\* NoLease is not a lease, so it is never alive.
LEMMA NoLeaseDead == ASSUME NEW g \in Nat, NEW A \in SUBSET (1..g) PROVE NoLease \notin A
<1>1. \A l \in 1..g : l \in Nat
  OBVIOUS
<1>2. \A l \in A : l \in Nat
  BY <1>1, Zenon
<1>3. QED
  BY <1>2, MembershipAssumption, Zenon

\* A new lease is nobody's.
LEMMA GrantStep == ASSUME LeaseInv, NEW n \in Node, Grant(n) PROVE LeaseInv'
<1>1. granted \in Nat /\ granted' = granted + 1 /\ granted' \in 1..granted'
  BY DEF Grant, LeaseInv, LeaseTypes
<1>2. 1..granted \subseteq 1..granted' /\ granted' \notin 1..granted
  BY <1>1
<1>3. LeaseTypes'
  BY <1>1, <1>2 DEF Grant, LeaseInv, LeaseTypes
<1>4. OneLease'
  BY DEF Grant, LeaseInv, LeaseTypes, OneLease
<1>5. ASSUME NEW m \in running, lease[m] \in alive' PROVE key[m] = lease[m]
  <2>1. lease[m] \in 1..granted \cup {NoLease} /\ granted' # NoLease
    BY <1>1 DEF LeaseInv, LeaseTypes
  <2>2. lease[m] \in alive
    BY <1>2, <1>5, <2>1 DEF Grant
  <2>3. QED
    BY <2>2 DEF LeaseInv, OldLeaseHarmless
<1>6. OldLeaseHarmless'
  BY <1>5 DEF Grant, OldLeaseHarmless
<1>7. QED
  BY <1>3, <1>4, <1>6 DEF LeaseInv

\* The node's key goes to the lease that it joins with, and from then on it renews that
\* lease or none.
LEMMA AttachStep == ASSUME LeaseInv, NEW n \in Node, Attach(n) PROVE LeaseInv'
<1>1. joining[n] \in 1..granted /\ joining[n] # NoLease
  BY NoLeaseDead, Zenon DEF Attach, LeaseInv, LeaseTypes
<1>2. lease[n] = NoLease /\ n \in running
  BY <1>1 DEF LeaseInv, OneLease
<1>3. /\ key' = [key EXCEPT ![n] = joining[n]] /\ joining' = [joining EXCEPT ![n] = NoLease]
      /\ lease' = lease \/ lease' = [lease EXCEPT ![n] = joining[n]]
      /\ UNCHANGED <<granted, alive, running>>
  BY DEF Attach
<1>4. LeaseTypes'
  BY <1>1, <1>3 DEF LeaseInv, LeaseTypes
<1>5. OneLease'
  BY <1>2, <1>3 DEF LeaseInv, LeaseTypes, OneLease
<1>6. ASSUME NEW m \in running, lease'[m] \in alive PROVE key'[m] = lease'[m]
  <2>1. NoLease \notin alive
    BY NoLeaseDead, Zenon DEF LeaseInv, LeaseTypes
  <2>2. CASE m = n
    BY <1>2, <1>3, <1>6, <2>1, <2>2 DEF LeaseInv, LeaseTypes
  <2>3. CASE m # n
    BY <1>3, <1>6, <2>3 DEF LeaseInv, LeaseTypes, OldLeaseHarmless
  <2>4. QED
    BY <2>2, <2>3
<1>7. OldLeaseHarmless'
  BY <1>3, <1>6 DEF OldLeaseHarmless
<1>8. QED
  BY <1>4, <1>5, <1>7 DEF LeaseInv

\* A node that gives a lease up takes nothing from the others.
LEMMA GiveUpStep ==
  ASSUME LeaseInv, NEW n \in Node, UNCHANGED <<key, granted, alive>>,
         lease' \in {lease, [lease EXCEPT ![n] = NoLease]},
         joining' \in {joining, [joining EXCEPT ![n] = NoLease]},
         \/ UNCHANGED running
         \/ running' = running \ {n} /\ lease'[n] = NoLease /\ joining'[n] = NoLease
  PROVE  LeaseInv'
<1>1. LeaseTypes'
  BY DEF LeaseInv, LeaseTypes
<1>2. OneLease'
  BY DEF LeaseInv, LeaseTypes, OneLease
<1>3. NoLease \notin alive
  BY NoLeaseDead, Zenon DEF LeaseInv, LeaseTypes
<1>4. OldLeaseHarmless'
  BY <1>3 DEF LeaseInv, LeaseTypes, OldLeaseHarmless
<1>5. QED
  BY <1>1, <1>2, <1>4 DEF LeaseInv

\* A lease that runs out takes the keys attached to it and no other.
LEMMA RunOutStep == ASSUME LeaseInv, NEW l \in 1..MaxLease, LeaseRunsOut(l) PROVE LeaseInv'
<1>1. LeaseTypes'
  BY DEF LeaseRunsOut, LeaseInv, LeaseTypes
<1>2. ASSUME NEW m \in running, lease[m] \in alive, lease[m] # l PROVE key'[m] = lease[m]
  <2>1. key[m] = lease[m] /\ m \in Node
    BY <1>2 DEF LeaseInv, LeaseTypes, OldLeaseHarmless
  <2>2. QED
    BY <1>2, <2>1 DEF LeaseRunsOut
<1>3. OldLeaseHarmless'
  BY <1>2 DEF LeaseRunsOut, OldLeaseHarmless
<1>4. OneLease'
  BY DEF LeaseRunsOut, LeaseInv, OneLease
<1>5. QED
  BY <1>1, <1>3, <1>4 DEF LeaseInv

\* Every step keeps LeaseInv.
LEMMA LeaseStep == ASSUME LeaseInv, [Next]_vars PROVE LeaseInv'
<1>1. ASSUME NEW n \in Node, Start(n) PROVE LeaseInv'
  <2>1. NoLease \notin alive
    BY NoLeaseDead, Zenon DEF LeaseInv, LeaseTypes
  <2>2. QED
    BY <1>1, <2>1 DEF Start, leases, LeaseInv, LeaseTypes, OneLease, OldLeaseHarmless
<1>2. ASSUME NEW n \in Node, Grant(n) \/ Attach(n) PROVE LeaseInv'
  BY <1>2, GrantStep, AttachStep
<1>3. ASSUME NEW n \in Node, AttachFails(n) \/ RenewalsEnd(n) PROVE LeaseInv'
  BY <1>3, GiveUpStep DEF AttachFails, RenewalsEnd
<1>4. ASSUME NEW n \in Node, Crash(n) PROVE LeaseInv'
  <2>1. lease'[n] = NoLease /\ joining'[n] = NoLease
    BY <1>4 DEF Crash, LeaseInv, LeaseTypes
  <2>2. QED
    BY <1>4, <2>1, GiveUpStep, Zenon DEF Crash
<1>5. ASSUME UNCHANGED <<leases, running>> PROVE LeaseInv'
  BY <1>5 DEF leases, LeaseInv, LeaseTypes, OneLease, OldLeaseHarmless
<1>6. ASSUME NEW l \in 1..MaxLease, LeaseRunsOut(l) PROVE LeaseInv'
  BY <1>6, RunOutStep
<1>7. QED
  BY <1>1, <1>2, <1>3, <1>4, <1>5, <1>6
     DEF Next, vars, leases, OpenWatch, List, Send, Wake, CloseWatch

\* A running node that renews a lease that is alive is a member: no lease from before a
\* restart, a lapse or a failed attempt to register, running out late, deregisters it.
THEOREM StaysMember == Spec => []OldLeaseHarmless
<1>1. Init => LeaseInv
  BY DEF Init, LeaseInv, LeaseTypes, OneLease, OldLeaseHarmless
<1>2. LeaseInv /\ [Next]_vars => LeaseInv'
  BY LeaseStep
<1>3. LeaseInv => OldLeaseHarmless
  BY DEF LeaseInv
<1>4. QED
  BY <1>1, <1>2, <1>3, PTL DEF Spec

-----------------------------------------------------------------------------
\* Every step keeps the types.
LEMMA TypeStep == ASSUME TypeOK, [Next]_vars PROVE TypeOK'
<1>1. ASSUME NEW n \in Node, Start(n) \/ Grant(n) \/ AttachFails(n) \/ RenewalsEnd(n) PROVE TypeOK'
  <2>1. CASE Grant(n)
    BY <2>1 DEF Grant, TypeOK
  <2>2. CASE Start(n) \/ AttachFails(n) \/ RenewalsEnd(n)
    BY <2>2, Zenon DEF Start, AttachFails, RenewalsEnd, leases, TypeOK
  <2>3. QED
    BY <1>1, <2>1, <2>2
<1>2. ASSUME Notify PROVE event' \in [Node -> BOOLEAN]
  <2>1. \A n \in Node : (event[n] \/ watch[n] \in {"list", "send", "wait"}) \in BOOLEAN
    OBVIOUS
  <2>2. QED
    BY <1>2, <2>1 DEF Notify
<1>3. ASSUME NEW n \in Node, Attach(n) PROVE TypeOK'
  <2>1. joining[n] \in 1..MaxLease
    <3>1. granted \in Nat /\ 1..granted \subseteq 1..MaxLease
      BY DEF TypeOK
    <3>2. QED
      BY <1>3, <3>1, Zenon DEF Attach, TypeOK
  <2>2. Notify /\ UNCHANGED <<granted, alive, running, listed, view, closes>>
    BY <1>3 DEF Attach
  <2>3. /\ key' \in [Node -> 1..MaxLease \cup {NoLease}]
        /\ lease' \in [Node -> 1..MaxLease \cup {NoLease}]
        /\ joining' \in [Node -> 1..MaxLease \cup {NoLease}]
    BY <1>3, <2>1 DEF Attach, TypeOK
  <2>4. watch' \in [Node -> {"off", "open", "list", "send", "wait", "closed"}]
    BY <1>3 DEF Attach, TypeOK
  <2>5. QED
    BY <1>2, <2>2, <2>3, <2>4, Zenon DEF TypeOK
<1>4. ASSUME NEW n \in Node, OpenWatch(n) \/ Crash(n) \/ List(n) \/ Send(n) \/ Wake(n) \/ CloseWatch(n)
      PROVE TypeOK'
  <2>1. CASE OpenWatch(n) \/ Crash(n) \/ Wake(n)
    <3>1. event' = [event EXCEPT ![n] = FALSE] /\ event \in [Node -> BOOLEAN]
      BY <2>1 DEF OpenWatch, Crash, Wake, TypeOK
    <3>2. event' \in [Node -> BOOLEAN]
      BY <3>1
    <3>3. /\ UNCHANGED <<key, granted, alive, closes>>
          /\ lease' \in {lease, [lease EXCEPT ![n] = NoLease]}
          /\ joining' \in {joining, [joining EXCEPT ![n] = NoLease]}
          /\ running' \in {running, running \ {n}}
          /\ \E to \in {"off", "list"} : watch' = [watch EXCEPT ![n] = to]
          /\ listed' \in {listed, [listed EXCEPT ![n] = {}]}
          /\ view' \in {view, [view EXCEPT ![n] = {}]}
      BY <2>1 DEF OpenWatch, Crash, Wake, leases
    <3>4. QED
      BY <3>2, <3>3 DEF TypeOK
  <2>2. CASE List(n) \/ Send(n)
    <3>1. /\ UNCHANGED <<key, lease, joining, granted, alive, running, event, closes>>
          /\ \E to \in {"send", "wait"} : watch' = [watch EXCEPT ![n] = to]
      BY <2>2 DEF List, Send, leases
    <3>2. listed' \in [Node -> SUBSET Node] /\ view' \in [Node -> SUBSET Node]
      BY <2>2 DEF List, Send, Members, TypeOK
    <3>3. watch' \in [Node -> {"off", "open", "list", "send", "wait", "closed"}]
      <4>1. PICK to \in {"send", "wait"} : watch' = [watch EXCEPT ![n] = to]
        BY <3>1, Zenon
      <4>2. QED
        BY <4>1 DEF TypeOK
    <3>4. UNCHANGED <<key, lease, joining, granted, alive, running, event, closes>>
      BY <3>1, Zenon
    <3>5. QED
      BY <3>2, <3>3, <3>4, Zenon DEF TypeOK
  <2>3. CASE CloseWatch(n)
    BY <2>3, MembershipAssumption DEF CloseWatch, leases, TypeOK
  <2>4. QED
    BY <1>4, <2>1, <2>2, <2>3
<1>5. ASSUME NEW l \in 1..MaxLease, LeaseRunsOut(l) PROVE TypeOK'
  <2>1. event' \in [Node -> BOOLEAN]
    BY <1>2, <1>5 DEF LeaseRunsOut, TypeOK
  <2>2. QED
    BY <1>5, <2>1 DEF LeaseRunsOut, TypeOK
<1>6. CASE UNCHANGED vars
  BY <1>6 DEF vars, TypeOK
<1>7. QED
  BY <1>1, <1>3, <1>4, <1>5, <1>6 DEF Next

\* Leases, keys, watches and views keep their types, and no lease is alive that was
\* not granted, for every number of nodes and of leases.
THEOREM MembershipTypes == Spec => []TypeOK
<1>1. Init => TypeOK
  BY DEF Init, TypeOK
<1>2. TypeOK /\ [Next]_vars => TypeOK'
  BY TypeStep
<1>3. QED
  BY <1>1, <1>2, PTL DEF Spec

\* Between its listing and an event, what a node has listed is the membership.
ViewInv ==
  /\ \A n \in Node : watch[n] = "send" /\ ~event[n] => listed[n] = Members
  /\ NoMissedChange

\* A change is told to every watch that has anything to be stale.
LEMMA NotifyStep ==
  ASSUME TypeOK, Notify, NEW n \in Node,
         watch' \in {watch, [watch EXCEPT ![n] = IF @ = "off" THEN "open" ELSE @]}
  PROVE  ViewInv'
<1>1. ASSUME NEW m \in Node, watch'[m] \in {"send", "wait"} PROVE event'[m]
  BY <1>1, Zenon DEF Notify, TypeOK
<1>2. QED
  BY <1>1 DEF ViewInv, NoMissedChange

\* Every step keeps ViewInv.
LEMMA ViewStep == ASSUME TypeOK, ViewInv, [Next]_vars PROVE ViewInv'
<1>1. ASSUME NEW n \in Node, Attach(n) PROVE ViewInv'
  <2>1. Notify /\ watch' \in {watch, [watch EXCEPT ![n] = IF @ = "off" THEN "open" ELSE @]}
    BY <1>1 DEF Attach
  <2>2. QED
    BY <2>1, NotifyStep
<1>2. ASSUME NEW n \in Node, OpenWatch(n) \/ Crash(n) \/ List(n) \/ Send(n) \/ Wake(n) \/ CloseWatch(n)
      PROVE ViewInv'
  <2>1. Members' = Members
    BY <1>2 DEF OpenWatch, Crash, List, Send, Wake, CloseWatch, leases, Members
  <2>2. CASE OpenWatch(n) \/ Crash(n) \/ Wake(n)
    BY <2>1, <2>2 DEF OpenWatch, Crash, Wake, ViewInv, NoMissedChange, TypeOK
  <2>3. CASE List(n)
    BY <2>1, <2>3 DEF List, ViewInv, NoMissedChange, TypeOK
  <2>4. CASE Send(n)
    BY <2>1, <2>4 DEF Send, ViewInv, NoMissedChange, TypeOK
  <2>5. CASE CloseWatch(n)
    BY <2>1, <2>5 DEF CloseWatch, ViewInv, NoMissedChange, TypeOK
  <2>6. QED
    BY <1>2, <2>2, <2>3, <2>4, <2>5
<1>3. ASSUME NEW l \in 1..MaxLease, LeaseRunsOut(l) PROVE ViewInv'
  <2>1. CASE key' = key
    <3>1. Members' = Members /\ UNCHANGED <<event, watch, listed, view>>
      BY <1>3, <2>1 DEF LeaseRunsOut, Members
    <3>2. QED
      BY <3>1 DEF ViewInv, NoMissedChange
  <2>2. CASE key' # key
    <3>1. ASSUME NEW m \in Node, watch'[m] \in {"send", "wait"} PROVE event'[m]
      BY <1>3, <2>2, <3>1, Zenon DEF LeaseRunsOut, Notify
    <3>2. QED
      BY <3>1 DEF ViewInv, NoMissedChange
  <2>3. QED
    BY <2>1, <2>2
<1>4. ASSUME UNCHANGED <<key, watch, event, listed, view>> PROVE ViewInv'
  BY <1>4 DEF ViewInv, NoMissedChange, Members
<1>5. QED
  BY <1>1, <1>2, <1>3, <1>4
     DEF Next, vars, leases, Start, Grant, AttachFails, RenewalsEnd

\* No change of the membership falls between a node's watch, its listing and its wait,
\* for every number of nodes and of leases.
THEOREM NothingFallsBetween == Spec => []NoMissedChange
<1>1. Init => ViewInv
  BY DEF Init, ViewInv, NoMissedChange
<1>2. TypeOK /\ ViewInv /\ [Next]_vars => ViewInv'
  BY ViewStep
<1>3. ViewInv => NoMissedChange
  BY DEF ViewInv
<1>4. QED
  BY MembershipTypes, <1>1, <1>2, <1>3, PTL DEF Spec
=============================================================================
