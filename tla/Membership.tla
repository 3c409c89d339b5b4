----------------------------- MODULE Membership -----------------------------
(***************************************************************************)
(* How nodes come to know each other: every node keeps a leased key in     *)
(* etcd, puts it back when the lease is lost, and follows everyone's keys  *)
(* with a watch and a listing after every event.  Nodes die and start      *)
(* again; a lease a node left behind runs out under its new one.           *)
(***************************************************************************)
EXTENDS Integers, FiniteSets

CONSTANTS Node,
          MaxLease,   \* bound on the leases granted
          MaxCloses,  \* bound on the watches that etcd ends
          NoLease

ASSUME MembershipAssumption ==
  /\ MaxLease \in Nat /\ MaxCloses \in Nat
  /\ NoLease \notin Nat

VARIABLES key,      \* the lease each member key is attached to, if it is there
          lease,    \* the lease each node renews
          joining,  \* the lease it has been granted and its key is not yet attached to
          granted,  \* leases granted so far
          alive,    \* the leases that have not run out
          running,  \* the nodes whose process runs
          watch,    \* each node's WatchMembers loop: off, open, list, send, wait or closed
          event,    \* has its watch an event for it
          listed,   \* what it has listed and not yet sent
          view,     \* the members it was last sent
          closes

vars == <<key, lease, joining, granted, alive, running, watch, event, listed, view, closes>>
leases == <<key, lease, joining, granted, alive>>

Members == {n \in Node : key[n] # NoLease}

Init == /\ key = [n \in Node |-> NoLease]
        /\ lease = [n \in Node |-> NoLease]
        /\ joining = [n \in Node |-> NoLease]
        /\ granted = 0
        /\ alive = {}
        /\ running = {}
        /\ watch = [n \in Node |-> "off"]
        /\ event = [n \in Node |-> FALSE]
        /\ listed = [n \in Node |-> {}]
        /\ view = [n \in Node |-> {}]
        /\ closes = 0

\* A possible bug: the watch is opened after the listing, once there is nothing to do
\* but wait.
NotifyWaiting == event' = [n \in Node |-> event[n] \/ watch[n] = "wait"]

\* etcd tells every watch that is open of a change to the keys.
Notify == event' = [n \in Node |-> event[n] \/ watch[n] \in {"list", "send", "wait"}]

-----------------------------------------------------------------------------
\* main, up to Join.
Start(n) == /\ n \notin running
            /\ running' = running \cup {n}
            /\ UNCHANGED <<leases, watch, event, listed, view, closes>>

\* register, from Join or from stayRegistered once the renewals have ended: a new lease.
Grant(n) == /\ n \in running
            /\ lease[n] = NoLease /\ joining[n] = NoLease
            /\ granted < MaxLease
            /\ granted' = granted + 1
            /\ alive' = alive \cup {granted'}
            /\ joining' = [joining EXCEPT ![n] = granted']
            /\ UNCHANGED <<key, lease, running, watch, event, listed, view, closes>>

\* A possible bug: a key that is there is left as it is.
AttachIfAbsent(n) ==
  /\ joining[n] \in alive
  /\ key' = [key EXCEPT ![n] = IF @ = NoLease THEN joining[n] ELSE @]
  /\ Notify
  /\ joining' = [joining EXCEPT ![n] = NoLease]
  /\ lease' = [lease EXCEPT ![n] = joining[n]]
  /\ watch' = [watch EXCEPT ![n] = IF @ = "off" THEN "open" ELSE @]
  /\ UNCHANGED <<granted, alive, running, listed, view, closes>>

\* The key is attached to that lease and to no other, and the lease kept alive from
\* then on; after Join, main goes on to WatchMembers.  Or etcd has attached it and the
\* answer is lost, or the renewals do not begin: stayRegistered tries again.
Attach(n) ==
  /\ joining[n] \in alive
  /\ key' = [key EXCEPT ![n] = joining[n]]
  /\ Notify
  /\ joining' = [joining EXCEPT ![n] = NoLease]
  /\ \/ /\ lease' = [lease EXCEPT ![n] = joining[n]]
        /\ watch' = [watch EXCEPT ![n] = IF @ = "off" THEN "open" ELSE @]
     \/ /\ watch[n] # "off"
        /\ UNCHANGED <<lease, watch>>
  /\ UNCHANGED <<granted, alive, running, listed, view, closes>>

\* etcd cannot be reached, or the new lease has run out already.
AttachFails(n) ==
  /\ joining[n] # NoLease
  /\ watch[n] # "off"
  /\ joining' = [joining EXCEPT ![n] = NoLease]
  /\ UNCHANGED <<key, lease, granted, alive, running, watch, event, listed, view, closes>>

\* The renewals end: the lease has run out, or the node has not heard from etcd for so
\* long that it takes it to have.
RenewalsEnd(n) ==
  /\ lease[n] # NoLease
  /\ lease' = [lease EXCEPT ![n] = NoLease]
  /\ UNCHANGED <<key, joining, granted, alive, running, watch, event, listed, view, closes>>

\* WatchMembers opens its watch before anything is listed.
OpenWatch(n) == /\ watch[n] = "open"
                /\ watch' = [watch EXCEPT ![n] = "list"]
                /\ event' = [event EXCEPT ![n] = FALSE]
                /\ UNCHANGED <<leases, running, listed, view, closes>>

\* The process ends, as it also does when Join fails.
Crash(n) == /\ n \in running
            /\ running' = running \ {n}
            /\ lease' = [lease EXCEPT ![n] = NoLease]
            /\ joining' = [joining EXCEPT ![n] = NoLease]
            /\ watch' = [watch EXCEPT ![n] = "off"]
            /\ event' = [event EXCEPT ![n] = FALSE]
            /\ listed' = [listed EXCEPT ![n] = {}]
            /\ view' = [view EXCEPT ![n] = {}]
            /\ UNCHANGED <<key, granted, alive, closes>>

\* A lease runs out: one nobody renews, or one whose node is too busy to.  etcd
\* deletes the keys still attached to it.
LeaseRunsOut(l) ==
  /\ l \in alive
  /\ alive' = alive \ {l}
  /\ key' = [n \in Node |-> IF key[n] = l THEN NoLease ELSE key[n]]
  /\ IF key' = key THEN UNCHANGED event ELSE Notify
  /\ UNCHANGED <<lease, joining, granted, running, watch, listed, view, closes>>

-----------------------------------------------------------------------------
\* WatchMembers, one turn: list, send, and wait for an event.
List(n) == /\ watch[n] = "list"
           /\ listed' = [listed EXCEPT ![n] = Members]
           /\ watch' = [watch EXCEPT ![n] = "send"]
           /\ UNCHANGED <<leases, running, event, view, closes>>

\* SetMembers: a node always counts itself.
Send(n) == /\ watch[n] = "send"
           /\ view' = [view EXCEPT ![n] = listed[n] \cup {n}]
           /\ watch' = [watch EXCEPT ![n] = "wait"]
           /\ UNCHANGED <<leases, running, event, listed, closes>>

\* A possible bug: the loop gives up when it wakes.
WakeOnce(n) == /\ watch[n] = "wait"
               /\ event[n]
               /\ watch' = [watch EXCEPT ![n] = "done"]
               /\ UNCHANGED <<leases, running, event, listed, view, closes>>

Wake(n) == /\ watch[n] = "wait"
           /\ event[n]
           /\ event' = [event EXCEPT ![n] = FALSE]
           /\ watch' = [watch EXCEPT ![n] = "list"]
           /\ UNCHANGED <<leases, running, listed, view, closes>>

\* etcd ends the watch, as it does once the revision the watch would resume from has
\* been compacted: the loop sees the channel closed, returns, and nothing in
\* the process starts it again.
CloseWatch(n) == /\ closes < MaxCloses
                 /\ watch[n] = "wait"
                 /\ ~event[n]
                 /\ closes' = closes + 1
                 /\ watch' = [watch EXCEPT ![n] = "closed"]
                 /\ UNCHANGED <<leases, running, event, listed, view>>

Next == \/ \E n \in Node : \/ Start(n) \/ Grant(n) \/ Attach(n) \/ AttachFails(n)
                           \/ RenewalsEnd(n) \/ OpenWatch(n) \/ Crash(n)
                           \/ List(n) \/ Send(n) \/ Wake(n) \/ CloseWatch(n)
        \/ \E l \in 1..MaxLease : LeaseRunsOut(l)

\* A running node's loops run; a lease that nothing renews runs out.
Fairness ==
  /\ \A n \in Node : /\ WF_vars(Grant(n)) /\ WF_vars(Attach(n)) /\ WF_vars(OpenWatch(n))
                     /\ WF_vars(List(n)) /\ WF_vars(Send(n)) /\ WF_vars(Wake(n))
  /\ \A l \in 1..MaxLease :
       WF_vars(LeaseRunsOut(l) /\ \A n \in Node : lease[n] # l /\ joining[n] # l)

Spec == Init /\ [][Next]_vars /\ Fairness

-----------------------------------------------------------------------------
\* The keys, leases, loops and views have their types, and a lease was granted
\* before it is alive.
TypeOK == /\ key \in [Node -> 1..MaxLease \cup {NoLease}]
          /\ lease \in [Node -> 1..MaxLease \cup {NoLease}]
          /\ joining \in [Node -> 1..MaxLease \cup {NoLease}]
          /\ granted \in 0..MaxLease
          /\ alive \subseteq 1..granted
          /\ running \subseteq Node
          /\ watch \in [Node -> {"off", "open", "list", "send", "wait", "closed"}]
          /\ event \in [Node -> BOOLEAN]
          /\ listed \in [Node -> SUBSET Node]
          /\ view \in [Node -> SUBSET Node]
          /\ closes \in 0..MaxCloses

\* A node that waits with no event to come has placed its data on the membership as
\* it is: no change falls between the watch, the listing and the wait.
NoMissedChange ==
  \A n \in Node : watch[n] = "wait" /\ ~event[n] => view[n] = Members \cup {n}

\* A node that runs and renews a lease that is alive is a member by it: neither the
\* lease of its life before a restart, nor one it gave up on or of an attempt to register
\* that failed half-way, takes its key when it runs out.
OldLeaseHarmless ==
  \A n \in running : lease[n] \in alive => key[n] = lease[n]

\* WatchMembers sends "a fresh copy every time it changes": once the changes stop,
\* the view of every node that has joined, and whose watch etcd has not ended, is the
\* membership.
FollowsMembers ==
  <>[](\A n \in running : watch[n] \notin {"off", "closed"} => view[n] = Members \cup {n})
=============================================================================
