---------------------------- MODULE ObjectStore ----------------------------
(***************************************************************************)
(* What the store promises its clients of whole objects, whatever nodes,   *)
(* chunks and passes it is made of: each key is a register.  A put takes   *)
(* effect at most once, at one moment between its request and its answer;  *)
(* one that is acknowledged has taken effect; one that fails may have, and *)
(* never will later.  An object stays what it is until it is put again or  *)
(* deleted.                                                                *)
(***************************************************************************)
EXTENDS FiniteSets

CONSTANTS Keys, Puts, Nothing

VARIABLES object,   \* per key, the put whose object a read returns, or Nothing
          target,   \* per put, its key
          status    \* per put, "idle", "open", "applied", "acked" or "failed"

storeVars == <<object, target, status>>

Init == /\ object = [k \in Keys |-> Nothing]
        /\ target \in [Puts -> Keys \cup {0}]
        /\ status = [p \in Puts |-> "idle"]

\* A client sends a put.
Begin(p, k) ==
  /\ status[p] = "idle"
  /\ status' = [status EXCEPT ![p] = "open"]
  /\ target' = [target EXCEPT ![p] = k]
  /\ UNCHANGED object

\* It takes effect, and its answer is still to come or is lost.
Apply(p) ==
  /\ status[p] = "open"
  /\ object' = [object EXCEPT ![target[p]] = p]
  /\ \E next \in {"applied", "failed"} : status' = [status EXCEPT ![p] = next]
  /\ UNCHANGED target

\* It is acknowledged.
Acknowledge(p) ==
  /\ status[p] = "applied"
  /\ status' = [status EXCEPT ![p] = "acked"]
  /\ UNCHANGED <<object, target>>

\* Puts fail, several at once when the node they were sent to dies.
Fail(some) ==
  /\ \A p \in some : status[p] \in {"open", "applied"}
  /\ status' = [p \in Puts |-> IF p \in some THEN "failed" ELSE status[p]]
  /\ UNCHANGED <<object, target>>

Remove(k) ==
  /\ object' = [object EXCEPT ![k] = Nothing]
  /\ UNCHANGED <<target, status>>

\* What goes on inside the store is none of its clients' business.
Inside == UNCHANGED storeVars

Next == \/ Inside
        \/ \E p \in Puts : (\E k \in Keys : Begin(p, k)) \/ Apply(p) \/ Acknowledge(p)
        \/ \E some \in SUBSET Puts : Fail(some)
        \/ \E k \in Keys : Remove(k)

Spec == Init /\ [][Next]_storeVars
=============================================================================
