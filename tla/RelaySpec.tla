----------------------------- MODULE RelaySpec -----------------------------
(***************************************************************************)
(* What the change-feed relay promises downstream consumers (spec 1, 5 and *)
(* 7), stated without goroutines, channels or queues: the users collection *)
(* and its feed change as in UserStore, and from time to time one event is *)
(* published for a feed record later than every record already published. *)
(* The event names the mutated user (or nobody, when neither image could   *)
(* be decoded) and classifies the operation tag.  Records may be skipped:  *)
(* the relay is at-most-once (a failed enqueue or a cancellation loses an  *)
(* event), but it never repeats, reorders or invents one.                  *)
(***************************************************************************)
EXTENDS UserStore

VARIABLE published   \* the events handed to the broker client, in order

specVars == <<store, oplog, published>>

\* spec 4.1: insert->CREATE, update->UPDATE, delete->DELETE, anything
\* else->UNSPECIFIED.
Classify(tag) ==
  IF tag = "insert" THEN "CREATE"
  ELSE IF tag = "update" THEN "UPDATE"
  ELSE IF tag = "delete" THEN "DELETE"
  ELSE "UNSPECIFIED"

\* A published event as the consumers can tell it apart: the record it is
\* about, the message key and the operation.
PublishedEvent(m, who) ==
  [mut |-> m, userId |-> who, opType |-> Classify(oplog[m].op)]

Init == StoreInit /\ published = <<>>

\* Publish the event of feed record m, which comes after every record
\* already published.
Publish ==
  /\ \E m \in 1..Len(oplog) :
       /\ \A i \in DOMAIN published : published[i].mut < m
       /\ \E who \in {oplog[m].id, ""} :
            published' = Append(published, PublishedEvent(m, who))
  /\ UNCHANGED storeVars

Next == (StoreNext /\ UNCHANGED published) \/ Publish

Spec == Init /\ [][Next]_specVars

=============================================================================
