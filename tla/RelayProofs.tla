---------------------------- MODULE RelayProofs ----------------------------
(***************************************************************************)
(* Proofs about Relay, for every value of the constants that satisfies    *)
(* StoreAssumption, RelayAssumption and NoEventAssumption.                 *)
(***************************************************************************)
EXTENDS Relay, TLAPS, SequenceTheorems

(***************************************************************************)
(* The type invariant is not inductive by itself: SendMessage appends      *)
(* inflight to the queue and Handoff copies held into inflight, so they   *)
(* need to know that the loop only sends, and the watcher only pushes,     *)
(* with an event in hand.                                                  *)
(***************************************************************************)
TypeInv ==
  /\ TypeOK
  /\ lpc = "send" => inflight \in Event
  /\ wpc = "push" => held \in Event

LEMMA DecodeType ==
  ASSUME NEW img \in MaybeDoc
  PROVE  Decode(img) \subseteq MaybeDoc
BY DEF Decode, MaybeDoc

LEMMA UserIdType ==
  ASSUME NEW b \in MaybeDoc, NEW a \in MaybeDoc
  PROVE  determineUserID(b, a) \in Users \cup {""}
BY DEF determineUserID, MaybeDoc, Doc

LEMMA OpTypeType ==
  ASSUME NEW t \in OpTag
  PROVE  operationToEnum(t) \in OperationType
BY DEF operationToEnum, OpTag, OperationType

LEMMA FullDocumentType ==
  ASSUME StoreTypeOK, NEW c \in Change
  PROVE  FullDocument(c) \in MaybeDoc
BY DEF FullDocument, FindById, StoreTypeOK, Change, MaybeDoc

\* The event processNextChange builds from a record is an Event.
LEMMA BuiltEventType ==
  ASSUME StoreTypeOK, NEW c \in Change, NEW k \in Nat \ {0},
         NEW a \in Decode(FullDocument(c)), NEW b \in Decode(c.pre)
  PROVE  [mut |-> k, userId |-> determineUserID(b, a), before |-> b,
          after |-> a, opType |-> operationToEnum(c.op)] \in Event
<1>1. a \in MaybeDoc /\ b \in MaybeDoc
  BY FullDocumentType, DecodeType DEF Change
<1>2. determineUserID(b, a) \in Users \cup {""}
  BY <1>1, UserIdType
<1>3. operationToEnum(c.op) \in OperationType
  BY OpTypeType DEF Change
<1>. QED
  BY <1>1, <1>2, <1>3 DEF Event

\* The repository's writes, and a drop of the collection, keep the store
\* typed.
LEMMA WriteType ==
  ASSUME StoreTypeOK, StoreNext
  PROVE  StoreTypeOK'
<1>1. ASSUME NEW u \in Users,
             CreateUser(u) \/ UpdateUser(u) \/ DeleteUserById(u)
      PROVE  StoreTypeOK'
  <2>1. NextDoc(u) \in MaybeDoc /\ NoDoc \in MaybeDoc
    BY DEF NextDoc, MaybeDoc, Doc, StoreTypeOK
  <2>5. ASSUME NEW op \in OpTag, NEW d \in MaybeDoc, Commit(op, u, d)
        PROVE  StoreTypeOK'
    <3>1. [op |-> op, id |-> u, pre |-> store[u], post |-> d] \in Change
      BY DEF StoreTypeOK, Change
    <3>2. oplog' \in Seq(Change) /\ Len(oplog') <= MaxMutations
      BY <2>5, <3>1, StoreAssumption DEF Commit, StoreTypeOK
    <3>3. store' \in [Users -> MaybeDoc]
      BY <2>5 DEF Commit, StoreTypeOK
    <3>. QED
      BY <3>2, <3>3 DEF StoreTypeOK
  <2>2. CASE CreateUser(u)
    BY <2>1, <2>2, <2>5 DEF CreateUser, OpTag
  <2>3. CASE UpdateUser(u)
    BY <2>1, <2>3, <2>5 DEF UpdateUser, OpTag
  <2>4. CASE DeleteUserById(u)
    BY <2>1, <2>4, <2>5 DEF DeleteUserById, OpTag
  <2>. QED
    BY <1>1, <2>2, <2>3, <2>4
<1>2. CASE DropCollection
  <2>1. store' \in [Users -> MaybeDoc]
    BY <1>2 DEF DropCollection, MaybeDoc
  <2>3. DropRecord("drop") \in Change /\ DropRecord("invalidate") \in Change
    BY DEF DropRecord, Change, OpTag, MaybeDoc
  <2>4. /\ oplog' = Append(Append(oplog, DropRecord("drop")),
                           DropRecord("invalidate"))
        /\ Len(oplog) + 2 <= MaxMutations
    BY <1>2 DEF DropCollection
  <2>2. oplog' \in Seq(Change) /\ Len(oplog') <= MaxMutations
    BY <2>3, <2>4 DEF StoreTypeOK
  <2>. QED
    BY <2>1, <2>2 DEF StoreTypeOK
<1>. QED
  BY <1>1, <1>2 DEF StoreNext

\* A function on 1..n is a sequence of length n.
LEMMA FunIsSeq ==
  ASSUME NEW S, NEW n \in Nat, NEW f \in [1..n -> S]
  PROVE  f \in Seq(S) /\ Len(f) = n
<1>1. f \in Seq(S)
  BY SeqDef, Zenon
<1>2. DOMAIN f = 1..Len(f) /\ Len(f) \in Nat
  BY <1>1, LenProperties
<1>. QED
  BY <1>1, <1>2

\* Removing the i-th element of a sequence of events leaves a sequence of
\* events one shorter.
LEMMA WithoutType ==
  ASSUME NEW q \in Seq(Event), NEW i \in 1..Len(q)
  PROVE  Without(q, i) \in Seq(Event) /\ Len(Without(q, i)) = Len(q) - 1
<1>1. Len(q) - 1 \in Nat
  OBVIOUS
<1>2. Without(q, i) \in [1..(Len(q) - 1) -> Event]
  BY DEF Without
<1>. QED
  BY <1>1, <1>2, FunIsSeq

LEMMA InitTypeInv == Init => TypeInv
<1> SUFFICES ASSUME Init PROVE TypeInv
  OBVIOUS
<1>1. StoreTypeOK
  <2>1. store \in [Users -> MaybeDoc]
    BY DEF Init, StoreInit, MaybeDoc
  <2>2. oplog \in Seq(Change) /\ Len(oplog) <= MaxMutations
    BY StoreAssumption DEF Init, StoreInit
  <2>. QED
    BY <2>1, <2>2 DEF StoreTypeOK
<1>2. RelayTypeOK
  <2>1. topic \in [Partitions -> Seq(Event)]
    BY DEF Init, RelayInit
  <2>2. start \in 1..MaxMutations + 1 /\ cursor \in 1..MaxMutations + 1
    BY StoreAssumption DEF Init, RelayInit
  <2>3. wpc \in WatcherPC /\ lpc \in LoopPC
    BY DEF Init, RelayInit, WatcherPC, Closed, LoopPC
  <2>4. /\ held \in Event \cup {NoEvent} /\ inflight \in Event \cup {NoEvent}
        /\ queue \in Seq(Event) /\ sent \in Seq(Event)
    BY DEF Init, RelayInit
  <2>5. /\ ctxDone \in BOOLEAN /\ reports \in Nat /\ drainers \in Nat
        /\ dropped \subseteq Nat \ {0} /\ lostOnCancel \subseteq Nat \ {0}
        /\ pushedAfterCancel \in Nat
    BY DEF Init, RelayInit
  <2>. QED
    BY <2>1, <2>2, <2>3, <2>4, <2>5 DEF RelayTypeOK
<1>. QED
  BY <1>1, <1>2 DEF Init, RelayInit, TypeInv, TypeOK

LEMMA NextTypeInv == TypeInv /\ [Next]_vars => TypeInv'
<1> SUFFICES ASSUME TypeInv, [Next]_vars PROVE TypeInv'
  OBVIOUS
<1> USE StoreAssumption, RelayAssumption, NoEventAssumption
<1> USE DEF TypeInv, TypeOK, RelayTypeOK, StoreTypeOK
<1>1. CASE Write
  BY <1>1, WriteType DEF Write, relayVars
<1>2. CASE Cancel
  BY <1>2 DEF Cancel, storeVars
<1>3. CASE ChangeStreamError
  BY <1>3 DEF ChangeStreamError, storeVars, WatcherPC, Closed
<1>4. CASE StartWatchingUsers
  BY <1>4 DEF StartWatchingUsers, storeVars, WatcherPC, Closed, LoopPC
<1>5. CASE openChangeStream
  BY <1>5 DEF openChangeStream, storeVars, WatcherPC, Closed, StoreTypeOK
<1>6. CASE openChangeStreamFails
  BY <1>6 DEF openChangeStreamFails, storeVars, WatcherPC, Closed
<1>7. CASE WatchLoop
  BY <1>7 DEF WatchLoop, storeVars, WatcherPC, Closed
<1>8. CASE processNextChange
  <2>1. cursor \in 1..Len(oplog) /\ oplog[cursor] \in Change
    BY <1>8 DEF processNextChange, StoreTypeOK
  <2>2. held' \in Event
    BY <1>8, <2>1, BuiltEventType DEF processNextChange, StoreTypeOK
  <2>3. cursor' \in 1..MaxMutations + 1
    BY <1>8, <2>1 DEF processNextChange, StoreTypeOK
  <2>. QED
    BY <1>8, <2>2, <2>3 DEF processNextChange, storeVars, WatcherPC, Closed
<1>9. CASE processNextChangeFails
  BY <1>9 DEF processNextChangeFails, storeVars, WatcherPC, Closed
<1>10. CASE Handoff
  BY <1>10 DEF Handoff, storeVars, WatcherPC, Closed, LoopPC
<1>11. CASE PushCancelled
  BY <1>11 DEF PushCancelled, storeVars, WatcherPC, Closed, Muts, Event
<1>12. CASE DispatchExit
  BY <1>12 DEF DispatchExit, storeVars, LoopPC
<1>13. CASE SendMessage
  BY <1>13 DEF SendMessage, storeVars, LoopPC
<1>14. CASE SendMessageFails
  BY <1>14 DEF SendMessageFails, storeVars, LoopPC, Muts, Event
<1>15. CASE Deliver
  <2>1. PICK i \in 1..Len(queue) :
          /\ \/ \E p \in PartitionsFor(queue[i].userId) :
                   topic' = [topic EXCEPT ![p] = Append(@, queue[i])]
             \/ UNCHANGED topic
          /\ queue' = Without(queue, i)
    BY <1>15 DEF Deliver
  <2>2. queue[i] \in Event /\ queue \in Seq(Event)
    BY <2>1 DEF TypeInv, TypeOK, RelayTypeOK
  <2>3. PartitionsFor(queue[i].userId) \subseteq Partitions
    BY <2>2 DEF PartitionsFor, Event
  <2>4. topic' \in [Partitions -> Seq(Event)]
    <3>1. CASE UNCHANGED topic
      BY <3>1 DEF TypeInv, TypeOK, RelayTypeOK
    <3>2. CASE \E p \in PartitionsFor(queue[i].userId) :
                 topic' = [topic EXCEPT ![p] = Append(@, queue[i])]
      BY <3>2, <2>2, <2>3 DEF TypeInv, TypeOK, RelayTypeOK
    <3>. QED
      BY <2>1, <3>1, <3>2
  <2>5. queue' \in Seq(Event) /\ Len(queue') < Len(queue)
    BY <2>1, <2>2, WithoutType
  <2>. QED
    BY <1>15, <2>4, <2>5 DEF Deliver, storeVars
<1>16. CASE DrainReport
  BY <1>16 DEF DrainReport, storeVars
<1>17. CASE UNCHANGED vars
  BY <1>17 DEF vars, storeVars, relayVars, StoreTypeOK
<1>18. CASE NextOnClosedCursor
  BY <1>18 DEF NextOnClosedCursor, storeVars, WatcherPC, Closed
<1>. QED
  BY <1>1, <1>2, <1>3, <1>4, <1>5, <1>6, <1>7, <1>8, <1>9, <1>10, <1>11,
     <1>12, <1>13, <1>14, <1>15, <1>16, <1>17, <1>18
  DEF Next, WatcherStep, DispatchStep

\* Type correctness: every reachable state of the relay is well typed.
THEOREM TypeCorrect == Spec => []TypeOK
<1>1. Init => TypeInv
  BY InitTypeInv
<1>2. TypeInv /\ [Next]_vars => TypeInv'
  BY NextTypeInv
<1>3. TypeInv => TypeOK
  BY DEF TypeInv
<1>. QED
  BY <1>1, <1>2, <1>3, PTL DEF Spec

(***************************************************************************)
(* FeedOrder.  The events Produce accepted, the one the dispatch loop     *)
(* holds and the one the watcher is pushing come from ever later feed     *)
(* positions, all before the cursor.  The first conjuncts say that before *)
(* the stream is opened nothing has been read: openChangeStream moves the *)
(* cursor to the end of the feed, which may be anywhere.                   *)
(***************************************************************************)
OrderInv ==
  /\ TypeInv
  /\ lpc = "idle" => wpc = "idle"
  /\ wpc \in {"idle", "open"} =>
       /\ sent = <<>> /\ held = NoEvent /\ inflight = NoEvent
       /\ lpc # "send"
  /\ FeedOrder
  /\ \A i \in DOMAIN sent : sent[i].mut < cursor
  /\ inflight # NoEvent =>
       /\ inflight.mut < cursor
       /\ \A i \in DOMAIN sent : sent[i].mut < inflight.mut
  /\ held # NoEvent =>
       /\ held.mut < cursor
       /\ \A i \in DOMAIN sent : sent[i].mut < held.mut
       /\ inflight # NoEvent => inflight.mut < held.mut

\* Every event of a sequence of events carries a feed position.
LEMMA EventSeqMuts ==
  ASSUME NEW s \in Seq(Event)
  PROVE  \A i \in DOMAIN s : s[i].mut \in Nat
<1> TAKE i \in DOMAIN s
<1>1. s[i] \in Event
  OBVIOUS
<1>. QED
  BY <1>1 DEF Event

LEMMA InitOrderInv == Init => OrderInv
<1> SUFFICES ASSUME Init PROVE OrderInv
  OBVIOUS
<1>1. TypeInv
  BY InitTypeInv
<1>. QED
  BY <1>1 DEF Init, RelayInit, OrderInv, FeedOrder

LEMMA NextOrderInv == OrderInv /\ [Next]_vars => OrderInv'
<1> SUFFICES ASSUME OrderInv, [Next]_vars PROVE OrderInv'
  OBVIOUS
<1> USE NoEventAssumption
<1>0. TypeInv'
  BY NextTypeInv DEF OrderInv
<1> USE <1>0 DEF OrderInv, FeedOrder
<1>1. CASE Write
  BY <1>1 DEF Write, relayVars
<1>2. CASE Cancel
  BY <1>2 DEF Cancel
<1>3. CASE ChangeStreamError
  BY <1>3 DEF ChangeStreamError
<1>4. CASE StartWatchingUsers
  BY <1>4 DEF StartWatchingUsers
<1>5. CASE openChangeStream
  BY <1>5 DEF openChangeStream
<1>6. CASE openChangeStreamFails
  BY <1>6 DEF openChangeStreamFails
<1>7. CASE WatchLoop
  BY <1>7 DEF WatchLoop
<1>8. CASE processNextChange
  <2>1. held' \in Event /\ held'.mut = cursor /\ cursor' = cursor + 1
    BY <1>8 DEF processNextChange, TypeInv
  <2>2. /\ cursor \in Nat
        /\ inflight # NoEvent => inflight.mut \in Nat
        /\ \A i \in DOMAIN sent : sent[i].mut \in Nat
    <3>1. cursor \in Nat
      BY StoreAssumption DEF TypeInv, TypeOK, RelayTypeOK
    <3>2. inflight # NoEvent => inflight.mut \in Nat
      BY DEF TypeInv, TypeOK, RelayTypeOK, Event
    <3>3. \A i \in DOMAIN sent : sent[i].mut \in Nat
      BY EventSeqMuts DEF TypeInv, TypeOK, RelayTypeOK
    <3>. QED
      BY <3>1, <3>2, <3>3
  <2>3. UNCHANGED <<sent, inflight, lpc>> /\ wpc = "next" /\ wpc' = "push"
    BY <1>8 DEF processNextChange
  <2>4. held'.mut < cursor'
    BY <2>1, <2>2
  <2>5. \A i \in DOMAIN sent' : sent'[i].mut < held'.mut /\ sent'[i].mut < cursor'
    BY <2>1, <2>2, <2>3
  <2>6. inflight' # NoEvent => inflight'.mut < held'.mut /\ inflight'.mut < cursor'
    BY <2>1, <2>2, <2>3
  <2>7. FeedOrder'
    BY <2>3
  <2>. QED
    BY <1>0, <2>1, <2>3, <2>4, <2>5, <2>6, <2>7
<1>9. CASE processNextChangeFails
  BY <1>9 DEF processNextChangeFails
<1>10. CASE Handoff
  BY <1>10 DEF Handoff
<1>11. CASE PushCancelled
  BY <1>11 DEF PushCancelled
<1>12. CASE DispatchExit
  BY <1>12 DEF DispatchExit
<1>13. CASE SendMessage
  <2>1. inflight \in Event /\ sent \in Seq(Event)
    BY <1>13 DEF SendMessage, TypeInv, TypeOK, RelayTypeOK
  <2>2. sent' = Append(sent, inflight) /\ inflight' = NoEvent
        /\ UNCHANGED <<cursor, held, wpc>>
    BY <1>13 DEF SendMessage
  <2>3. \A i \in DOMAIN sent' : sent'[i].mut < cursor'
    BY <2>1, <2>2
  <2>4. FeedOrder'
    BY <2>1, <2>2
  <2>5. held' # NoEvent => \A i \in DOMAIN sent' : sent'[i].mut < held'.mut
    BY <2>1, <2>2
  <2>6. wpc' \notin {"idle", "open"}
    BY <1>13, <2>2 DEF SendMessage
  <2>. QED
    BY <1>13, <2>2, <2>3, <2>4, <2>5, <2>6 DEF SendMessage
<1>14. CASE SendMessageFails
  BY <1>14 DEF SendMessageFails
<1>15. CASE Deliver
  BY <1>15 DEF Deliver
<1>16. CASE DrainReport
  BY <1>16 DEF DrainReport
<1>17. CASE UNCHANGED vars
  BY <1>17 DEF vars, relayVars
<1>18. CASE NextOnClosedCursor
  BY <1>18 DEF NextOnClosedCursor
<1>. QED
  BY <1>1, <1>2, <1>3, <1>4, <1>5, <1>6, <1>7, <1>8, <1>9, <1>10, <1>11,
     <1>12, <1>13, <1>14, <1>15, <1>16, <1>17, <1>18
  DEF Next, WatcherStep, DispatchStep

=============================================================================
