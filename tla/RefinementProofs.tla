-------------------------- MODULE RefinementProofs --------------------------
(***************************************************************************)
(* Relay implements RelaySpec under the refinement mapping PublishedView,  *)
(* for every value of the constants.                                       *)
(*                                                                         *)
(* Only SendMessage changes what is published; it publishes the event the  *)
(* dispatch loop holds.  That event must come after every published one   *)
(* (OrderInv of RelayProofs) and must describe its feed record: the record *)
(* is in the feed, the operation is classified from the record's tag, and  *)
(* the key is the record's user or empty.  Describing is established when  *)
(* processNextChange builds the event and kept while the event travels     *)
(* through held and inflight, because the feed only grows.  That the key   *)
(* is the record's user rests on two facts about the collection: a stored  *)
(* document's _id is its key in the store (StoreIds), and the images of a  *)
(* record carry the record's _id (FeedIds).                                *)
(***************************************************************************)
EXTENDS RelayProofs, SequenceTheorems

StoreIds == \A u \in Users : store[u] # NoDoc => store[u].id = u

\* The images of a feed record carry the record's _id.
RecordIds(r) ==
  /\ r.pre # NoDoc => r.pre.id = r.id
  /\ r.post # NoDoc => r.post.id = r.id

FeedIdsOf(s) == \A k \in 1..Len(s) : RecordIds(s[k])

FeedIds == FeedIdsOf(oplog)

\* Event ev is about record ev.mut of feed f, as RelaySpec's Publish
\* requires.
DescribesIn(ev, f) ==
  /\ ev.mut \in 1..Len(f)
  /\ ev.opType = operationToEnum(f[ev.mut].op)
  /\ ev.userId \in {f[ev.mut].id, ""}

Describes(ev) == DescribesIn(ev, oplog)

RefInv ==
  /\ OrderInv
  /\ StoreIds
  /\ FeedIds
  /\ held # NoEvent => Describes(held)
  /\ inflight # NoEvent => Describes(inflight)

\* Feed g extends feed f.
Extends(f, g) ==
  /\ Len(f) <= Len(g)
  /\ \A k \in 1..Len(f) : g[k] = f[k]

\* The feed only grows: every write appends to it.
FeedGrows == Extends(oplog, oplog')

LEMMA ClassifyIsOperationToEnum ==
  ASSUME NEW t
  PROVE  Abs!Classify(t) = operationToEnum(t)
BY DEF Abs!Classify, operationToEnum

\* Appending a record whose images carry its _id keeps FeedIdsOf.
LEMMA AppendIds ==
  ASSUME NEW S, NEW sq \in Seq(S), NEW r \in S, FeedIdsOf(sq), RecordIds(r)
  PROVE  FeedIdsOf(Append(sq, r))
<1> SUFFICES ASSUME NEW k \in 1..Len(sq) + 1
             PROVE  RecordIds(Append(sq, r)[k])
  BY DEF FeedIdsOf
<1>1. CASE k <= Len(sq)
  <2>1. Append(sq, r)[k] = sq[k] /\ k \in 1..Len(sq)
    BY <1>1
  <2>. QED
    BY <2>1 DEF FeedIdsOf
<1>2. CASE k = Len(sq) + 1
  BY <1>2
<1>. QED
  BY <1>1, <1>2

\* A repository write or a drop keeps the _id facts and only appends.
LEMMA StoreStep ==
  ASSUME StoreTypeOK, StoreIds, FeedIds, StoreNext
  PROVE  StoreIds' /\ FeedIds' /\ FeedGrows
<1>1. ASSUME NEW u \in Users, NEW op, NEW d,
             d # NoDoc => d.id = u, Commit(op, u, d)
      PROVE  StoreIds' /\ FeedIds' /\ FeedGrows
  <2>1. store' = [store EXCEPT ![u] = d]
        /\ oplog' = Append(oplog, [op |-> op, id |-> u, pre |-> store[u],
                                   post |-> d])
    BY <1>1 DEF Commit
  <2>2. store[u] # NoDoc => store[u].id = u
    BY DEF StoreIds
  <2>3. StoreIds'
    BY <1>1, <2>1 DEF StoreIds, StoreTypeOK
  <2>4. FeedIds'
    <3> DEFINE r == [op |-> op, id |-> u, pre |-> store[u], post |-> d]
    <3>1. RecordIds(r)
      BY <1>1, <2>2 DEF RecordIds
    <3>2. oplog \in Seq(Change \cup {r}) /\ r \in Change \cup {r}
      BY DEF StoreTypeOK
    <3>. QED
      BY <2>1, <3>1, <3>2, AppendIds DEF FeedIds
  <2>5. FeedGrows
    BY <2>1 DEF FeedGrows, Extends, StoreTypeOK
  <2>. QED
    BY <2>3, <2>4, <2>5
<1>2. ASSUME NEW u \in Users,
             CreateUser(u) \/ UpdateUser(u) \/ DeleteUserById(u)
      PROVE  StoreIds' /\ FeedIds' /\ FeedGrows
  <2>1. NextDoc(u).id = u /\ NextDoc(u) # NoDoc
    BY StoreAssumption DEF NextDoc, Doc, StoreTypeOK
  <2>. QED
    BY <1>1, <1>2, <2>1 DEF CreateUser, UpdateUser, DeleteUserById
<1>3. CASE DropCollection
  <2>1. store' = [u \in Users |-> NoDoc]
        /\ oplog' = Append(Append(oplog, DropRecord("drop")),
                           DropRecord("invalidate"))
    BY <1>3 DEF DropCollection
  <2>2. StoreIds'
    BY <2>1 DEF StoreIds
  <2>3. FeedIds'
    <3>1. DropRecord("drop") \in Change /\ DropRecord("invalidate") \in Change
      BY DEF DropRecord, Change, OpTag, MaybeDoc
    <3>2. RecordIds(DropRecord("drop")) /\ RecordIds(DropRecord("invalidate"))
      BY DEF RecordIds, DropRecord
    <3>3. Append(oplog, DropRecord("drop")) \in Seq(Change)
          /\ FeedIdsOf(Append(oplog, DropRecord("drop")))
      BY <3>1, <3>2, AppendIds DEF StoreTypeOK, FeedIds
    <3>. QED
      BY <2>1, <3>1, <3>2, <3>3, AppendIds DEF FeedIds
  <2>4. FeedGrows
    <3> DEFINE o1 == Append(oplog, DropRecord("drop"))
    <3>1. Len(o1) = Len(oplog) + 1 /\ \A k \in 1..Len(oplog) : o1[k] = oplog[k]
      BY DEF StoreTypeOK
    <3>2. o1 \in Seq(Change \cup {DropRecord("drop")})
      BY DEF StoreTypeOK
    <3>3. Len(oplog') = Len(o1) + 1 /\ \A k \in 1..Len(o1) : oplog'[k] = o1[k]
      BY <2>1, <3>2
    <3>. QED
      BY <3>1, <3>3 DEF FeedGrows, Extends
  <2>. QED
    BY <2>2, <2>3, <2>4
<1>. QED
  BY <1>2, <1>3 DEF StoreNext

\* Describing a record survives the feed growing.
LEMMA DescribesStable ==
  ASSUME NEW ev, NEW f \in Seq(Change), NEW g \in Seq(Change), Extends(f, g),
         DescribesIn(ev, f)
  PROVE  DescribesIn(ev, g)
<1>1. ev.mut \in 1..Len(f)
  BY DEF DescribesIn
<1>2. ev.mut \in 1..Len(g)
  BY <1>1 DEF Extends
<1>3. g[ev.mut] = f[ev.mut]
  BY <1>1 DEF Extends
<1>. QED
  BY <1>2, <1>3 DEF DescribesIn

\* The event processNextChange builds from the record at the cursor
\* describes that record.
LEMMA BuiltDescribes ==
  ASSUME StoreTypeOK, StoreIds, FeedIds, NEW k \in 1..Len(oplog),
         NEW a \in Decode(FullDocument(oplog[k])),
         NEW b \in Decode(oplog[k].pre)
  PROVE  Describes([mut |-> k, userId |-> determineUserID(b, a),
                    before |-> b, after |-> a,
                    opType |-> operationToEnum(oplog[k].op)])
<1> DEFINE c == oplog[k]
<1>1. c \in Change
  BY DEF StoreTypeOK
<1>2. b # NoDoc => b = c.pre /\ b.id = c.id
  BY <1>1 DEF Decode, FeedIds, FeedIdsOf, RecordIds
<1>3. a # NoDoc => a.id = c.id
  <2>1. a # NoDoc => a = FullDocument(c)
    BY DEF Decode
  <2>2. CASE c.op = "insert"
    BY <2>1, <2>2 DEF FullDocument, FeedIds, FeedIdsOf, RecordIds
  <2>3. CASE c.op = "update"
    BY <2>1, <2>3 DEF FullDocument, FindById, StoreIds
  <2>4. CASE c.op # "insert" /\ c.op # "update"
    BY <2>1, <2>4 DEF FullDocument
  <2>. QED
    BY <2>2, <2>3, <2>4
<1>4. determineUserID(b, a) \in {c.id, ""}
  BY <1>2, <1>3 DEF determineUserID
<1>. QED
  BY <1>4 DEF Describes, DescribesIn

LEMMA InitRefInv == Init => RefInv
<1> SUFFICES ASSUME Init PROVE RefInv
  OBVIOUS
<1>1. OrderInv
  BY InitOrderInv
<1>. QED
  BY <1>1, NoEventAssumption
  DEF Init, StoreInit, RelayInit, RefInv, StoreIds, FeedIds, FeedIdsOf

\* Every step other than a write leaves the collection and its feed alone.
LEMMA OnlyWriteChangesStore ==
  ASSUME [Next]_vars
  PROVE  Write \/ UNCHANGED storeVars
BY DEF Next, WatcherStep, DispatchStep, vars, Cancel, ChangeStreamError,
       StartWatchingUsers, openChangeStream, openChangeStreamFails, WatchLoop,
       processNextChange, processNextChangeFails, NextOnClosedCursor, Handoff,
       PushCancelled, DispatchExit, SendMessage, SendMessageFails, Deliver,
       DrainReport

\* Where the event the watcher holds can come from in one step.
LEMMA HeldStep ==
  ASSUME [Next]_vars
  PROVE  processNextChange \/ held' = held \/ held' = NoEvent
BY DEF Next, WatcherStep, DispatchStep, vars, relayVars, Write, Cancel,
       ChangeStreamError, StartWatchingUsers, openChangeStream,
       openChangeStreamFails, WatchLoop, processNextChange,
       processNextChangeFails, NextOnClosedCursor, Handoff, PushCancelled,
       DispatchExit, SendMessage, SendMessageFails, Deliver, DrainReport

\* Where the event the dispatch loop holds can come from in one step.
LEMMA InflightStep ==
  ASSUME [Next]_vars
  PROVE  Handoff \/ inflight' = inflight \/ inflight' = NoEvent
BY DEF Next, WatcherStep, DispatchStep, vars, relayVars, Write, Cancel,
       ChangeStreamError, StartWatchingUsers, openChangeStream,
       openChangeStreamFails, WatchLoop, processNextChange,
       processNextChangeFails, NextOnClosedCursor, Handoff, PushCancelled,
       DispatchExit, SendMessage, SendMessageFails, Deliver, DrainReport

LEMMA NextRefInv == RefInv /\ [Next]_vars => RefInv'
<1> SUFFICES ASSUME RefInv, [Next]_vars PROVE RefInv'
  OBVIOUS
<1>0. OrderInv'
  BY NextOrderInv DEF RefInv
<1>1. StoreTypeOK /\ StoreTypeOK'
  BY <1>0 DEF RefInv, OrderInv, TypeInv, TypeOK
<1>2. StoreIds' /\ FeedIds' /\ FeedGrows
  <2>1. CASE Write
    BY <1>1, <2>1, StoreStep DEF Write, RefInv
  <2>2. CASE UNCHANGED storeVars
    BY <2>2, <1>1 DEF RefInv, storeVars, StoreIds, FeedIds, FeedIdsOf, FeedGrows,
                      Extends, StoreTypeOK
  <2>. QED
    BY <2>1, <2>2, OnlyWriteChangesStore
<1>3. oplog \in Seq(Change) /\ oplog' \in Seq(Change)
  BY <1>1 DEF StoreTypeOK
<1>4. held' # NoEvent => Describes(held)'
  <2>1. CASE processNextChange
    <3>1. cursor \in 1..Len(oplog) /\ UNCHANGED oplog
      BY <2>1, <1>1, StoreAssumption
      DEF processNextChange, storeVars, RefInv, OrderInv, TypeInv, TypeOK,
          RelayTypeOK
    <3>2. PICK a \in Decode(FullDocument(oplog[cursor])),
               b \in Decode(oplog[cursor].pre) :
            held' = [mut |-> cursor, userId |-> determineUserID(b, a),
                     before |-> b, after |-> a,
                     opType |-> operationToEnum(oplog[cursor].op)]
      BY <2>1 DEF processNextChange
    <3>3. Describes(held')
      BY <1>1, <3>1, <3>2, BuiltDescribes DEF RefInv
    <3>. QED
      BY <3>1, <3>3 DEF Describes
  <2>2. CASE held' = held
    BY <2>2, <1>2, <1>3, DescribesStable DEF RefInv, Describes, FeedGrows
  <2>3. CASE held' = NoEvent
    BY <2>3
  <2>. QED
    BY <2>1, <2>2, <2>3, HeldStep
<1>5. inflight' # NoEvent => Describes(inflight)'
  <2>1. CASE Handoff
    BY <2>1 DEF Handoff, storeVars, RefInv, Describes
  <2>2. CASE inflight' = inflight
    BY <2>2, <1>2, <1>3, DescribesStable DEF RefInv, Describes, FeedGrows
  <2>3. CASE inflight' = NoEvent
    BY <2>3
  <2>. QED
    BY <2>1, <2>2, <2>3, InflightStep
<1>. QED
  BY <1>0, <1>2, <1>4, <1>5 DEF RefInv

\* An event as RelaySpec sees it: PublishedView applies Project to each event.
PubRecord == [mut: Nat, userId: Users \cup {""}, opType: OperationType]
Project(e) == [mut |-> e.mut, userId |-> e.userId, opType |-> e.opType]

\* Which steps can change what is published or the collection.
LEMMA PublishingSteps ==
  ASSUME [Next]_vars
  PROVE  Write \/ SendMessage \/ UNCHANGED <<store, oplog, sent>>
BY DEF Next, WatcherStep, DispatchStep, vars, storeVars, relayVars, Cancel,
       ChangeStreamError, StartWatchingUsers, openChangeStream,
       openChangeStreamFails, WatchLoop, processNextChange,
       processNextChangeFails, NextOnClosedCursor, Handoff, PushCancelled,
       DispatchExit, SendMessageFails, Deliver, DrainReport

\* Every step of Relay is a step of RelaySpec or leaves its state alone.
LEMMA StepRefines == RefInv /\ [Next]_vars => [Abs!Next]_Abs!specVars
<1> SUFFICES ASSUME RefInv, [Next]_vars PROVE [Abs!Next]_Abs!specVars
  OBVIOUS
<1>1. CASE Write
  <2>1. StoreNext /\ UNCHANGED sent
    BY <1>1 DEF Write, relayVars
  <2>2. UNCHANGED PublishedView
    BY <2>1 DEF PublishedView
  <2>3. Abs!StoreNext
    BY <2>1 DEF StoreNext, Abs!StoreNext, CreateUser, Abs!CreateUser,
                UpdateUser, Abs!UpdateUser, DeleteUserById, Abs!DeleteUserById,
                DropCollection, Abs!DropCollection, Commit, Abs!Commit,
                NextDoc, Abs!NextDoc, DropRecord, Abs!DropRecord
  <2>. QED
    BY <2>2, <2>3 DEF Abs!Next
<1>2. CASE SendMessage
  <2>1. /\ lpc = "send" /\ sent' = Append(sent, inflight)
        /\ UNCHANGED storeVars
    BY <1>2 DEF SendMessage
  <2>2. /\ inflight \in Event /\ sent \in Seq(Event)
        /\ Describes(inflight)
        /\ \A i \in DOMAIN sent : sent[i].mut < inflight.mut
    BY <2>1, NoEventAssumption DEF RefInv, OrderInv, TypeInv, TypeOK,
                                    RelayTypeOK
  <2>3. inflight.opType = Abs!Classify(oplog[inflight.mut].op)
    BY <2>2, ClassifyIsOperationToEnum DEF Describes, DescribesIn
  <2>4. PublishedView' =
          Append(PublishedView,
                 Abs!PublishedEvent(inflight.mut, inflight.userId))
    <3> DEFINE new == Abs!PublishedEvent(inflight.mut, inflight.userId)
    <3>1. /\ sent' \in Seq(Event)
          /\ Len(sent') = Len(sent) + 1
          /\ \A i \in 1..Len(sent) : sent'[i] = sent[i]
          /\ sent'[Len(sent) + 1] = inflight
      BY <2>1, <2>2, AppendProperties
    <3>2. ASSUME NEW t \in Seq(Event)
          PROVE  /\ [i \in DOMAIN t |-> Project(t[i])] \in Seq(PubRecord)
                 /\ Len([i \in DOMAIN t |-> Project(t[i])]) = Len(t)
                 /\ \A i \in 1..Len(t) :
                      [i2 \in DOMAIN t |-> Project(t[i2])][i] = Project(t[i])
      <4>1. DOMAIN t = 1..Len(t) /\ Len(t) \in Nat
        BY LenProperties
      <4>2. \A i \in 1..Len(t) : Project(t[i]) \in PubRecord
        <5> TAKE i \in 1..Len(t)
        <5>1. t[i] \in Event
          BY <4>1
        <5>. QED
          BY <5>1 DEF Event, PubRecord, Project
      <4>3. /\ [i \in 1..Len(t) |-> Project(t[i])] \in Seq(PubRecord)
            /\ Len([i \in 1..Len(t) |-> Project(t[i])]) = Len(t)
        <5>1. [i \in 1..Len(t) |-> Project(t[i])] \in [1..Len(t) -> PubRecord]
          BY <4>2
        <5>. QED
          BY <4>1, <5>1, FunIsSeq
      <4>4. [i \in DOMAIN t |-> Project(t[i])] = [i \in 1..Len(t) |-> Project(t[i])]
        BY <4>1
      <4>. QED
        BY <4>3, <4>4
    <3>3. new = Project(inflight) /\ new \in PubRecord
      BY <2>2, <2>3 DEF Abs!PublishedEvent, Event, new, Project, PubRecord
    <3>4. /\ PublishedView = [i \in DOMAIN sent |-> Project(sent[i])]
          /\ PublishedView' = [i \in DOMAIN sent' |-> Project(sent'[i])]
      BY DEF PublishedView, Project
    <3>5. /\ Append(PublishedView, new) \in Seq(PubRecord)
          /\ Len(Append(PublishedView, new)) = Len(sent) + 1
          /\ \A i \in 1..Len(sent) :
               Append(PublishedView, new)[i] = Project(sent[i])
          /\ Append(PublishedView, new)[Len(sent) + 1] = new
      BY <2>2, <3>2, <3>3, <3>4, AppendProperties
    <3>6. /\ PublishedView' \in Seq(PubRecord)
          /\ Len(PublishedView') = Len(sent) + 1
          /\ \A i \in 1..Len(sent) + 1 : PublishedView'[i] = Project(sent'[i])
      BY <3>1, <3>2, <3>4
    <3>. QED
      <4>1. \A i \in 1..Len(PublishedView') :
              PublishedView'[i] = Append(PublishedView, new)[i]
        BY <3>1, <3>3, <3>5, <3>6, <2>2
      <4>. QED
        BY <3>5, <3>6, <4>1, SeqEqual
  <2>5. /\ inflight.mut \in 1..Len(oplog)
        /\ inflight.userId \in {oplog[inflight.mut].id, ""}
    BY <2>2 DEF Describes, DescribesIn
  <2>6. \A i \in DOMAIN PublishedView : PublishedView[i].mut < inflight.mut
    BY <2>2 DEF PublishedView
  <2>7. Abs!Publish
    BY <2>1, <2>4, <2>5, <2>6 DEF Abs!Publish, storeVars, Abs!storeVars
  <2>. QED
    BY <2>7 DEF Abs!Next
<1>3. CASE UNCHANGED <<store, oplog, sent>>
  BY <1>3 DEF Abs!specVars, PublishedView
<1>. QED
  BY <1>1, <1>2, <1>3, PublishingSteps

\* Relay implements RelaySpec: the events Produce accepts are, in order, a
\* repetition-free subsequence of the feed, each keyed by the mutated user
\* (or empty) and classified by its operation tag.  This is the behaviour of
\* the watcher, the dispatch loop and SendMessage together that the
\* ImplementsRelaySpec run checks on a small instance.
THEOREM Refinement == Spec => ImplementsRelaySpec
<1>1. Init => RefInv
  BY InitRefInv
<1>2. RefInv /\ [Next]_vars => RefInv'
  BY NextRefInv
<1>3. Init => Abs!Init
  BY DEF Init, StoreInit, RelayInit, Abs!Init, Abs!StoreInit, PublishedView
<1>4. RefInv /\ [Next]_vars => [Abs!Next]_Abs!specVars
  BY StepRefines
<1>. QED
  BY <1>1, <1>2, <1>3, <1>4, PTL DEF Spec, ImplementsRelaySpec, Abs!Spec

=============================================================================
