------------------------------- MODULE Relay -------------------------------
(***************************************************************************)
(* The change-feed relay: service.StartWatchingUsers starts the watcher    *)
(* goroutine of UsersChangeStreamWatcher.WatchUsers and a dispatch         *)
(* goroutine that ranges over the watcher's unbuffered channel and calls   *)
(* userProducer.SendMessage for every event.  SendMessage enqueues the     *)
(* message in the Kafka client's local queue and starts one more goroutine *)
(* that drains broker.Events().  The Kafka client delivers queued messages *)
(* to a topic partition chosen from the key (the user id) and posts a      *)
(* delivery report on Events().  The users collection and its change feed *)
(* come from UserStore; gRPC clients write to it at any time.              *)
(*                                                                         *)
(* Each goroutine is a program counter; a step is what one goroutine does *)
(* between two blocking points.  The ghost variables sent, dropped,        *)
(* lostOnCancel and pushedAfterCancel record what the code logs or hands   *)
(* on, for the properties.                                                 *)
(***************************************************************************)
EXTENDS UserStore

CONSTANTS
  Partitions,     \* partitions of the topic go-ddd-crud_user-event
  KeyPartition,   \* the partitioner's choice for a non-empty key
  QueueCap,       \* capacity of the Kafka client's local produce queue
  NoEvent,        \* no event (a nil *UserEvent)
  DecodeCanFail,  \* whether bson.Unmarshal of an image may fail
  StreamCanFail   \* whether the change stream may fail (lost connection)

ASSUME RelayAssumption ==
  /\ Partitions # {}
  /\ KeyPartition \in [Users -> Partitions]
  /\ QueueCap \in Nat \ {0}
  /\ DecodeCanFail \in BOOLEAN
  /\ StreamCanFail \in BOOLEAN

\* domain.OperationType
OperationType == {"UNSPECIFIED", "CREATE", "UPDATE", "DELETE"}

\* domain.UserEvent; mut is a ghost field: the feed position it came from.
\* The event Id (a fresh uuid) is left out: nothing reads it.
Event == [mut: Nat \ {0}, userId: Users \cup {""}, before: MaybeDoc,
          after: MaybeDoc, opType: OperationType]

ASSUME NoEventAssumption == NoEvent \notin Event

VARIABLES
  ctxDone,            \* the context passed to StartWatchingUsers is done
  wpc,                \* watcher goroutine: where it is in WatchUsers
  start,              \* feed position the change stream was opened at
  cursor,             \* next feed position the change stream returns
  held,               \* the event processNextChange is pushing
  lpc,                \* dispatch goroutine of StartWatchingUsers
  inflight,           \* the event the dispatch loop is sending
  queue,              \* the Kafka client's local produce queue
  topic,              \* topic[p]: the messages delivered to partition p
  reports,            \* number of delivery reports waiting on Events()
  drainers,           \* delivery-report goroutines started by SendMessage
  sent,               \* ghost: every event Produce accepted, in order
  dropped,            \* ghost: events whose send error the loop logged
  lostOnCancel,       \* ghost: events discarded because ctx was done
  pushedAfterCancel   \* ghost: handoffs that happened after ctx was done

relayVars == <<ctxDone, wpc, start, cursor, held, lpc, inflight, queue,
               topic, reports, drainers, sent, dropped, lostOnCancel,
               pushedAfterCancel>>
vars == <<storeVars, relayVars>>

\* The watcher's goroutine ends in one of the two closed states of the
\* spec's state machine: stopped on cancellation seen by the loop, or
\* returned on an error (which is also how a cancellation seen inside
\* processNextChange ends it).
Closed == {"stopped", "failed"}
WatcherPC == {"idle", "open", "loop", "next", "push"} \cup Closed
LoopPC == {"idle", "recv", "send", "done"}

(***************************************************************************)
(* The pure helpers of user_watcher.go.                                    *)
(***************************************************************************)
\* Faulty variant: a copy-paste slip maps "delete" to UPDATE.
operationToEnumDeleteAsUpdate(tag) ==
  IF tag = "insert" THEN "CREATE"
  ELSE IF tag = "update" THEN "UPDATE"
  ELSE IF tag = "delete" THEN "UPDATE"
  ELSE "UNSPECIFIED"

operationToEnum(tag) ==
  IF tag = "insert" THEN "CREATE"
  ELSE IF tag = "update" THEN "UPDATE"
  ELSE IF tag = "delete" THEN "DELETE"
  ELSE "UNSPECIFIED"

determineUserID(before, after) ==
  IF before # NoDoc THEN before.id
  ELSE IF after # NoDoc THEN after.id
  ELSE ""

\* What decoding one image can give: the document, or nil when the field
\* is missing or (if DecodeCanFail) bson.Unmarshal fails and is logged.
Decode(img) ==
  IF img = NoDoc THEN {NoDoc}
  ELSE IF DecodeCanFail THEN {img, NoDoc} ELSE {img}

\* The lookup UpdateLookup performs: the document with this _id, if any.
FindById(id) == IF id \in Users THEN store[id] ELSE NoDoc

\* The fullDocument field of record c when the stream returns it.  The
\* stream is opened with FullDocument = UpdateLookup: an insert carries
\* the inserted document, an update the document as it is NOW in the
\* collection, a delete none.
FullDocument(c) ==
  IF c.op = "insert" THEN c.post
  ELSE IF c.op = "update" THEN FindById(c.id)
  ELSE NoDoc

\* The partitions the default (consistent_random) partitioner may pick
\* for a key: the hash of a non-empty key, any partition for "".
PartitionsFor(key) ==
  IF key = "" THEN Partitions ELSE {KeyPartition[key]}

\* The server has closed the change stream: the watcher has read an
\* invalidate record (the collection was dropped).  From then on
\* changeStream.Next returns false and changeStream.Err() is nil.
StreamDead == \E k \in start..(cursor - 1) : oplog[k].op = "invalidate"

Muts(ev) == IF ev = NoEvent THEN {} ELSE {ev.mut}
SentMuts == {sent[i].mut : i \in DOMAIN sent}

RelayTypeOK ==
  /\ ctxDone \in BOOLEAN
  /\ wpc \in WatcherPC
  /\ start \in 1..MaxMutations + 1
  /\ cursor \in 1..MaxMutations + 1
  /\ held \in Event \cup {NoEvent}
  /\ lpc \in LoopPC
  /\ inflight \in Event \cup {NoEvent}
  /\ queue \in Seq(Event)
  /\ topic \in [Partitions -> Seq(Event)]
  /\ reports \in Nat
  /\ drainers \in Nat
  /\ sent \in Seq(Event)
  /\ dropped \subseteq Nat \ {0}
  /\ lostOnCancel \subseteq Nat \ {0}
  /\ pushedAfterCancel \in Nat

TypeOK == StoreTypeOK /\ RelayTypeOK

RelayInit ==
  /\ ctxDone = FALSE
  /\ wpc = "idle"
  /\ start = 1
  /\ cursor = 1
  /\ held = NoEvent
  /\ lpc = "idle"
  /\ inflight = NoEvent
  /\ queue = <<>>
  /\ topic = [p \in Partitions |-> <<>>]
  /\ reports = 0
  /\ drainers = 0
  /\ sent = <<>>
  /\ dropped = {}
  /\ lostOnCancel = {}
  /\ pushedAfterCancel = 0

Init == StoreInit /\ RelayInit

(***************************************************************************)
(* service.StartWatchingUsers: WatchUsers starts the watcher goroutine,    *)
(* then the dispatch goroutine is started.                                 *)
(***************************************************************************)
StartWatchingUsers ==
  /\ lpc = "idle"
  /\ wpc' = "open"
  /\ lpc' = "recv"
  /\ UNCHANGED <<storeVars, ctxDone, start, cursor, held, inflight, queue,
                 topic, reports, drainers, sent, dropped, lostOnCancel,
                 pushedAfterCancel>>

(***************************************************************************)
(* The watcher goroutine of WatchUsers.                                    *)
(***************************************************************************)
\* Faulty variant: the stream starts one position too early.
openChangeStreamOffByOne ==
  /\ wpc = "open"
  /\ ~ctxDone
  /\ wpc' = "loop"
  /\ start' = Len(oplog)
  /\ cursor' = Len(oplog)
  /\ UNCHANGED <<storeVars, ctxDone, held, lpc, inflight, queue, topic,
                 reports, drainers, sent, dropped, lostOnCancel,
                 pushedAfterCancel>>

\* openChangeStream succeeds: the stream starts at the feed's current end.
openChangeStream ==
  /\ wpc = "open"
  /\ ~ctxDone
  /\ wpc' = "loop"
  /\ start' = Len(oplog) + 1
  /\ cursor' = Len(oplog) + 1
  /\ UNCHANGED <<storeVars, ctxDone, held, lpc, inflight, queue, topic,
                 reports, drainers, sent, dropped, lostOnCancel,
                 pushedAfterCancel>>

\* openChangeStream fails (always so once ctx is done): log and return;
\* the deferred close(w.userEvents) closes the channel.
openChangeStreamFails ==
  /\ wpc = "open"
  /\ wpc' = "failed"
  /\ UNCHANGED <<storeVars, ctxDone, start, cursor, held, lpc, inflight,
                 queue, topic, reports, drainers, sent, dropped,
                 lostOnCancel, pushedAfterCancel>>

\* Faulty variant: the loop has no ctx.Done() check before reading.
WatchLoopNoCtxCheck ==
  /\ wpc = "loop"
  /\ wpc' = "next"
  /\ UNCHANGED <<storeVars, ctxDone, start, cursor, held, lpc, inflight,
                 queue, topic, reports, drainers, sent, dropped,
                 lostOnCancel, pushedAfterCancel>>

\* The loop's select: ctx.Done() wins when it is ready, else the default
\* branch calls processNextChange.
WatchLoop ==
  /\ wpc = "loop"
  /\ wpc' = IF ctxDone THEN "stopped" ELSE "next"
  /\ UNCHANGED <<storeVars, ctxDone, start, cursor, held, lpc, inflight,
                 queue, topic, reports, drainers, sent, dropped,
                 lostOnCancel, pushedAfterCancel>>

\* Faulty variant: the stream returns a record only once a later one has
\* been committed (the newest record is never read).
processNextChangeLagging ==
  /\ wpc = "next"
  /\ ~StreamDead
  /\ cursor < Len(oplog)
  /\ LET c == oplog[cursor] IN
     \E after \in Decode(FullDocument(c)), before \in Decode(c.pre) :
        held' = [mut |-> cursor,
                 userId |-> determineUserID(before, after),
                 before |-> before,
                 after |-> after,
                 opType |-> operationToEnum(c.op)]
  /\ cursor' = cursor + 1
  /\ wpc' = "push"
  /\ UNCHANGED <<storeVars, ctxDone, start, lpc, inflight, queue, topic,
                 reports, drainers, sent, dropped, lostOnCancel,
                 pushedAfterCancel>>

\* processNextChange: changeStream.Next(ctx) returns the record at the
\* cursor (also after cancellation, when it is in the batch already
\* fetched); decodeChangeDocuments, determineUserID and operationToEnum
\* build the event.
processNextChange ==
  /\ wpc = "next"
  /\ ~StreamDead
  /\ cursor <= Len(oplog)
  /\ LET c == oplog[cursor] IN
     \E after \in Decode(FullDocument(c)), before \in Decode(c.pre) :
        held' = [mut |-> cursor,
                 userId |-> determineUserID(before, after),
                 before |-> before,
                 after |-> after,
                 opType |-> operationToEnum(c.op)]
  /\ cursor' = cursor + 1
  /\ wpc' = "push"
  /\ UNCHANGED <<storeVars, ctxDone, start, lpc, inflight, queue, topic,
                 reports, drainers, sent, dropped, lostOnCancel,
                 pushedAfterCancel>>

\* changeStream.Next(ctx) returns false and changeStream.Err() is the
\* context's error: processNextChange returns it, the loop logs and
\* returns, the deferred calls close the stream and the channel.
processNextChangeFails ==
  /\ wpc = "next"
  /\ ~StreamDead
  /\ ctxDone
  /\ wpc' = "failed"
  /\ UNCHANGED <<storeVars, ctxDone, start, cursor, held, lpc, inflight,
                 queue, topic, reports, drainers, sent, dropped,
                 lostOnCancel, pushedAfterCancel>>

\* The same return path when the stream itself fails (a lost connection
\* the driver cannot resume from).  The failure comes from outside and is
\* never forced by fairness.  (Once ctx is done the return is the one
\* above, whichever error the driver reports.)
ChangeStreamError ==
  /\ wpc = "next"
  /\ StreamCanFail
  /\ ~StreamDead
  /\ ~ctxDone
  /\ wpc' = "failed"
  /\ UNCHANGED <<storeVars, ctxDone, start, cursor, held, lpc, inflight,
                 queue, topic, reports, drainers, sent, dropped,
                 lostOnCancel, pushedAfterCancel>>

\* changeStream.Next on a stream the server has closed returns false at
\* once and changeStream.Err() is nil: processNextChange returns nil and
\* the loop goes round again (the context is not consulted).
NextOnClosedCursor ==
  /\ wpc = "next"
  /\ StreamDead
  /\ wpc' = "loop"
  /\ UNCHANGED <<storeVars, ctxDone, start, cursor, held, lpc, inflight,
                 queue, topic, reports, drainers, sent, dropped,
                 lostOnCancel, pushedAfterCancel>>

\* The push select, case w.userEvents <- userEvent: the dispatch loop is
\* ready to receive, so the event is handed over.
Handoff ==
  /\ wpc = "push"
  /\ lpc = "recv"
  /\ inflight' = held
  /\ held' = NoEvent
  /\ wpc' = "loop"
  /\ lpc' = "send"
  /\ pushedAfterCancel' = IF ctxDone THEN pushedAfterCancel + 1
                                     ELSE pushedAfterCancel
  /\ UNCHANGED <<storeVars, ctxDone, start, cursor, queue, topic, reports,
                 drainers, sent, dropped, lostOnCancel>>

\* Faulty variant: a non-blocking send (select with default) that drops
\* the event when the dispatch loop is busy, and goes on reading.
PushDropsWhenBusy ==
  /\ wpc = "push"
  /\ lpc # "recv"
  /\ held' = NoEvent
  /\ wpc' = "loop"
  /\ UNCHANGED <<storeVars, ctxDone, start, cursor, lpc, inflight, queue,
                 topic, reports, drainers, sent, dropped, lostOnCancel,
                 pushedAfterCancel>>

\* The push select, case <-ctx.Done(): processNextChange returns
\* ctx.Err(), the event is discarded and the goroutine returns.  When
\* both cases are ready Go picks one at random: both actions are enabled.
PushCancelled ==
  /\ wpc = "push"
  /\ ctxDone
  /\ lostOnCancel' = lostOnCancel \cup Muts(held)
  /\ held' = NoEvent
  /\ wpc' = "failed"
  /\ UNCHANGED <<storeVars, ctxDone, start, cursor, lpc, inflight, queue,
                 topic, reports, drainers, sent, dropped, pushedAfterCancel>>

(***************************************************************************)
(* The dispatch goroutine of StartWatchingUsers.                           *)
(***************************************************************************)
\* Faulty variant: the watcher closes w.userEvents itself in its
\* ctx.Done() case instead of with a defer, so its error returns leave the
\* channel open and the range loop waiting.
DispatchExitOnStopOnly ==
  /\ lpc = "recv"
  /\ wpc = "stopped"
  /\ lpc' = "done"
  /\ UNCHANGED <<storeVars, ctxDone, wpc, start, cursor, held, inflight,
                 queue, topic, reports, drainers, sent, dropped,
                 lostOnCancel, pushedAfterCancel>>

\* for userEvent := range userEvents ends when the channel is closed.
DispatchExit ==
  /\ lpc = "recv"
  /\ wpc \in Closed
  /\ lpc' = "done"
  /\ UNCHANGED <<storeVars, ctxDone, wpc, start, cursor, held, inflight,
                 queue, topic, reports, drainers, sent, dropped,
                 lostOnCancel, pushedAfterCancel>>

\* userProducer.SendMessage: Produce enqueues the message keyed by the
\* user id, and a new goroutine starts ranging over broker.Events().
SendMessage ==
  /\ lpc = "send"
  /\ Len(queue) < QueueCap
  /\ queue' = Append(queue, inflight)
  /\ sent' = Append(sent, inflight)
  /\ drainers' = drainers + 1
  /\ inflight' = NoEvent
  /\ lpc' = "recv"
  /\ UNCHANGED <<storeVars, ctxDone, wpc, start, cursor, held, topic,
                 reports, dropped, lostOnCancel, pushedAfterCancel>>

\* Faulty variant: the loop returns on the first send error.
SendMessageFailsStopsLoop ==
  /\ lpc = "send"
  /\ Len(queue) = QueueCap
  /\ dropped' = dropped \cup Muts(inflight)
  /\ inflight' = NoEvent
  /\ lpc' = "done"
  /\ UNCHANGED <<storeVars, ctxDone, wpc, start, cursor, held, queue, topic,
                 reports, drainers, sent, lostOnCancel, pushedAfterCancel>>

\* Produce fails (the local queue is full): SendMessage returns the error,
\* the loop logs it and goes on; the event is dropped.
SendMessageFails ==
  /\ lpc = "send"
  /\ Len(queue) = QueueCap
  /\ dropped' = dropped \cup Muts(inflight)
  /\ inflight' = NoEvent
  /\ lpc' = "recv"
  /\ UNCHANGED <<storeVars, ctxDone, wpc, start, cursor, held, queue, topic,
                 reports, drainers, sent, lostOnCancel, pushedAfterCancel>>

(***************************************************************************)
(* The Kafka client and the broker, at the boundary SendMessage uses.     *)
(***************************************************************************)
\* The queue without its i-th message.
Without(q, i) == [j \in 1..(Len(q) - 1) |-> IF j < i THEN q[j] ELSE q[j + 1]]

\* The Kafka client completes one queued message: the broker appends it
\* to the partition the partitioner picked, or its delivery fails for good
\* (message.timeout.ms); either way a report is posted.  The producer is
\* created with bootstrap.servers only: enable.idempotence is off and up to
\* max.in.flight batches are outstanding, and a batch that fails with a
\* retriable error is sent again after the batches behind it.  So any
\* queued message, not only the oldest, may be the next to complete.
Deliver ==
  /\ \E i \in 1..Len(queue) :
       /\ \/ \E p \in PartitionsFor(queue[i].userId) :
                topic' = [topic EXCEPT ![p] = Append(@, queue[i])]
          \/ UNCHANGED topic
       /\ queue' = Without(queue, i)
  /\ reports' = reports + 1
  /\ UNCHANGED <<storeVars, ctxDone, wpc, start, cursor, held, lpc, inflight,
                 drainers, sent, dropped, lostOnCancel, pushedAfterCancel>>

\* One of the goroutines started by SendMessage takes a report off
\* broker.Events() and logs it.
DrainReport ==
  /\ drainers > 0
  /\ reports > 0
  /\ reports' = reports - 1
  /\ UNCHANGED <<storeVars, ctxDone, wpc, start, cursor, held, lpc, inflight,
                 queue, topic, drainers, sent, dropped, lostOnCancel,
                 pushedAfterCancel>>

\* The owner of the context cancels it.
Cancel ==
  /\ ~ctxDone
  /\ ctxDone' = TRUE
  /\ UNCHANGED <<storeVars, wpc, start, cursor, held, lpc, inflight, queue,
                 topic, reports, drainers, sent, dropped, lostOnCancel,
                 pushedAfterCancel>>

\* A gRPC client's write to the collection.
Write == StoreNext /\ UNCHANGED relayVars

WatcherStep ==
  \/ openChangeStream \/ openChangeStreamFails \/ WatchLoop
  \/ processNextChange \/ processNextChangeFails \/ NextOnClosedCursor
  \/ Handoff \/ PushCancelled

DispatchStep == DispatchExit \/ SendMessage \/ SendMessageFails

Next ==
  \/ Write
  \/ Cancel
  \/ ChangeStreamError
  \/ StartWatchingUsers
  \/ WatcherStep
  \/ DispatchStep
  \/ Deliver
  \/ DrainReport

\* main calls StartWatchingUsers; the Go scheduler runs every runnable
\* goroutine; the Kafka client's own thread keeps delivering.  Clients and
\* the context's owner are under no obligation to act.
Fairness ==
  /\ WF_vars(StartWatchingUsers)
  /\ WF_vars(WatcherStep)
  /\ WF_vars(DispatchStep)
  /\ WF_vars(Deliver)
  /\ WF_vars(DrainReport)

Spec == Init /\ [][Next]_vars /\ Fairness

\* The refinement mapping onto RelaySpec: the events Produce has accepted,
\* seen as what the consumers can tell apart of them.
PublishedView ==
  [i \in DOMAIN sent |->
     [mut |-> sent[i].mut, userId |-> sent[i].userId,
      opType |-> sent[i].opType]]

Abs == INSTANCE RelaySpec WITH published <- PublishedView

(***************************************************************************)
(* Properties.                                                             *)
(***************************************************************************)

\* FeedOrder: the events Produce accepts come from strictly increasing feed
\* positions: the watcher and the dispatch loop together never reorder or
\* repeat a mutation (spec 5, ordering guarantee).
FeedOrder ==
  \A i, j \in DOMAIN sent : i < j => sent[i].mut < sent[j].mut

\* ImplementsRelaySpec: the relay's goroutines, channel and producer queue
\* together behave as RelaySpec: every event Produce accepts is about a
\* feed record after all earlier ones, keyed by that record's user (or
\* empty) and classified as its operation tag says (spec 1 and 5).
ImplementsRelaySpec == Abs!Spec

\* NoSilentLoss: every mutation the change stream has returned is either
\* accepted by Produce, still on its way (pushed by the watcher or being
\* sent by the loop), or its loss was logged: a send error the dispatch
\* loop logged, or the watcher's return on cancellation.
NoSilentLoss ==
  \A m \in start..(cursor - 1) :
    m \in SentMuts \cup dropped \cup lostOnCancel \cup Muts(held)
          \cup Muts(inflight)

\* CancelBound: once the context is done, the watcher hands at most one
\* more event to the dispatch loop (the one whose select raced with
\* ctx.Done()), because its loop checks ctx.Done() before every read.
CancelBound == pushedAfterCancel <= 1

\* PerKeyOrder: within a partition, the messages of one user appear in the
\* order of their mutations: SendMessage keys each message by the user id,
\* which the spec says guarantees the broker preserves the relative order
\* of events sharing a key (spec 5).
PerKeyOrder ==
  \A p \in Partitions : \A i, j \in DOMAIN topic[p] :
    /\ i < j
    /\ topic[p][i].userId = topic[p][j].userId
    => topic[p][i].mut < topic[p][j].mut

\* ReadIsSettled: every event the watcher built is eventually accepted by
\* Produce, or its loss logged (the loop never stops with an event in hand).
ReadIsSettled ==
  \A m \in 1..MaxMutations :
    (m \in Muts(held) \cup Muts(inflight))
      ~> (m \in SentMuts \cup dropped \cup lostOnCancel)

\* CancelTerminates: cancelling the context makes both goroutines of the
\* relay return and the channel close (spec 8, cancellation).
CancelTerminates == ctxDone ~> (wpc \in Closed /\ lpc = "done")

\* UpdateAfterIsPostImage: the after of an UPDATE event is the document
\* that update wrote (spec 4.1 step 1 and 8).
UpdateAfterIsPostImage ==
  \A i \in DOMAIN sent :
    sent[i].opType = "UPDATE" => sent[i].after = oplog[sent[i].mut].post

\* SingleDrainer: at most one delivery-report goroutine is running
\* (spec 5: a fresh drain task per send is acceptable only if non-leaking).
SingleDrainer == drainers <= 1

\* NoMutationMissed: once the change stream is open, it starts before
\* every mutation the collection has committed (spec 1: every mutation is
\* republished).
NoMutationMissed ==
  wpc \notin {"idle", "open"} => \A m \in 1..Len(oplog) : m >= start

\* EveryMutationRead: once the change stream is open, every record
\* committed after its start is eventually returned by changeStream.Next,
\* unless the watcher has returned (spec 4.1 step 2: the watcher reads the feed
\* until cancelled or a fatal error).
EveryMutationRead ==
  \A m \in 1..MaxMutations :
    (wpc \notin {"idle", "open"} /\ start <= m /\ m <= Len(oplog))
      ~> (cursor > m \/ wpc \in Closed)

\* DeadStreamCloses: once the server has closed the change stream (the
\* collection was dropped), the watcher returns and closes its channel,
\* as the spec asks of a structural cursor error (spec 4.1 step 2).
DeadStreamCloses == StreamDead ~> wpc \in Closed

=============================================================================
