---------------------------- MODULE SafetyProofs ----------------------------
(***************************************************************************)
(* TLAPS proofs of the relay's safety invariants that RelayProofs does not *)
(* cover: CancelBound (the push select hands over at most one event after  *)
(* cancellation) and NoSilentLoss (every record the stream returned is     *)
(* accounted for).  Each is proved from an inductive strengthening that    *)
(* conjoins OrderInv of RelayProofs.                                       *)
(***************************************************************************)
EXTENDS RelayProofs, TLAPS

(***************************************************************************)
(* CancelBound.  Before cancellation nothing is counted.  The only handoff *)
(* after cancellation leaves the watcher at the top of its loop, where the *)
(* ctx.Done() check stops it, so a counted handoff is never followed by    *)
(* another read.                                                           *)
(***************************************************************************)
CancelInv ==
  /\ OrderInv
  /\ ~ctxDone => pushedAfterCancel = 0
  /\ pushedAfterCancel \in {0, 1}
  /\ pushedAfterCancel = 1 => wpc \in {"loop"} \cup Closed

LEMMA InitCancelInv == Init => CancelInv
BY InitOrderInv DEF Init, RelayInit, CancelInv

LEMMA NextCancelInv == CancelInv /\ [Next]_vars => CancelInv'
<1> SUFFICES ASSUME CancelInv, [Next]_vars PROVE CancelInv'
  OBVIOUS
<1>0. OrderInv'
  BY NextOrderInv DEF CancelInv
<1> USE <1>0 DEF CancelInv, Closed
<1>1. CASE Write
  BY <1>1 DEF Write, relayVars
<1>2. CASE Cancel
  BY <1>2 DEF Cancel
<1>3. CASE ChangeStreamError
  BY <1>3 DEF ChangeStreamError
<1>4. CASE StartWatchingUsers
  \* lpc = "idle" only while the watcher has not started, so nothing has
  \* been counted yet.
  <2>1. wpc = "idle"
    BY <1>4 DEF StartWatchingUsers, OrderInv
  <2>. QED
    BY <1>4, <2>1 DEF StartWatchingUsers
<1>5. CASE openChangeStream
  BY <1>5 DEF openChangeStream
<1>6. CASE openChangeStreamFails
  BY <1>6 DEF openChangeStreamFails
<1>7. CASE WatchLoop
  BY <1>7 DEF WatchLoop
<1>8. CASE processNextChange
  BY <1>8 DEF processNextChange
<1>9. CASE processNextChangeFails
  BY <1>9 DEF processNextChangeFails
<1>10. CASE Handoff
  \* The watcher was pushing, so no handoff has been counted yet; this one
  \* leaves it at the top of the loop.
  <2>1. pushedAfterCancel = 0
    BY <1>10 DEF Handoff
  <2>. QED
    BY <1>10, <2>1 DEF Handoff
<1>11. CASE PushCancelled
  BY <1>11 DEF PushCancelled
<1>12. CASE DispatchExit
  BY <1>12 DEF DispatchExit
<1>13. CASE SendMessage
  BY <1>13 DEF SendMessage
<1>14. CASE SendMessageFails
  BY <1>14 DEF SendMessageFails
<1>15. CASE Deliver
  BY <1>15 DEF Deliver
<1>16. CASE DrainReport
  BY <1>16 DEF DrainReport
<1>17. CASE UNCHANGED vars
  BY <1>17 DEF vars, relayVars
<1>18. CASE NextOnClosedCursor
  BY <1>18 DEF NextOnClosedCursor
<1>. QED
  BY <1>1, <1>2, <1>3, <1>4, <1>5, <1>6, <1>7, <1>8, <1>9, <1>10, <1>11,
     <1>12, <1>13, <1>14, <1>15, <1>16, <1>17, <1>18
  DEF Next, WatcherStep, DispatchStep

\* CancelBound holds in every reachable state: once the context is done,
\* the watcher goroutine hands at most one more event to the dispatch loop
\* (the push select that raced ctx.Done() in processNextChange), because
\* the loop of WatchUsers checks ctx.Done() before every read.
THEOREM CancelBounded == Spec => []CancelBound
<1>1. Init => CancelInv
  BY InitCancelInv
<1>2. CancelInv /\ [Next]_vars => CancelInv'
  BY NextCancelInv
<1>3. CancelInv => CancelBound
  BY DEF CancelInv, CancelBound
<1>. QED
  BY <1>1, <1>2, <1>3, PTL DEF Spec

(***************************************************************************)
(* NoSilentLoss.  The watcher holds an event exactly while it is pushing,  *)
(* the loop exactly while it is sending, so processNextChange and Handoff  *)
(* never overwrite an event nobody has accounted for.                      *)
(***************************************************************************)
LossInv ==
  /\ OrderInv
  /\ wpc # "push" => held = NoEvent
  /\ lpc # "send" => inflight = NoEvent
  /\ NoSilentLoss

\* Appending an event to the sequence Produce accepted adds exactly its
\* feed position to SentMuts.
LEMMA SentMutsAppend ==
  ASSUME NEW t \in Seq(Event), NEW e \in Event
  PROVE  {Append(t, e)[i].mut : i \in DOMAIN Append(t, e)}
           = {t[i].mut : i \in DOMAIN t} \cup {e.mut}
<1>1. DOMAIN Append(t, e) = (DOMAIN t) \cup {Len(t) + 1}
  OBVIOUS
<1>2. \A i \in DOMAIN t : Append(t, e)[i] = t[i]
  OBVIOUS
<1>3. Append(t, e)[Len(t) + 1] = e
  OBVIOUS
<1>. QED
  BY <1>1, <1>2, <1>3

LEMMA InitLossInv == Init => LossInv
BY InitOrderInv DEF Init, RelayInit, LossInv, NoSilentLoss

LEMMA NextLossInv == LossInv /\ [Next]_vars => LossInv'
<1> SUFFICES ASSUME LossInv, [Next]_vars PROVE LossInv'
  OBVIOUS
<1> USE NoEventAssumption
<1>0. OrderInv'
  BY NextOrderInv DEF LossInv
<1> USE <1>0 DEF LossInv
<1>1. CASE Write
  BY <1>1 DEF Write, relayVars, NoSilentLoss, SentMuts
<1>2. CASE Cancel
  BY <1>2 DEF Cancel, NoSilentLoss, SentMuts
<1>3. CASE ChangeStreamError
  BY <1>3 DEF ChangeStreamError, NoSilentLoss, SentMuts
<1>4. CASE StartWatchingUsers
  BY <1>4 DEF StartWatchingUsers, NoSilentLoss, SentMuts, OrderInv
<1>5. CASE openChangeStream
  \* The stream starts at the cursor: nothing has been returned yet.
  BY <1>5 DEF openChangeStream, NoSilentLoss
<1>6. CASE openChangeStreamFails
  BY <1>6 DEF openChangeStreamFails, NoSilentLoss, SentMuts
<1>7. CASE WatchLoop
  BY <1>7 DEF WatchLoop, NoSilentLoss, SentMuts
<1>8. CASE processNextChange
  \* The record at the cursor becomes the held event; the watcher held
  \* nothing before, since it was not pushing.
  <2>1. /\ held = NoEvent /\ held' \in Event /\ held'.mut = cursor
        /\ cursor' = cursor + 1 /\ cursor \in Nat
    BY <1>8 DEF processNextChange, OrderInv, TypeInv, TypeOK, RelayTypeOK
  <2>2. UNCHANGED <<start, sent, dropped, lostOnCancel, inflight>>
    BY <1>8 DEF processNextChange
  <2>3. Muts(held') = {cursor} /\ Muts(held) = {}
    BY <2>1 DEF Muts
  <2>4. wpc' = "push" /\ UNCHANGED lpc
    BY <1>8 DEF processNextChange
  <2>. QED
    BY <2>1, <2>2, <2>3, <2>4 DEF NoSilentLoss, SentMuts
<1>9. CASE processNextChangeFails
  BY <1>9 DEF processNextChangeFails, NoSilentLoss, SentMuts
<1>10. CASE Handoff
  \* The held event moves to the loop, which held nothing while receiving.
  <2>1. /\ inflight = NoEvent /\ inflight' = held /\ held' = NoEvent
        /\ wpc' = "loop" /\ lpc' = "send"
        /\ UNCHANGED <<start, cursor, sent, dropped, lostOnCancel>>
    BY <1>10 DEF Handoff
  <2>2. Muts(held') = {} /\ Muts(inflight) = {}
    BY <2>1 DEF Muts
  <2>. QED
    BY <2>1, <2>2 DEF NoSilentLoss, SentMuts
<1>11. CASE PushCancelled
  <2>1. /\ lostOnCancel' = lostOnCancel \cup Muts(held) /\ held' = NoEvent
        /\ UNCHANGED <<start, cursor, sent, dropped, inflight, lpc>>
        /\ wpc' = "failed"
    BY <1>11 DEF PushCancelled
  <2>. QED
    BY <2>1 DEF NoSilentLoss, SentMuts, Muts
<1>12. CASE DispatchExit
  BY <1>12 DEF DispatchExit, NoSilentLoss, SentMuts
<1>13. CASE SendMessage
  \* The in-flight event is the one Produce accepts.
  <2>1. /\ inflight \in Event /\ sent \in Seq(Event)
        /\ sent' = Append(sent, inflight) /\ inflight' = NoEvent
        /\ lpc' = "recv"
        /\ UNCHANGED <<start, cursor, held, wpc, dropped, lostOnCancel>>
    BY <1>13 DEF SendMessage, OrderInv, TypeInv, TypeOK, RelayTypeOK
  <2>2. SentMuts' = SentMuts \cup {inflight.mut}
    BY <2>1, SentMutsAppend DEF SentMuts
  <2>3. Muts(inflight) = {inflight.mut} /\ Muts(inflight') = {}
    BY <2>1 DEF Muts
  <2>. QED
    BY <2>1, <2>2, <2>3 DEF NoSilentLoss
<1>14. CASE SendMessageFails
  <2>1. /\ dropped' = dropped \cup Muts(inflight) /\ inflight' = NoEvent
        /\ lpc' = "recv"
        /\ UNCHANGED <<start, cursor, held, wpc, sent, lostOnCancel>>
    BY <1>14 DEF SendMessageFails
  <2>. QED
    BY <2>1 DEF NoSilentLoss, SentMuts, Muts
<1>15. CASE Deliver
  BY <1>15 DEF Deliver, NoSilentLoss, SentMuts
<1>16. CASE DrainReport
  BY <1>16 DEF DrainReport, NoSilentLoss, SentMuts
<1>17. CASE UNCHANGED vars
  BY <1>17 DEF vars, relayVars, NoSilentLoss, SentMuts
<1>18. CASE NextOnClosedCursor
  BY <1>18 DEF NextOnClosedCursor, NoSilentLoss, SentMuts
<1>. QED
  BY <1>1, <1>2, <1>3, <1>4, <1>5, <1>6, <1>7, <1>8, <1>9, <1>10, <1>11,
     <1>12, <1>13, <1>14, <1>15, <1>16, <1>17, <1>18
  DEF Next, WatcherStep, DispatchStep

\* NoSilentLoss holds in every reachable state: every record the change
\* stream has returned to processNextChange is accepted by Produce, being
\* pushed or sent, or its loss was logged (a SendMessage error the dispatch
\* loop logged, or the ctx.Err() return of the push select).
THEOREM NothingSilentlyLost == Spec => []NoSilentLoss
<1>1. Init => LossInv
  BY InitLossInv
<1>2. LossInv /\ [Next]_vars => LossInv'
  BY NextLossInv
<1>3. LossInv => NoSilentLoss
  BY DEF LossInv
<1>. QED
  BY <1>1, <1>2, <1>3, PTL DEF Spec
=============================================================================
