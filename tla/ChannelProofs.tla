---------------------------- MODULE ChannelProofs ----------------------------
(* What holds of Channel for every number of actors, items and slots. *)
EXTENDS Channel, SequenceTheorems, FiniteSetTheorems, TLAPS

\* The initial state, after Channel::Channel and the producer() calls made
\* up front, is well-typed.
LEMMA InitType == Init => TypeOK
<1> SUFFICES ASSUME Init PROVE TypeOK
  OBVIOUS
<1>1. np \in Int
  BY FS_CardinalityType, FS_Subset, ChannelAssumption DEF Init, Actors
<1>2. pc \in [Actors -> Labels]
  BY ChannelAssumption DEF Init, Actors, Consumers, Labels
<1>3. recvWaiters \in Seq(Receivers) /\ sendWaiters \in Seq(Senders)
  BY DEF Init
<1>4. count \in [Senders -> 1 .. NumItems]
  BY ChannelAssumption DEF Init
<1>5. had \in BOOLEAN /\ userClosed \in BOOLEAN /\ closed \in BOOLEAN /\ stuck \in BOOLEAN
  BY Zenon DEF Init
<1>6. slots \in Int
  BY ChannelAssumption DEF Init
<1>7. /\ ok \in [Senders -> BOOLEAN] /\ item \in [Consumers -> Items \union {NoItem}]
      /\ term \in [Actors -> BOOLEAN]
  BY DEF Init
<1>8. /\ queue \subseteq Items /\ accepted \subseteq Items /\ received \subseteq Items
      /\ pending \in Int /\ active \in Int
  BY DEF Init
<1> QED
  BY <1>1, <1>2, <1>3, <1>4, <1>5, <1>6, <1>7, <1>8 DEF TypeOK

\* What a sender is sending is one of the items of the model.
LEMMA CurrentType == ASSUME TypeOK, NEW s \in Senders PROVE Current(s) \in Items
  BY DEF TypeOK, Current, Items

\* Every step leaves each actor at one of its labels.
LEMMA StepPc ==
  ASSUME TypeOK, NEW a \in Actors, ActorStep(a) \/ (a \in Closers /\ close(a))
  PROVE  pc' \in [Actors -> Labels]
<1> USE DEF TypeOK, Move, Resumed, Labels
<1>1. CASE a \in Senders /\ register_producer(a)
  BY <1>1 DEF register_producer
<1>2. CASE a \in Senders /\ SendClosed(a)
  BY <1>2 DEF SendClosed, CanSend
<1>3. CASE a \in Senders /\ SendHandOff(a)
  BY <1>3 DEF SendHandOff, CanSend
<1>4. CASE a \in Senders /\ SendPark(a)
  BY <1>4 DEF SendPark, CanSend
<1>5. CASE a \in Senders /\ SendEnqueue(a)
  BY <1>5 DEF SendEnqueue, CanSend
<1>6. CASE a \in Senders /\ TrySendBegin(a)
  BY <1>6 DEF TrySendBegin
<1>7. CASE a \in Senders /\ TrySendCount(a)
  BY <1>7 DEF TrySendCount
<1>8. CASE a \in Senders /\ TrySendReject(a)
  BY <1>8 DEF TrySendReject
<1>9. CASE a \in Senders /\ TrySendHandOff(a)
  BY <1>9 DEF TrySendHandOff
<1>10. CASE a \in Senders /\ TrySendEnqueue(a)
  BY <1>10 DEF TrySendEnqueue
<1>11. CASE a \in Senders /\ TrySendNoBlock(a)
  BY <1>11 DEF TrySendNoBlock
<1>12. CASE a \in Senders /\ TrySendExit(a)
  BY <1>12 DEF TrySendExit
<1>13. CASE a \in Senders /\ SendNext(a)
  BY <1>13 DEF SendNext
<1>14. CASE a \in Senders /\ SendLast(a)
  BY <1>14 DEF SendLast
<1>15. CASE a \in Senders /\ release_producer(a)
  BY <1>15 DEF release_producer
<1>16. CASE a \in Consumers /\ FastDequeue(a)
  BY <1>16 DEF FastDequeue
<1>17. CASE a \in Consumers /\ FastMiss(a)
  BY <1>17 DEF FastMiss
<1>18. CASE a \in Consumers /\ Missed(a)
  BY <1>18 DEF Missed
<1>19. CASE a \in Consumers /\ mark_item_consumed(a)
  BY <1>19 DEF mark_item_consumed
<1>20. CASE a \in Consumers /\ WakeNoSender(a)
  BY <1>20 DEF WakeNoSender, AfterWakeOne
<1>21. CASE a \in Consumers /\ WakeRejectedSender(a)
  BY <1>21 DEF WakeRejectedSender, AfterWakeOne
<1>22. CASE a \in Consumers /\ WakeSender(a)
  BY <1>22 DEF WakeSender, AfterWakeOne, NotifyOne, Sleeping
<1>23. CASE a \in Consumers /\ ReceiveResult(a)
  BY <1>23 DEF ReceiveResult
<1>24. CASE a \in Receivers /\ ReadyDequeue(a)
  BY <1>24 DEF ReadyDequeue
<1>25. CASE a \in Receivers /\ ReadyEmpty(a)
  BY <1>25 DEF ReadyEmpty
<1>26. CASE a \in Receivers /\ SuspendDequeue(a)
  BY <1>26 DEF SuspendDequeue
<1>27. CASE a \in Receivers /\ SuspendFromSender(a)
  BY <1>27 DEF SuspendFromSender
<1>28. CASE a \in Receivers /\ SuspendEnd(a)
  BY <1>28 DEF SuspendEnd
<1>29. CASE a \in Receivers /\ SuspendPark(a)
  BY <1>29 DEF SuspendPark
<1>30. CASE a \in Blockers /\ BlockingTake(a)
  BY <1>30 DEF BlockingTake
<1>31. CASE a \in Blockers /\ BlockingWait(a)
  BY <1>31 DEF BlockingWait
<1>32. CASE a \in Blockers /\ BlockingSleep(a)
  BY <1>32 DEF BlockingSleep
<1>33. CASE notify_all_waiters(a)
  BY <1>33 DEF notify_all_waiters
<1>34. CASE notify_all_then_senders(a)
  BY <1>34 DEF notify_all_then_senders
<1>35. CASE maybe_notify_terminal(a)
  BY <1>35 DEF maybe_notify_terminal, AfterTerminal
<1>36. CASE WakeWithItem(a)
  BY <1>36 DEF WakeWithItem
<1>37. CASE WakeWithEnd(a)
  BY <1>37 DEF WakeWithEnd
<1>38. CASE WakeReceiverDone(a)
  BY <1>38 DEF WakeReceiverDone, AfterTerminal
<1>39. CASE RejectSender(a)
  BY <1>39 DEF RejectSender
<1>40. CASE RejectSenderDone(a)
  BY <1>40 DEF RejectSenderDone
<1>41. CASE a \in Closers /\ close(a)
  BY <1>41 DEF close
<1> QED
  BY <1>1, <1>2, <1>3, <1>4, <1>5, <1>6, <1>7, <1>8, <1>9, <1>10, <1>11,
     <1>12, <1>13, <1>14, <1>15, <1>16, <1>17, <1>18, <1>19, <1>20, <1>21,
     <1>22, <1>23, <1>24, <1>25, <1>26, <1>27, <1>28, <1>29, <1>30, <1>31,
     <1>32, <1>33, <1>34, <1>35, <1>36, <1>37, <1>38, <1>39, <1>40, <1>41
  DEF ActorStep, send, try_send, receive, await_ready, await_suspend,
       blocking_receive, wake_one_send_waiter_after_receive,
       wake_all_receive_waiters_terminal, wake_all_send_waiters_closed

\* Popping a non-empty waiter list yields a waiter and a waiter list.
LEMMA HeadTail ==
  ASSUME NEW S, NEW q \in Seq(S), q # <<>>
  PROVE  Head(q) \in S /\ Tail(q) \in Seq(S)
  BY HeadTailProperties

\* One step of one actor keeps every variable's type.
LEMMA StepType ==
  ASSUME TypeOK, NEW a \in Actors, ActorStep(a) \/ (a \in Closers /\ close(a))
  PROVE  TypeOK'
<1>pc. pc' \in [Actors -> Labels]
  BY StepPc
<1> USE DEF TypeOK, buffer, life, waiters, hist
<1>1. CASE a \in Senders /\ register_producer(a)
  BY <1>pc, <1>1 DEF register_producer
<1>2. CASE a \in Senders /\ SendClosed(a)
  BY <1>pc, <1>2 DEF SendClosed, CanSend
<1>3. CASE a \in Senders /\ SendHandOff(a)
  BY <1>pc, <1>3, HeadTail, CurrentType DEF SendHandOff, CanSend, Consumers
<1>4. CASE a \in Senders /\ SendPark(a)
  BY <1>pc, <1>4 DEF SendPark, CanSend
<1>5. CASE a \in Senders /\ SendEnqueue(a)
  BY <1>pc, <1>5, CurrentType DEF SendEnqueue, CanSend, Put
<1>6. CASE a \in Senders /\ TrySendBegin(a)
  BY <1>pc, <1>6 DEF TrySendBegin
<1>7. CASE a \in Senders /\ TrySendCount(a)
  BY <1>pc, <1>7 DEF TrySendCount
<1>8. CASE a \in Senders /\ TrySendReject(a)
  <2>1. stuck' \in BOOLEAN
    BY <1>8, Zenon DEF TrySendReject
  <2>2. active' \in Int
    BY <1>8 DEF TrySendReject
  <2>3. UNCHANGED <<buffer, life, waiters, count, ok, item, term, hist>>
    BY <1>8 DEF TrySendReject
  <2> QED
    BY <1>pc, <2>1, <2>2, <2>3
<1>9. CASE a \in Senders /\ TrySendHandOff(a)
  BY <1>pc, <1>9, HeadTail, CurrentType DEF TrySendHandOff, Consumers
<1>10. CASE a \in Senders /\ TrySendEnqueue(a)
  BY <1>pc, <1>10, CurrentType DEF TrySendEnqueue, Put
<1>11. CASE a \in Senders /\ TrySendNoBlock(a)
  BY <1>pc, <1>11 DEF TrySendNoBlock
<1>12. CASE a \in Senders /\ TrySendExit(a)
  BY <1>pc, <1>12 DEF TrySendExit
<1>13. CASE a \in Senders /\ SendNext(a)
  <2>1. count' \in [Senders -> 1 .. NumItems]
    BY <1>13, ChannelAssumption DEF SendNext, Continues
  <2> QED
    BY <1>pc, <1>13, <2>1 DEF SendNext
<1>14. CASE a \in Senders /\ SendLast(a)
  BY <1>pc, <1>14 DEF SendLast
<1>15. CASE a \in Senders /\ release_producer(a)
  BY <1>pc, <1>15 DEF release_producer
<1>16. CASE a \in Consumers /\ FastDequeue(a)
  BY <1>pc, <1>16 DEF FastDequeue, Take
<1>17. CASE a \in Consumers /\ FastMiss(a)
  BY <1>pc, <1>17 DEF FastMiss
<1>18. CASE a \in Consumers /\ Missed(a)
  BY <1>pc, <1>18 DEF Missed
<1>19. CASE a \in Consumers /\ mark_item_consumed(a)
  BY <1>pc, <1>19 DEF mark_item_consumed
<1>20. CASE a \in Consumers /\ WakeNoSender(a)
  BY <1>pc, <1>20 DEF WakeNoSender, FreedSlots
<1>21. CASE a \in Consumers /\ WakeRejectedSender(a)
  BY <1>pc, <1>21, HeadTail DEF WakeRejectedSender, FreedSlots
<1>22. CASE a \in Consumers /\ WakeSender(a)
  BY <1>pc, <1>22, HeadTail, CurrentType DEF WakeSender
<1>23. CASE a \in Consumers /\ ReceiveResult(a)
  BY <1>pc, <1>23 DEF ReceiveResult
<1>24. CASE a \in Receivers /\ ReadyDequeue(a)
  BY <1>pc, <1>24 DEF ReadyDequeue, LockedDequeue, Take, FreedSlots, Consumers
<1>25. CASE a \in Receivers /\ ReadyEmpty(a)
  BY <1>pc, <1>25 DEF ReadyEmpty, Consumers
<1>26. CASE a \in Receivers /\ SuspendDequeue(a)
  BY <1>pc, <1>26 DEF SuspendDequeue, LockedDequeue, Take, FreedSlots, Consumers
<1>27. CASE a \in Receivers /\ SuspendFromSender(a)
  <2>1. Head(sendWaiters) \in Senders /\ Tail(sendWaiters) \in Seq(Senders)
    BY <1>27, HeadTail DEF SuspendFromSender
  <2>2. ok' \in [Senders -> BOOLEAN]
    BY <1>27, <2>1 DEF SuspendFromSender
  <2>3. /\ item' \in [Consumers -> Items \union {NoItem}]
        /\ accepted' \subseteq Items
    <3>1. CASE userClosed
      BY <1>27, <3>1 DEF SuspendFromSender
    <3>2. CASE ~userClosed
      <4>1. Current(Head(sendWaiters)) \in Items
        BY <2>1, CurrentType
      <4> QED
        BY <1>27, <3>2, <4>1 DEF SuspendFromSender, Consumers
    <3> QED
      BY <3>1, <3>2
  <2> QED
    BY <1>pc, <1>27, <2>1, <2>2, <2>3 DEF SuspendFromSender
<1>28. CASE a \in Receivers /\ SuspendEnd(a)
  BY <1>pc, <1>28 DEF SuspendEnd, Consumers
<1>29. CASE a \in Receivers /\ SuspendPark(a)
  BY <1>pc, <1>29 DEF SuspendPark, Consumers
<1>30. CASE a \in Blockers /\ BlockingTake(a)
  BY <1>pc, <1>30 DEF BlockingTake, LockedDequeue, Take, FreedSlots, Consumers
<1>31. CASE a \in Blockers /\ BlockingWait(a)
  BY <1>pc, <1>31 DEF BlockingWait, Consumers
<1>32. CASE a \in Blockers /\ BlockingSleep(a)
  BY <1>pc, <1>32 DEF BlockingSleep, Consumers
<1>33. CASE notify_all_waiters(a)
  BY <1>pc, <1>33 DEF notify_all_waiters, is_terminal_locked, NoMoreSenders
<1>34. CASE notify_all_then_senders(a)
  BY <1>pc, <1>34 DEF notify_all_then_senders
<1>35. CASE maybe_notify_terminal(a)
  BY <1>pc, <1>35 DEF maybe_notify_terminal
<1>36. CASE WakeWithItem(a)
  BY <1>pc, <1>36, HeadTail DEF WakeWithItem, LockedDequeue, Take, FreedSlots, Consumers
<1>37. CASE WakeWithEnd(a)
  BY <1>pc, <1>37, HeadTail DEF WakeWithEnd, Consumers
<1>38. CASE WakeReceiverDone(a)
  BY <1>pc, <1>38 DEF WakeReceiverDone
<1>39. CASE RejectSender(a)
  BY <1>pc, <1>39, HeadTail DEF RejectSender
<1>40. CASE RejectSenderDone(a)
  BY <1>pc, <1>40 DEF RejectSenderDone
<1>41. CASE a \in Closers /\ close(a)
  BY <1>pc, <1>41 DEF close
<1> QED
  BY <1>1, <1>2, <1>3, <1>4, <1>5, <1>6, <1>7, <1>8, <1>9, <1>10, <1>11,
     <1>12, <1>13, <1>14, <1>15, <1>16, <1>17, <1>18, <1>19, <1>20, <1>21,
     <1>22, <1>23, <1>24, <1>25, <1>26, <1>27, <1>28, <1>29, <1>30, <1>31,
     <1>32, <1>33, <1>34, <1>35, <1>36, <1>37, <1>38, <1>39, <1>40, <1>41
  DEF ActorStep, send, try_send, receive, await_ready, await_suspend,
       blocking_receive, wake_one_send_waiter_after_receive,
       wake_all_receive_waiters_terminal, wake_all_send_waiters_closed

\* TypeOK is inductive by itself.
LEMMA NextType == TypeOK /\ [Next]_vars => TypeOK'
<1> SUFFICES ASSUME TypeOK, [Next]_vars PROVE TypeOK'
  OBVIOUS
<1>1. CASE UNCHANGED vars
  BY <1>1 DEF TypeOK, vars, buffer, life, waiters, hist
<1>2. ASSUME NEW a \in Actors, ActorStep(a) PROVE TypeOK'
  BY <1>2, StepType
<1>3. ASSUME NEW x \in Closers, close(x) PROVE TypeOK'
  BY <1>3, StepType DEF Actors
<1>4. CASE Terminating
  BY <1>1, <1>4 DEF Terminating
<1> QED
  BY <1>1, <1>2, <1>3, <1>4 DEF Next

\* Every variable of the channel keeps its type.
THEOREM TypeCorrect == Spec => []TypeOK
  BY InitType, NextType, PTL DEF Spec

-----------------------------------------------------------------------------
(* Exactly-once delivery *)

\* An item is accepted at most once, before its sender turns to the next one.
NotYetAccepted == {"unborn", "send", "parked", "tryCount", "tryLock"}
Fresh == \A s \in Senders, n \in 1 .. NumItems :
  <<s, n>> \in accepted =>
    n <= count[s] /\ (n = count[s] => pc[s] \notin NotYetAccepted)

\* A consumer that is looking for an item, or asleep, holds none.
LookingFor == {"recv", "missed", "readyLock", "suspend", "blockLock",
               "cvWaiting", "cvWait"}
EmptyHanded == \A c \in Consumers : pc[c] \in LookingFor => item[c] = NoItem

\* The suspended are listed once.
Once(q) == \A m, n \in DOMAIN q : q[m] = q[n] => m = n
ListedOnce == Once(sendWaiters) /\ Once(recvWaiters)

IInv == TypeOK /\ Fresh /\ EmptyHanded /\ ListedOnce /\ ParkedIsListed /\ ExactlyOnce

\* What popping and appending a waiter does to a list.
LEMMA PopListed ==
  ASSUME NEW S, NEW q \in Seq(S), q # <<>>, Once(q)
  PROVE  /\ Once(Tail(q))
         /\ Listed(Head(q), q)
         /\ \A x : Listed(x, Tail(q)) <=> Listed(x, q) /\ x # Head(q)
<1>1. /\ Len(q) \in Nat \ {0} /\ DOMAIN q = 1 .. Len(q) /\ Head(q) = q[1]
      /\ DOMAIN Tail(q) = 1 .. Len(q) - 1
      /\ \A n \in 1 .. Len(q) - 1 : Tail(q)[n] = q[n + 1]
  OBVIOUS
<1>2. Once(Tail(q))
  BY <1>1 DEF Once
<1>3. Listed(Head(q), q)
  BY <1>1 DEF Listed
<1>4. ASSUME NEW x, Listed(x, Tail(q)) PROVE Listed(x, q) /\ x # Head(q)
  BY <1>1, <1>4 DEF Once, Listed
<1>5. ASSUME NEW x, Listed(x, q), x # Head(q) PROVE Listed(x, Tail(q))
  <2>1. PICK n \in DOMAIN q : q[n] = x
    BY <1>5 DEF Listed
  <2>2. n - 1 \in DOMAIN Tail(q) /\ Tail(q)[n - 1] = x
    BY <1>1, <1>5, <2>1
  <2> QED
    BY <2>2 DEF Listed
<1> QED
  BY <1>2, <1>3, <1>4, <1>5

\* What appending a waiter does to a list.
LEMMA AppendListed ==
  ASSUME NEW S, NEW q \in Seq(S), NEW e \in S, Once(q), ~Listed(e, q)
  PROVE  /\ Once(Append(q, e))
         /\ \A x : Listed(x, Append(q, e)) <=> Listed(x, q) \/ x = e
<1>1. /\ Len(q) \in Nat /\ DOMAIN q = 1 .. Len(q)
      /\ DOMAIN Append(q, e) = 1 .. Len(q) + 1
      /\ \A n \in 1 .. Len(q) : Append(q, e)[n] = q[n]
      /\ Append(q, e)[Len(q) + 1] = e
  OBVIOUS
<1>2. Once(Append(q, e))
  BY <1>1 DEF Once, Listed
<1>3. ASSUME NEW x, Listed(x, Append(q, e)) PROVE Listed(x, q) \/ x = e
  BY <1>1, <1>3 DEF Listed
<1>4. ASSUME NEW x, Listed(x, q) PROVE Listed(x, Append(q, e))
  BY <1>1, <1>4 DEF Listed
<1>5. Listed(e, Append(q, e))
  BY <1>1 DEF Listed
<1> QED
  BY <1>2, <1>3, <1>4, <1>5

\* The actions that touch neither the queue nor an item in somebody's hands.
LEMMA Quiet ==
  ASSUME NEW a \in Actors, ActorStep(a) \/ (a \in Closers /\ close(a))
  PROVE
    \/ a \in Senders /\ SendHandOff(a)
    \/ a \in Senders /\ SendEnqueue(a)
    \/ a \in Senders /\ TrySendHandOff(a)
    \/ a \in Senders /\ TrySendEnqueue(a)
    \/ a \in Consumers /\ FastDequeue(a)
    \/ a \in Consumers /\ WakeSender(a)
    \/ a \in Consumers /\ ReceiveResult(a)
    \/ a \in Receivers /\ ReadyDequeue(a)
    \/ a \in Receivers /\ SuspendDequeue(a)
    \/ a \in Receivers /\ SuspendFromSender(a)
    \/ a \in Blockers /\ BlockingTake(a)
    \/ WakeWithItem(a)
    \/ WakeWithEnd(a)
    \/ UNCHANGED <<queue, item, hist>>
  BY DEF buffer, hist, register_producer, SendClosed, SendPark, TrySendBegin,
         TrySendCount, TrySendReject, TrySendNoBlock, TrySendExit, SendNext,
         SendLast, release_producer, FastMiss, Missed, mark_item_consumed,
         WakeNoSender, WakeRejectedSender, ReadyEmpty, SuspendEnd,
         SuspendPark, BlockingWait, BlockingSleep, notify_all_waiters,
         notify_all_then_senders, maybe_notify_terminal, WakeReceiverDone,
         RejectSender, RejectSenderDone, close,
         ActorStep, send, try_send, receive, await_ready, await_suspend,
       blocking_receive, wake_one_send_waiter_after_receive,
       wake_all_receive_waiters_terminal, wake_all_send_waiters_closed

\* A sender that has not yet sent its current item has not had it accepted:
\* Fresh is kept by every step.
LEMMA StepFresh ==
  ASSUME IInv, NEW a \in Actors, ActorStep(a) \/ (a \in Closers /\ close(a))
  PROVE  Fresh'
<1> USE DEF IInv, TypeOK, Fresh, NotYetAccepted, Move, Resumed, Actors
<1>1. CASE a \in Senders /\ register_producer(a)
  BY <1>1 DEF register_producer, hist
<1>2. CASE a \in Senders /\ SendClosed(a)
  BY <1>2 DEF SendClosed, CanSend, hist
<1>3. CASE a \in Senders /\ SendHandOff(a)
  BY <1>3 DEF SendHandOff, CanSend, Current, hist
<1>4. CASE a \in Senders /\ SendPark(a)
  BY <1>4 DEF SendPark, CanSend, hist
<1>5. CASE a \in Senders /\ SendEnqueue(a)
  BY <1>5 DEF SendEnqueue, CanSend, Current, Put, NotifyOne, Sleeping, hist
<1>6. CASE a \in Senders /\ TrySendBegin(a)
  BY <1>6 DEF TrySendBegin, hist
<1>7. CASE a \in Senders /\ TrySendCount(a)
  BY <1>7 DEF TrySendCount, hist
<1>8. CASE a \in Senders /\ TrySendReject(a)
  BY <1>8 DEF TrySendReject, hist
<1>9. CASE a \in Senders /\ TrySendHandOff(a)
  BY <1>9 DEF TrySendHandOff, Current, hist
<1>10. CASE a \in Senders /\ TrySendEnqueue(a)
  BY <1>10 DEF TrySendEnqueue, Current, Put, NotifyOne, Sleeping, hist
<1>11. CASE a \in Senders /\ TrySendNoBlock(a)
  BY <1>11 DEF TrySendNoBlock, hist
<1>12. CASE a \in Senders /\ TrySendExit(a)
  BY <1>12 DEF TrySendExit, hist
<1>13. CASE a \in Senders /\ SendNext(a)
  BY <1>13 DEF SendNext, Continues, hist
<1>14. CASE a \in Senders /\ SendLast(a)
  BY <1>14 DEF SendLast, hist
<1>15. CASE a \in Senders /\ release_producer(a)
  BY <1>15 DEF release_producer, hist
<1>16. CASE a \in Consumers /\ FastDequeue(a)
  BY <1>16 DEF FastDequeue, hist
<1>17. CASE a \in Consumers /\ FastMiss(a)
  BY <1>17 DEF FastMiss, hist
<1>18. CASE a \in Consumers /\ Missed(a)
  BY <1>18 DEF Missed, hist
<1>19. CASE a \in Consumers /\ mark_item_consumed(a)
  BY <1>19 DEF mark_item_consumed, hist
<1>20. CASE a \in Consumers /\ WakeNoSender(a)
  BY <1>20 DEF WakeNoSender, AfterWakeOne, hist
<1>21. CASE a \in Consumers /\ WakeRejectedSender(a)
  BY <1>21 DEF WakeRejectedSender, AfterWakeOne, hist
<1>22. CASE a \in Consumers /\ WakeSender(a)
  BY <1>22 DEF WakeSender, AfterWakeOne, NotifyOne, Sleeping, Current, hist
<1>23. CASE a \in Consumers /\ ReceiveResult(a)
  BY <1>23 DEF ReceiveResult, hist
<1>24. CASE a \in Receivers /\ ReadyDequeue(a)
  BY <1>24 DEF ReadyDequeue, hist
<1>25. CASE a \in Receivers /\ ReadyEmpty(a)
  BY <1>25 DEF ReadyEmpty, hist
<1>26. CASE a \in Receivers /\ SuspendDequeue(a)
  BY <1>26 DEF SuspendDequeue, hist
<1>27. CASE a \in Receivers /\ SuspendFromSender(a)
  BY <1>27 DEF SuspendFromSender, Current, hist
<1>28. CASE a \in Receivers /\ SuspendEnd(a)
  BY <1>28 DEF SuspendEnd, hist
<1>29. CASE a \in Receivers /\ SuspendPark(a)
  BY <1>29, ChannelAssumption DEF SuspendPark, hist, Consumers
<1>30. CASE a \in Blockers /\ BlockingTake(a)
  BY <1>30 DEF BlockingTake, hist
<1>31. CASE a \in Blockers /\ BlockingWait(a)
  BY <1>31 DEF BlockingWait, hist
<1>32. CASE a \in Blockers /\ BlockingSleep(a)
  BY <1>32 DEF BlockingSleep, hist
<1>33. CASE notify_all_waiters(a)
  BY <1>33 DEF notify_all_waiters, hist
<1>34. CASE notify_all_then_senders(a)
  BY <1>34 DEF notify_all_then_senders, hist
<1>35. CASE maybe_notify_terminal(a)
  BY <1>35 DEF maybe_notify_terminal, AfterTerminal, hist
<1>36. CASE WakeWithItem(a)
  BY <1>36 DEF WakeWithItem, hist
<1>37. CASE WakeWithEnd(a)
  BY <1>37 DEF WakeWithEnd, hist
<1>38. CASE WakeReceiverDone(a)
  BY <1>38 DEF WakeReceiverDone, AfterTerminal, hist
<1>39. CASE RejectSender(a)
  BY <1>39 DEF RejectSender, hist
<1>40. CASE RejectSenderDone(a)
  BY <1>40 DEF RejectSenderDone, hist
<1>41. CASE a \in Closers /\ close(a)
  BY <1>41 DEF close, hist
<1> QED
  BY <1>1, <1>2, <1>3, <1>4, <1>5, <1>6, <1>7, <1>8, <1>9, <1>10, <1>11,
     <1>12, <1>13, <1>14, <1>15, <1>16, <1>17, <1>18, <1>19, <1>20, <1>21,
     <1>22, <1>23, <1>24, <1>25, <1>26, <1>27, <1>28, <1>29, <1>30, <1>31,
     <1>32, <1>33, <1>34, <1>35, <1>36, <1>37, <1>38, <1>39, <1>40, <1>41
  DEF ActorStep, send, try_send, receive, await_ready, await_suspend,
       blocking_receive, wake_one_send_waiter_after_receive,
       wake_all_receive_waiters_terminal, wake_all_send_waiters_closed

\* A consumer that is searching, suspended or asleep holds no item, the
\* receiver between the two halves of a try_send hand-off apart.
LEMMA StepEmptyHanded ==
  ASSUME IInv, NEW a \in Actors, ActorStep(a) \/ (a \in Closers /\ close(a))
  PROVE  EmptyHanded'
<1>0. /\ Senders \intersect Consumers = {} /\ Receivers \intersect Blockers = {}
      /\ Closers \intersect Consumers = {}
  BY ChannelAssumption
<1> USE DEF IInv, TypeOK, EmptyHanded, LookingFor, Move, Resumed, Actors
<1>1. CASE a \in Senders /\ register_producer(a)
  BY <1>1 DEF register_producer, Consumers
<1>2. CASE a \in Senders /\ SendClosed(a)
  BY <1>2 DEF SendClosed, CanSend, Consumers
<1>3. CASE a \in Senders /\ SendHandOff(a)
  BY <1>3, <1>0, HeadTail DEF SendHandOff, CanSend, Consumers
<1>4. CASE a \in Senders /\ SendPark(a)
  BY <1>4 DEF SendPark, CanSend, Consumers
<1>5. CASE a \in Senders /\ SendEnqueue(a)
  BY <1>5 DEF SendEnqueue, CanSend, NotifyOne, Sleeping, Consumers
<1>6. CASE a \in Senders /\ TrySendBegin(a)
  BY <1>6 DEF TrySendBegin, Consumers
<1>7. CASE a \in Senders /\ TrySendCount(a)
  BY <1>7 DEF TrySendCount, Consumers
<1>8. CASE a \in Senders /\ TrySendReject(a)
  BY <1>8, <1>0 DEF TrySendReject, Sleeping, NotifyOne, Consumers
<1>9. CASE a \in Senders /\ TrySendHandOff(a)
  <2>1. Head(recvWaiters) \in Receivers /\ pc[Head(recvWaiters)] = "parked"
    BY <1>9, HeadTail, PopListed DEF TrySendHandOff, ListedOnce, ParkedIsListed
  <2> QED
    BY <1>9, <2>1, <1>0 DEF TrySendHandOff, Consumers
<1>10. CASE a \in Senders /\ TrySendEnqueue(a)
  BY <1>10 DEF TrySendEnqueue, Consumers
<1>11. CASE a \in Senders /\ TrySendNoBlock(a)
  BY <1>11 DEF TrySendNoBlock, Consumers
<1>12. CASE a \in Senders /\ TrySendExit(a)
  BY <1>12, <1>0 DEF TrySendExit, Sleeping, NotifyOne, Consumers
<1>13. CASE a \in Senders /\ SendNext(a)
  BY <1>13 DEF SendNext, Continues, Consumers
<1>14. CASE a \in Senders /\ SendLast(a)
  BY <1>14 DEF SendLast, Consumers
<1>15. CASE a \in Senders /\ release_producer(a)
  BY <1>15, <1>0 DEF release_producer, Sleeping, NotifyOne, Consumers
<1>16. CASE a \in Consumers /\ FastDequeue(a)
  BY <1>16 DEF FastDequeue, Take, Consumers
<1>17. CASE a \in Consumers /\ FastMiss(a)
  BY <1>17 DEF FastMiss, Consumers
<1>18. CASE a \in Consumers /\ Missed(a)
  BY <1>18 DEF Missed, Consumers
<1>19. CASE a \in Consumers /\ mark_item_consumed(a)
  BY <1>19 DEF mark_item_consumed, Consumers
<1>20. CASE a \in Consumers /\ WakeNoSender(a)
  BY <1>20 DEF WakeNoSender, AfterWakeOne, Consumers
<1>21. CASE a \in Consumers /\ WakeRejectedSender(a)
  BY <1>21, <1>0, HeadTail DEF WakeRejectedSender, AfterWakeOne, Consumers
<1>22. CASE a \in Consumers /\ WakeSender(a)
  BY <1>22, <1>0, HeadTail DEF WakeSender, AfterWakeOne, NotifyOne, Sleeping, Consumers
<1>23. CASE a \in Consumers /\ ReceiveResult(a)
  BY <1>23 DEF ReceiveResult, Consumers
<1>24. CASE a \in Receivers /\ ReadyDequeue(a)
  BY <1>24 DEF ReadyDequeue, LockedDequeue, Take, Consumers
<1>25. CASE a \in Receivers /\ ReadyEmpty(a)
  BY <1>25 DEF ReadyEmpty, Consumers
<1>26. CASE a \in Receivers /\ SuspendDequeue(a)
  BY <1>26 DEF SuspendDequeue, LockedDequeue, Take, Consumers
<1>27. CASE a \in Receivers /\ SuspendFromSender(a)
  BY <1>27, <1>0, HeadTail DEF SuspendFromSender, Consumers
<1>28. CASE a \in Receivers /\ SuspendEnd(a)
  BY <1>28 DEF SuspendEnd, Consumers
<1>29. CASE a \in Receivers /\ SuspendPark(a)
  BY <1>29 DEF SuspendPark, Consumers
<1>30. CASE a \in Blockers /\ BlockingTake(a)
  BY <1>30 DEF BlockingTake, LockedDequeue, Take, Consumers
<1>31. CASE a \in Blockers /\ BlockingWait(a)
  BY <1>31 DEF BlockingWait, Consumers
<1>32. CASE a \in Blockers /\ BlockingSleep(a)
  BY <1>32 DEF BlockingSleep, Consumers
<1>33. CASE notify_all_waiters(a)
  BY <1>33 DEF notify_all_waiters, Consumers
<1>34. CASE notify_all_then_senders(a)
  BY <1>34 DEF notify_all_then_senders, Consumers
<1>35. CASE maybe_notify_terminal(a)
  BY <1>35, <1>0 DEF maybe_notify_terminal, AfterTerminal, Sleeping, NotifyOne, Consumers
<1>36. CASE WakeWithItem(a)
  BY <1>36, <1>0, HeadTail DEF WakeWithItem, LockedDequeue, Take, Consumers
<1>37. CASE WakeWithEnd(a)
  BY <1>37 DEF WakeWithEnd, Consumers
<1>38. CASE WakeReceiverDone(a)
  BY <1>38 DEF WakeReceiverDone, AfterTerminal, Consumers
<1>39. CASE RejectSender(a)
  BY <1>39, <1>0, HeadTail DEF RejectSender, Consumers
<1>40. CASE RejectSenderDone(a)
  BY <1>40 DEF RejectSenderDone, Consumers
<1>41. CASE a \in Closers /\ close(a)
  BY <1>41, <1>0 DEF close, Sleeping, NotifyOne, Consumers
<1> QED
  BY <1>1, <1>2, <1>3, <1>4, <1>5, <1>6, <1>7, <1>8, <1>9, <1>10, <1>11,
     <1>12, <1>13, <1>14, <1>15, <1>16, <1>17, <1>18, <1>19, <1>20, <1>21,
     <1>22, <1>23, <1>24, <1>25, <1>26, <1>27, <1>28, <1>29, <1>30, <1>31,
     <1>32, <1>33, <1>34, <1>35, <1>36, <1>37, <1>38, <1>39, <1>40, <1>41
  DEF ActorStep, send, try_send, receive, await_ready, await_suspend,
       blocking_receive, wake_one_send_waiter_after_receive,
       wake_all_receive_waiters_terminal, wake_all_send_waiters_closed

\* Different senders send different items.
LEMMA CurrentIsItem ==
  ASSUME TypeOK, NEW s \in Senders
  PROVE  Current(s) # NoItem
  BY CurrentType, ChannelAssumption

\* The halves of ListedOnce and ParkedIsListed.
SendersListed ==
  /\ Once(sendWaiters)
  /\ \A s \in Senders : pc[s] = "parked" <=> Listed(s, sendWaiters)
ReceiversListed ==
  /\ Once(recvWaiters)
  /\ \A r \in Receivers :
       pc[r] = "parked" /\ item[r] = NoItem <=> Listed(r, recvWaiters)

\* The list of suspended senders names exactly them, after every step.
LEMMA StepSendersListed ==
  ASSUME TypeOK, SendersListed, NEW a \in Actors,
         ActorStep(a) \/ (a \in Closers /\ close(a))
  PROVE  SendersListed'
<1>0. /\ Senders \intersect Consumers = {} /\ Receivers \intersect Blockers = {}
      /\ Closers \intersect (Senders \union Consumers) = {}
  BY ChannelAssumption
<1> USE DEF TypeOK, SendersListed, Move, Resumed, Actors
<1>1. CASE a \in Senders /\ register_producer(a)
  BY <1>1, <1>0 DEF register_producer, waiters, Consumers
<1>2. CASE a \in Senders /\ SendClosed(a)
  BY <1>2, <1>0 DEF SendClosed, CanSend, waiters, Consumers
<1>3. CASE a \in Senders /\ SendHandOff(a)
  BY <1>3, <1>0, HeadTail DEF SendHandOff, CanSend, waiters, Consumers
<1>4. CASE a \in Senders /\ SendPark(a)
  BY <1>4, <1>0, AppendListed DEF SendPark, CanSend, waiters, Consumers
<1>5. CASE a \in Senders /\ SendEnqueue(a)
  BY <1>5, <1>0 DEF SendEnqueue, CanSend, Sleeping, NotifyOne, waiters,
     Consumers
<1>6. CASE a \in Senders /\ TrySendBegin(a)
  BY <1>6, <1>0 DEF TrySendBegin, waiters, Consumers
<1>7. CASE a \in Senders /\ TrySendCount(a)
  BY <1>7, <1>0 DEF TrySendCount, waiters, Consumers
<1>8. CASE a \in Senders /\ TrySendReject(a)
  BY <1>8, <1>0 DEF TrySendReject, Sleeping, waiters, Consumers
<1>9. CASE a \in Senders /\ TrySendHandOff(a)
  BY <1>9, <1>0, HeadTail DEF TrySendHandOff, waiters, Consumers
<1>10. CASE a \in Senders /\ TrySendEnqueue(a)
  BY <1>10, <1>0 DEF TrySendEnqueue, waiters, Consumers
<1>11. CASE a \in Senders /\ TrySendNoBlock(a)
  BY <1>11, <1>0 DEF TrySendNoBlock, waiters, Consumers
<1>12. CASE a \in Senders /\ TrySendExit(a)
  BY <1>12, <1>0 DEF TrySendExit, Sleeping, NotifyOne, waiters, Consumers
<1>13. CASE a \in Senders /\ SendNext(a)
  BY <1>13, <1>0 DEF SendNext, waiters, Consumers
<1>14. CASE a \in Senders /\ SendLast(a)
  BY <1>14, <1>0 DEF SendLast, waiters, Consumers
<1>15. CASE a \in Senders /\ release_producer(a)
  BY <1>15, <1>0 DEF release_producer, Sleeping, waiters, Consumers
<1>16. CASE a \in Consumers /\ FastDequeue(a)
  BY <1>16, <1>0 DEF FastDequeue, waiters, Consumers
<1>17. CASE a \in Consumers /\ FastMiss(a)
  BY <1>17, <1>0 DEF FastMiss, waiters, Consumers
<1>18. CASE a \in Consumers /\ Missed(a)
  BY <1>18, <1>0 DEF Missed, waiters, Consumers
<1>19. CASE a \in Consumers /\ mark_item_consumed(a)
  BY <1>19, <1>0 DEF mark_item_consumed, waiters, Consumers
<1>20. CASE a \in Consumers /\ WakeNoSender(a)
  BY <1>20, <1>0 DEF WakeNoSender, AfterWakeOne, waiters, Consumers
<1>21. CASE a \in Consumers /\ WakeRejectedSender(a)
  BY <1>21, <1>0, HeadTail, PopListed DEF WakeRejectedSender,
     AfterWakeOne, waiters, Consumers
<1>22. CASE a \in Consumers /\ WakeSender(a)
  BY <1>22, <1>0, HeadTail, PopListed DEF WakeSender, AfterWakeOne,
     NotifyOne, Sleeping, waiters, Consumers
<1>23. CASE a \in Consumers /\ ReceiveResult(a)
  BY <1>23, <1>0 DEF ReceiveResult, waiters, Consumers
<1>24. CASE a \in Receivers /\ ReadyDequeue(a)
  BY <1>24, <1>0 DEF ReadyDequeue, waiters, Consumers
<1>25. CASE a \in Receivers /\ ReadyEmpty(a)
  BY <1>25, <1>0 DEF ReadyEmpty, waiters, Consumers
<1>26. CASE a \in Receivers /\ SuspendDequeue(a)
  BY <1>26, <1>0 DEF SuspendDequeue, waiters, Consumers
<1>27. CASE a \in Receivers /\ SuspendFromSender(a)
  BY <1>27, <1>0, HeadTail, PopListed DEF SuspendFromSender, waiters,
     Consumers
<1>28. CASE a \in Receivers /\ SuspendEnd(a)
  BY <1>28, <1>0 DEF SuspendEnd, waiters, Consumers
<1>29. CASE a \in Receivers /\ SuspendPark(a)
  BY <1>29, <1>0 DEF SuspendPark, waiters, Consumers
<1>30. CASE a \in Blockers /\ BlockingTake(a)
  BY <1>30, <1>0 DEF BlockingTake, waiters, Consumers
<1>31. CASE a \in Blockers /\ BlockingWait(a)
  BY <1>31, <1>0 DEF BlockingWait, waiters, Consumers
<1>32. CASE a \in Blockers /\ BlockingSleep(a)
  BY <1>32, <1>0 DEF BlockingSleep, waiters, Consumers
<1>33. CASE notify_all_waiters(a)
  BY <1>33 DEF notify_all_waiters, waiters, Consumers
<1>34. CASE notify_all_then_senders(a)
  BY <1>34 DEF notify_all_then_senders, waiters, Consumers
<1>35. CASE maybe_notify_terminal(a)
  BY <1>35, <1>0 DEF maybe_notify_terminal, AfterTerminal, Sleeping,
     waiters, Consumers
<1>36. CASE WakeWithItem(a)
  BY <1>36, <1>0, HeadTail DEF WakeWithItem, waiters, Consumers
<1>37. CASE WakeWithEnd(a)
  BY <1>37, <1>0, HeadTail DEF WakeWithEnd, waiters, Consumers
<1>38. CASE WakeReceiverDone(a)
  BY <1>38 DEF WakeReceiverDone, AfterTerminal, waiters, Consumers
<1>39. CASE RejectSender(a)
  BY <1>39, <1>0, HeadTail, PopListed DEF RejectSender, waiters,
     Consumers
<1>40. CASE RejectSenderDone(a)
  BY <1>40 DEF RejectSenderDone, waiters, Consumers
<1>41. CASE a \in Closers /\ close(a)
  BY <1>41, <1>0 DEF close, Sleeping, waiters, Consumers
<1> QED
  BY <1>1, <1>2, <1>3, <1>4, <1>5, <1>6, <1>7, <1>8, <1>9, <1>10, <1>11,
     <1>12, <1>13, <1>14, <1>15, <1>16, <1>17, <1>18, <1>19, <1>20, <1>21,
     <1>22, <1>23, <1>24, <1>25, <1>26, <1>27, <1>28, <1>29, <1>30, <1>31,
     <1>32, <1>33, <1>34, <1>35, <1>36, <1>37, <1>38, <1>39, <1>40, <1>41
  DEF ActorStep, send, try_send, receive, await_ready, await_suspend,
       blocking_receive, wake_one_send_waiter_after_receive,
       wake_all_receive_waiters_terminal, wake_all_send_waiters_closed

\* The list of suspended receivers names exactly those still without an
\* item, after every step.
LEMMA StepReceiversListed ==
  ASSUME TypeOK, EmptyHanded, ReceiversListed, NEW a \in Actors,
         ActorStep(a) \/ (a \in Closers /\ close(a))
  PROVE  ReceiversListed'
<1>0. /\ Senders \intersect Consumers = {} /\ Receivers \intersect Blockers = {}
      /\ Closers \intersect (Senders \union Consumers) = {}
  BY ChannelAssumption
<1> USE DEF TypeOK, ReceiversListed, Move, Resumed, Actors
<1>1. CASE a \in Senders /\ register_producer(a)
  BY <1>1, <1>0 DEF register_producer, waiters, Consumers
<1>2. CASE a \in Senders /\ SendClosed(a)
  BY <1>2, <1>0 DEF SendClosed, CanSend, waiters, Consumers
<1>3. CASE a \in Senders /\ SendHandOff(a)
  BY <1>3, <1>0, HeadTail, PopListed, CurrentIsItem DEF SendHandOff,
     CanSend, waiters, Consumers
<1>4. CASE a \in Senders /\ SendPark(a)
  BY <1>4, <1>0 DEF SendPark, CanSend, waiters, Consumers
<1>5. CASE a \in Senders /\ SendEnqueue(a)
  BY <1>5, <1>0 DEF SendEnqueue, CanSend, Sleeping, NotifyOne, waiters,
     Consumers
<1>6. CASE a \in Senders /\ TrySendBegin(a)
  BY <1>6, <1>0 DEF TrySendBegin, waiters, Consumers
<1>7. CASE a \in Senders /\ TrySendCount(a)
  BY <1>7, <1>0 DEF TrySendCount, waiters, Consumers
<1>8. CASE a \in Senders /\ TrySendReject(a)
  BY <1>8, <1>0 DEF TrySendReject, Sleeping, waiters, Consumers
<1>9. CASE a \in Senders /\ TrySendHandOff(a)
  BY <1>9, <1>0, HeadTail, PopListed, CurrentIsItem DEF TrySendHandOff,
     waiters, Consumers
<1>10. CASE a \in Senders /\ TrySendEnqueue(a)
  BY <1>10, <1>0 DEF TrySendEnqueue, waiters, Consumers
<1>11. CASE a \in Senders /\ TrySendNoBlock(a)
  BY <1>11, <1>0 DEF TrySendNoBlock, waiters, Consumers
<1>12. CASE a \in Senders /\ TrySendExit(a)
  BY <1>12, <1>0, CurrentIsItem DEF TrySendExit, Sleeping, NotifyOne,
     waiters, Consumers
<1>13. CASE a \in Senders /\ SendNext(a)
  BY <1>13, <1>0 DEF SendNext, waiters, Consumers
<1>14. CASE a \in Senders /\ SendLast(a)
  BY <1>14, <1>0 DEF SendLast, waiters, Consumers
<1>15. CASE a \in Senders /\ release_producer(a)
  BY <1>15, <1>0 DEF release_producer, Sleeping, waiters, Consumers
<1>16. CASE a \in Consumers /\ FastDequeue(a)
  BY <1>16, <1>0 DEF FastDequeue, Take, waiters, Consumers
<1>17. CASE a \in Consumers /\ FastMiss(a)
  BY <1>17, <1>0 DEF FastMiss, waiters, Consumers
<1>18. CASE a \in Consumers /\ Missed(a)
  BY <1>18, <1>0 DEF Missed, waiters, Consumers
<1>19. CASE a \in Consumers /\ mark_item_consumed(a)
  BY <1>19, <1>0 DEF mark_item_consumed, waiters, Consumers
<1>20. CASE a \in Consumers /\ WakeNoSender(a)
  BY <1>20, <1>0 DEF WakeNoSender, AfterWakeOne, waiters, Consumers
<1>21. CASE a \in Consumers /\ WakeRejectedSender(a)
  BY <1>21, <1>0, HeadTail DEF WakeRejectedSender, AfterWakeOne, waiters,
     Consumers
<1>22. CASE a \in Consumers /\ WakeSender(a)
  BY <1>22, <1>0, HeadTail DEF WakeSender, AfterWakeOne, NotifyOne,
     Sleeping, waiters, Consumers
<1>23. CASE a \in Consumers /\ ReceiveResult(a)
  BY <1>23, <1>0 DEF ReceiveResult, waiters, Consumers
<1>24. CASE a \in Receivers /\ ReadyDequeue(a)
  BY <1>24, <1>0 DEF ReadyDequeue, LockedDequeue, Take, waiters,
     Consumers
<1>25. CASE a \in Receivers /\ ReadyEmpty(a)
  BY <1>25, <1>0 DEF ReadyEmpty, waiters, Consumers
<1>26. CASE a \in Receivers /\ SuspendDequeue(a)
  BY <1>26, <1>0 DEF SuspendDequeue, LockedDequeue, Take, waiters,
     Consumers
<1>27. CASE a \in Receivers /\ SuspendFromSender(a)
  BY <1>27, <1>0, HeadTail DEF SuspendFromSender, waiters, Consumers
<1>28. CASE a \in Receivers /\ SuspendEnd(a)
  BY <1>28, <1>0 DEF SuspendEnd, waiters, Consumers
<1>29. CASE a \in Receivers /\ SuspendPark(a)
  BY <1>29, <1>0, AppendListed DEF SuspendPark, EmptyHanded, LookingFor,
     waiters, Consumers
<1>30. CASE a \in Blockers /\ BlockingTake(a)
  BY <1>30, <1>0 DEF BlockingTake, LockedDequeue, Take, waiters,
     Consumers
<1>31. CASE a \in Blockers /\ BlockingWait(a)
  BY <1>31, <1>0 DEF BlockingWait, waiters, Consumers
<1>32. CASE a \in Blockers /\ BlockingSleep(a)
  BY <1>32, <1>0 DEF BlockingSleep, waiters, Consumers
<1>33. CASE notify_all_waiters(a)
  BY <1>33 DEF notify_all_waiters, waiters, Consumers
<1>34. CASE notify_all_then_senders(a)
  BY <1>34 DEF notify_all_then_senders, waiters, Consumers
<1>35. CASE maybe_notify_terminal(a)
  BY <1>35, <1>0 DEF maybe_notify_terminal, AfterTerminal, Sleeping,
     waiters, Consumers
<1>36. CASE WakeWithItem(a)
  BY <1>36, <1>0, HeadTail, PopListed DEF WakeWithItem, LockedDequeue,
     Take, waiters, Consumers
<1>37. CASE WakeWithEnd(a)
  BY <1>37, <1>0, HeadTail, PopListed DEF WakeWithEnd, waiters, Consumers
<1>38. CASE WakeReceiverDone(a)
  BY <1>38 DEF WakeReceiverDone, AfterTerminal, waiters, Consumers
<1>39. CASE RejectSender(a)
  BY <1>39, <1>0, HeadTail DEF RejectSender, waiters, Consumers
<1>40. CASE RejectSenderDone(a)
  BY <1>40 DEF RejectSenderDone, waiters, Consumers
<1>41. CASE a \in Closers /\ close(a)
  BY <1>41, <1>0 DEF close, Sleeping, waiters, Consumers
<1> QED
  BY <1>1, <1>2, <1>3, <1>4, <1>5, <1>6, <1>7, <1>8, <1>9, <1>10, <1>11,
     <1>12, <1>13, <1>14, <1>15, <1>16, <1>17, <1>18, <1>19, <1>20, <1>21,
     <1>22, <1>23, <1>24, <1>25, <1>26, <1>27, <1>28, <1>29, <1>30, <1>31,
     <1>32, <1>33, <1>34, <1>35, <1>36, <1>37, <1>38, <1>39, <1>40, <1>41
  DEF ActorStep, send, try_send, receive, await_ready, await_suspend,
       blocking_receive, wake_one_send_waiter_after_receive,
       wake_all_receive_waiters_terminal, wake_all_send_waiters_closed

\* A consumer that holds nothing is handed an item nobody has accepted.
LEMMA HandOff ==
  ASSUME TypeOK, ExactlyOnce, NoItem \notin Items,
         NEW r \in Consumers, item[r] = NoItem,
         NEW i \in Items, i \notin accepted,
         item' = [item EXCEPT ![r] = i],
         accepted' = accepted \union {i},
         queue' = queue, received' = received
  PROVE  ExactlyOnce'
<1>1. item'[r] = i /\ \A c \in Consumers \ {r} : item'[c] = item[c]
  BY DEF TypeOK
<1>2. i \notin queue /\ i \notin received /\ \A c \in Consumers : item[c] # i
  BY DEF ExactlyOnce
<1>3. \A j \in Items : j \in accepted' <=>
        j \in queue' \/ j \in received' \/ \E c \in Consumers : item'[c] = j
  <2>1. ASSUME NEW j \in Items, j # i
        PROVE  (\E c \in Consumers : item'[c] = j) <=> (\E c \in Consumers : item[c] = j)
    BY <1>1, <2>1
  <2> QED
    BY <1>1, <2>1 DEF ExactlyOnce
<1> QED
  BY <1>1, <1>2, <1>3 DEF ExactlyOnce

\* No step loses, duplicates or invents an item.
LEMMA StepExactlyOnce ==
  ASSUME IInv, NEW a \in Actors,
         ActorStep(a) \/ (a \in Closers /\ close(a))
  PROVE  ExactlyOnce'
<1>0. NoItem \notin Items
  BY ChannelAssumption
<1>t. TypeOK
  BY DEF IInv
<1>a. ASSUME recvWaiters # <<>>
      PROVE  Head(recvWaiters) \in Receivers /\ item[Head(recvWaiters)] = NoItem
  BY <1>a, HeadTail, PopListed DEF IInv, TypeOK, ListedOnce, ParkedIsListed
<1>b. ASSUME sendWaiters # <<>>
      PROVE  Head(sendWaiters) \in Senders /\ pc[Head(sendWaiters)] = "parked"
  BY <1>b, HeadTail, PopListed DEF IInv, TypeOK, ListedOnce, ParkedIsListed
<1>c. ASSUME NEW s \in Senders, pc[s] \in NotYetAccepted
      PROVE  Current(s) \in Items /\ Current(s) \notin accepted
  BY <1>c, CurrentType DEF IInv, TypeOK, Fresh, Current
<1> USE DEF TypeOK, ExactlyOnce, hist
<1>1. CASE a \in Senders /\ SendHandOff(a)
  <2> HIDE DEF TypeOK, ExactlyOnce
  <2>1. /\ Head(recvWaiters) \in Consumers /\ item[Head(recvWaiters)] = NoItem
        /\ Current(a) \in Items /\ Current(a) \notin accepted
    BY <1>1, <1>a, <1>c DEF SendHandOff, CanSend, NotYetAccepted, Consumers
  <2>2. /\ item' = [item EXCEPT ![Head(recvWaiters)] = Current(a)]
        /\ accepted' = accepted \union {Current(a)}
        /\ queue' = queue /\ received' = received
    BY <1>1 DEF SendHandOff, buffer
  <2> QED
    BY <1>0, <1>t, <2>1, <2>2, HandOff DEF IInv
<1>2. CASE a \in Senders /\ SendEnqueue(a)
  BY <1>2, <1>0, <1>t, <1>c DEF SendEnqueue, CanSend, Put,
     NotYetAccepted, IInv, Consumers
<1>3. CASE a \in Senders /\ TrySendHandOff(a)
  <2> HIDE DEF TypeOK, ExactlyOnce
  <2>1. /\ Head(recvWaiters) \in Consumers /\ item[Head(recvWaiters)] = NoItem
        /\ Current(a) \in Items /\ Current(a) \notin accepted
    BY <1>3, <1>a, <1>c DEF TrySendHandOff, NotYetAccepted, Consumers
  <2>2. /\ item' = [item EXCEPT ![Head(recvWaiters)] = Current(a)]
        /\ accepted' = accepted \union {Current(a)}
        /\ queue' = queue /\ received' = received
    BY <1>3 DEF TrySendHandOff, buffer
  <2> QED
    BY <1>0, <1>t, <2>1, <2>2, HandOff DEF IInv
<1>4. CASE a \in Senders /\ TrySendEnqueue(a)
  BY <1>4, <1>0, <1>t, <1>c DEF TrySendEnqueue, Put, NotYetAccepted,
     IInv, Consumers
<1>5. CASE a \in Consumers /\ FastDequeue(a)
  BY <1>5, <1>0, <1>t DEF FastDequeue, Take, EmptyHanded, LookingFor,
     IInv, Consumers
<1>6. CASE a \in Consumers /\ WakeSender(a)
  BY <1>6, <1>0, <1>t, <1>b, <1>c DEF WakeSender, NotYetAccepted, IInv,
     Consumers
<1>7. CASE a \in Consumers /\ ReceiveResult(a)
  <2>1. item'[a] = NoItem /\ \A c \in Consumers \ {a} : item'[c] = item[c]
    BY <1>7, <1>t DEF ReceiveResult
  <2>2. queue' = queue /\ accepted' = accepted
    BY <1>7 DEF ReceiveResult, buffer
  <2>3. received' = IF item[a] = NoItem THEN received ELSE received \union {item[a]}
    BY <1>7 DEF ReceiveResult
  <2>4. \A j \in Items : j \in accepted' <=>
          j \in queue' \/ j \in received' \/ \E c \in Consumers : item'[c] = j
    <3>1. ASSUME NEW j \in Items, j # item[a]
          PROVE  (\E c \in Consumers : item'[c] = j) <=> (\E c \in Consumers : item[c] = j)
      BY <1>0, <2>1, <3>1
    <3> QED
      BY <1>0, <1>7, <2>1, <2>2, <2>3, <3>1 DEF IInv
  <2>5. queue' \intersect received' = {}
    BY <1>7, <2>2, <2>3 DEF IInv
  <2>6. \A c \in Consumers : item'[c] \notin queue' \union received'
    <3>1. NoItem \notin queue \union received'
      BY <1>0, <1>t, <2>3
    <3> QED
      BY <1>7, <2>1, <2>2, <2>3, <3>1 DEF IInv
  <2>7. \A c, d \in Consumers :
          c # d /\ item'[c] = item'[d] => item'[c] = NoItem
    BY <1>7, <2>1 DEF IInv
  <2> QED
    BY <2>4, <2>5, <2>6, <2>7
<1>8. CASE a \in Receivers /\ ReadyDequeue(a)
  BY <1>8, <1>0, <1>t DEF ReadyDequeue, LockedDequeue, Take, EmptyHanded,
     LookingFor, IInv, Consumers
<1>9. CASE a \in Receivers /\ SuspendDequeue(a)
  BY <1>9, <1>0, <1>t DEF SuspendDequeue, LockedDequeue, Take,
     EmptyHanded, LookingFor, IInv, Consumers
<1>10. CASE a \in Receivers /\ SuspendFromSender(a)
  <2>1. item[a] = NoItem /\ a \in Consumers
    BY <1>10 DEF SuspendFromSender, IInv, EmptyHanded, LookingFor, Consumers
  <2>2. CASE userClosed
    BY <1>10, <2>2 DEF SuspendFromSender, IInv, buffer
  <2>3. CASE ~userClosed
    <3>1. /\ Current(Head(sendWaiters)) \in Items
          /\ Current(Head(sendWaiters)) \notin accepted
      BY <1>10, <1>b, <1>c DEF SuspendFromSender, NotYetAccepted
    <3> QED
      BY <1>10, <1>0, <1>t, <2>1, <2>3, <3>1, HandOff
      DEF SuspendFromSender, IInv, buffer
  <2> QED
    BY <2>2, <2>3
<1>11. CASE a \in Blockers /\ BlockingTake(a)
  BY <1>11, <1>0, <1>t DEF BlockingTake, LockedDequeue, Take,
     EmptyHanded, LookingFor, IInv, Consumers
<1>12. CASE WakeWithItem(a)
  BY <1>12, <1>0, <1>t, <1>a DEF WakeWithItem, LockedDequeue, Take, IInv,
     Consumers
<1>13. CASE WakeWithEnd(a)
  <2>1. UNCHANGED <<queue, hist>> /\ item' = item
    BY <1>13, <1>a, <1>t DEF WakeWithEnd, buffer, Consumers
  <2> QED
    BY <2>1 DEF IInv
<1>14. CASE UNCHANGED <<queue, item, hist>>
  BY <1>14 DEF IInv
<1> QED
  BY Quiet, <1>1, <1>2, <1>3, <1>4, <1>5, <1>6, <1>7, <1>8, <1>9, <1>10,
     <1>11, <1>12, <1>13, <1>14

\* The inductive invariant holds initially.
LEMMA InitIInv == Init => IInv
<1> SUFFICES ASSUME Init PROVE IInv
  OBVIOUS
<1>1. TypeOK
  BY InitType
<1>2. Fresh /\ EmptyHanded /\ ExactlyOnce
  BY ChannelAssumption DEF Init, Fresh, EmptyHanded, ExactlyOnce
<1>3. ListedOnce
  BY DEF Init, ListedOnce, Once
<1>4. ParkedIsListed
  BY ChannelAssumption DEF Init, ParkedIsListed, Listed, Actors, Consumers
<1> QED
  BY <1>1, <1>2, <1>3, <1>4 DEF IInv

\* One step of one actor keeps the inductive invariant.
LEMMA StepIInv ==
  ASSUME IInv, NEW a \in Actors,
         ActorStep(a) \/ (a \in Closers /\ close(a))
  PROVE  IInv'
<1>1. TypeOK' /\ Fresh' /\ EmptyHanded' /\ ExactlyOnce'
  BY StepType, StepFresh, StepEmptyHanded, StepExactlyOnce DEF IInv
<1>2. SendersListed' /\ ReceiversListed'
  <2>1. TypeOK /\ EmptyHanded /\ SendersListed /\ ReceiversListed
    BY DEF IInv, ListedOnce, ParkedIsListed, SendersListed, ReceiversListed
  <2> QED
    BY <2>1, StepSendersListed, StepReceiversListed
<1> QED
  BY <1>1, <1>2
  DEF IInv, ListedOnce, ParkedIsListed, SendersListed, ReceiversListed

\* The inductive invariant is inductive.
LEMMA NextIInv == IInv /\ [Next]_vars => IInv'
<1> SUFFICES ASSUME IInv, [Next]_vars PROVE IInv'
  OBVIOUS
<1>1. CASE UNCHANGED vars
  BY <1>1 DEF IInv, TypeOK, Fresh, EmptyHanded, ListedOnce, Once,
     ParkedIsListed, Listed, ExactlyOnce, vars, buffer, life, waiters, hist
<1>2. ASSUME NEW a \in Actors, ActorStep(a) PROVE IInv'
  BY <1>2, StepIInv
<1>3. ASSUME NEW x \in Closers, close(x) PROVE IInv'
  BY <1>3, StepIInv DEF Actors
<1>4. CASE Terminating
  BY <1>1, <1>4 DEF Terminating
<1> QED
  BY <1>1, <1>2, <1>3, <1>4 DEF Next

\* An item whose send succeeded is always in exactly one place, however send,
\* try_send, receive, blocking_receive and close() interleave: the hand-offs
\* of SendAwaitable, ReceiveAwaitable and try_send_impl neither lose nor
\* duplicate it.
THEOREM Delivery == Spec => []ExactlyOnce
<1>1. IInv => ExactlyOnce
  BY DEF IInv
<1> QED
  BY <1>1, InitIInv, NextIInv, PTL DEF Spec

\* The intrusive waiter lists name exactly the suspended coroutines: nobody is
\* suspended and forgotten, and nobody is resumed and still listed.
THEOREM NoStray == Spec => []ParkedIsListed
<1>1. IInv => ParkedIsListed
  BY DEF IInv
<1> QED
  BY <1>1, InitIInv, NextIInv, PTL DEF Spec

-----------------------------------------------------------------------------
(* close() *)

\* With user_closed_ set no step of any actor accepts an item.
LEMMA ClosedStep ==
  ASSUME userClosed, NEW a \in Actors,
         ActorStep(a) \/ (a \in Closers /\ close(a))
  PROVE  accepted' = accepted
<1>1. CASE \/ a \in Senders /\ SendHandOff(a)
           \/ a \in Senders /\ SendEnqueue(a)
           \/ a \in Senders /\ TrySendHandOff(a)
           \/ a \in Senders /\ TrySendEnqueue(a)
           \/ a \in Consumers /\ WakeSender(a)
  BY <1>1 DEF SendHandOff, SendEnqueue, TrySendHandOff, TrySendEnqueue, WakeSender
<1>2. CASE \/ a \in Consumers /\ FastDequeue(a)
           \/ a \in Consumers /\ ReceiveResult(a)
           \/ a \in Receivers /\ ReadyDequeue(a)
           \/ a \in Receivers /\ SuspendDequeue(a)
           \/ a \in Receivers /\ SuspendFromSender(a)
           \/ a \in Blockers /\ BlockingTake(a)
           \/ WakeWithItem(a)
           \/ WakeWithEnd(a)
  BY <1>2 DEF FastDequeue, ReceiveResult, ReadyDequeue, SuspendDequeue,
     SuspendFromSender, BlockingTake, WakeWithItem, WakeWithEnd, hist
<1>3. CASE UNCHANGED <<queue, item, hist>>
  BY <1>3 DEF hist
<1> QED
  BY <1>1, <1>2, <1>3, Quiet

\* After close() has set user_closed_ under the mutex no send succeeds, even
\* one that had already begun, and no suspended one.
THEOREM ClosedForGood == Spec => NoSendAfterClose
<1>1. ASSUME [Next]_vars, userClosed PROVE accepted' = accepted
  <2>1. CASE UNCHANGED vars
    BY <2>1 DEF vars, hist
  <2>2. ASSUME NEW a \in Actors, ActorStep(a) PROVE accepted' = accepted
    BY <1>1, <2>2, ClosedStep
  <2>3. ASSUME NEW x \in Closers, close(x) PROVE accepted' = accepted
    BY <1>1, <2>3, ClosedStep DEF Actors
  <2>4. CASE Terminating
    BY <2>1, <2>4 DEF Terminating
  <2> QED
    BY <1>1, <2>1, <2>2, <2>3, <2>4 DEF Next
<1>2. [Next]_vars => [userClosed => accepted' = accepted]_vars
  BY <1>1
<1> QED
  BY <1>2, PTL DEF Spec, NoSendAfterClose

-----------------------------------------------------------------------------
(* Nobody is forgotten *)

\* The heads of the lists are suspended coroutines.
LEMMA Heads ==
  ASSUME IInv
  PROVE  /\ recvWaiters # <<>> =>
              /\ Head(recvWaiters) \in Receivers /\ pc[Head(recvWaiters)] = "parked"
              /\ item[Head(recvWaiters)] = NoItem
         /\ sendWaiters # <<>> =>
              Head(sendWaiters) \in Senders /\ pc[Head(sendWaiters)] = "parked"
  BY HeadTail, PopListed DEF IInv, TypeOK, ListedOnce, ParkedIsListed

\* A step of one actor moves another only if that one is suspended or asleep.
LEMMA OthersStep ==
  ASSUME IInv, NEW a \in Actors, ActorStep(a) \/ (a \in Closers /\ close(a)),
         NEW x \in Actors, x # a
  PROVE  \/ pc'[x] = pc[x]
         \/ pc[x] \in {"parked", "cvWait"} /\ pc'[x] = Resumed(x)
<1> USE DEF Move
<1>1. CASE a \in Senders /\ register_producer(a)
  BY <1>1 DEF register_producer
<1>2. CASE a \in Senders /\ SendClosed(a)
  BY <1>2 DEF SendClosed, CanSend
<1>3. CASE a \in Senders /\ SendHandOff(a)
  BY <1>3, Heads DEF SendHandOff, CanSend
<1>4. CASE a \in Senders /\ SendPark(a)
  BY <1>4 DEF SendPark, CanSend
<1>5. CASE a \in Senders /\ SendEnqueue(a)
  BY <1>5 DEF SendEnqueue, CanSend, Sleeping, NotifyOne
<1>6. CASE a \in Senders /\ TrySendBegin(a)
  BY <1>6 DEF TrySendBegin
<1>7. CASE a \in Senders /\ TrySendCount(a)
  BY <1>7 DEF TrySendCount
<1>8. CASE a \in Senders /\ TrySendReject(a)
  BY <1>8 DEF TrySendReject, Sleeping
<1>9. CASE a \in Senders /\ TrySendHandOff(a)
  BY <1>9 DEF TrySendHandOff
<1>10. CASE a \in Senders /\ TrySendEnqueue(a)
  BY <1>10 DEF TrySendEnqueue
<1>11. CASE a \in Senders /\ TrySendNoBlock(a)
  BY <1>11 DEF TrySendNoBlock
<1>12. CASE a \in Senders /\ TrySendExit(a)
  BY <1>12 DEF TrySendExit, Sleeping, NotifyOne
<1>13. CASE a \in Senders /\ SendNext(a)
  BY <1>13 DEF SendNext
<1>14. CASE a \in Senders /\ SendLast(a)
  BY <1>14 DEF SendLast
<1>15. CASE a \in Senders /\ release_producer(a)
  BY <1>15 DEF release_producer, Sleeping
<1>16. CASE a \in Consumers /\ FastDequeue(a)
  BY <1>16 DEF FastDequeue, Take
<1>17. CASE a \in Consumers /\ FastMiss(a)
  BY <1>17 DEF FastMiss
<1>18. CASE a \in Consumers /\ Missed(a)
  BY <1>18 DEF Missed
<1>19. CASE a \in Consumers /\ mark_item_consumed(a)
  BY <1>19 DEF mark_item_consumed
<1>20. CASE a \in Consumers /\ WakeNoSender(a)
  BY <1>20 DEF WakeNoSender, AfterWakeOne
<1>21. CASE a \in Consumers /\ WakeRejectedSender(a)
  BY <1>21, Heads DEF WakeRejectedSender, AfterWakeOne
<1>22. CASE a \in Consumers /\ WakeSender(a)
  BY <1>22, Heads DEF WakeSender, AfterWakeOne, NotifyOne, Sleeping
<1>23. CASE a \in Consumers /\ ReceiveResult(a)
  BY <1>23 DEF ReceiveResult
<1>24. CASE a \in Receivers /\ ReadyDequeue(a)
  BY <1>24 DEF ReadyDequeue, LockedDequeue, Take
<1>25. CASE a \in Receivers /\ ReadyEmpty(a)
  BY <1>25 DEF ReadyEmpty
<1>26. CASE a \in Receivers /\ SuspendDequeue(a)
  BY <1>26 DEF SuspendDequeue, LockedDequeue, Take
<1>27. CASE a \in Receivers /\ SuspendFromSender(a)
  BY <1>27, Heads DEF SuspendFromSender
<1>28. CASE a \in Receivers /\ SuspendEnd(a)
  BY <1>28 DEF SuspendEnd
<1>29. CASE a \in Receivers /\ SuspendPark(a)
  BY <1>29 DEF SuspendPark
<1>30. CASE a \in Blockers /\ BlockingTake(a)
  BY <1>30 DEF BlockingTake, LockedDequeue, Take
<1>31. CASE a \in Blockers /\ BlockingWait(a)
  BY <1>31 DEF BlockingWait
<1>32. CASE a \in Blockers /\ BlockingSleep(a)
  BY <1>32 DEF BlockingSleep
<1>33. CASE notify_all_waiters(a)
  BY <1>33 DEF notify_all_waiters
<1>34. CASE notify_all_then_senders(a)
  BY <1>34 DEF notify_all_then_senders
<1>35. CASE maybe_notify_terminal(a)
  BY <1>35 DEF maybe_notify_terminal, AfterTerminal, Sleeping
<1>36. CASE WakeWithItem(a)
  BY <1>36, Heads DEF WakeWithItem, LockedDequeue, Take
<1>37. CASE WakeWithEnd(a)
  BY <1>37, Heads DEF WakeWithEnd
<1>38. CASE WakeReceiverDone(a)
  BY <1>38 DEF WakeReceiverDone, AfterTerminal
<1>39. CASE RejectSender(a)
  BY <1>39, Heads DEF RejectSender
<1>40. CASE RejectSenderDone(a)
  BY <1>40 DEF RejectSenderDone
<1>41. CASE a \in Closers /\ close(a)
  BY <1>41 DEF close, Sleeping
<1> QED
  BY <1>1, <1>2, <1>3, <1>4, <1>5, <1>6, <1>7, <1>8, <1>9, <1>10, <1>11,
     <1>12, <1>13, <1>14, <1>15, <1>16, <1>17, <1>18, <1>19, <1>20, <1>21,
     <1>22, <1>23, <1>24, <1>25, <1>26, <1>27, <1>28, <1>29, <1>30, <1>31,
     <1>32, <1>33, <1>34, <1>35, <1>36, <1>37, <1>38, <1>39, <1>40, <1>41
  DEF ActorStep, send, try_send, receive, await_ready, await_suspend,
       blocking_receive, wake_one_send_waiter_after_receive,
       wake_all_receive_waiters_terminal, wake_all_send_waiters_closed

\* Who has an item out of the queue and has not released its slot, and who has
\* not counted it out.
ReleaseLabels == {"mark", "wakeOne", "wakeOneTerm"}
Releasing == {c \in Consumers : pc[c] \in ReleaseLabels}
Marking   == {c \in Consumers : pc[c] = "mark"}

\* Where whoever has closed the channel wakes the suspended.
CloseLabels == {"notifyAll", "wakeRecv", "afterRecv", "wakeSend"}

\* The steps into and out of these labels.
LEMMA OwnLabels ==
  ASSUME IInv, NEW a \in Actors, ActorStep(a) \/ (a \in Closers /\ close(a))
  PROVE  /\ pc[a] \in ReleaseLabels =>
              /\ a \in Consumers
              /\ \/ mark_item_consumed(a) \/ WakeNoSender(a)
                 \/ WakeRejectedSender(a) \/ WakeSender(a)
         /\ pc[a] \in CloseLabels /\ userClosed => pc'[a] \in CloseLabels \/ RejectSenderDone(a)
         /\ userClosed => userClosed'
<1> USE DEF Move, ReleaseLabels, CloseLabels
<1>1. CASE a \in Senders /\ register_producer(a)
  BY <1>1 DEF register_producer, life
<1>2. CASE a \in Senders /\ SendClosed(a)
  BY <1>2 DEF SendClosed, CanSend, life
<1>3. CASE a \in Senders /\ SendHandOff(a)
  BY <1>3 DEF SendHandOff, CanSend, life
<1>4. CASE a \in Senders /\ SendPark(a)
  BY <1>4 DEF SendPark, CanSend, life
<1>5. CASE a \in Senders /\ SendEnqueue(a)
  BY <1>5 DEF SendEnqueue, CanSend, Sleeping, NotifyOne, life
<1>6. CASE a \in Senders /\ TrySendBegin(a)
  BY <1>6 DEF TrySendBegin, life
<1>7. CASE a \in Senders /\ TrySendCount(a)
  BY <1>7 DEF TrySendCount, life
<1>8. CASE a \in Senders /\ TrySendReject(a)
  BY <1>8 DEF TrySendReject, Sleeping, life
<1>9. CASE a \in Senders /\ TrySendHandOff(a)
  BY <1>9 DEF TrySendHandOff, life
<1>10. CASE a \in Senders /\ TrySendEnqueue(a)
  BY <1>10 DEF TrySendEnqueue, life
<1>11. CASE a \in Senders /\ TrySendNoBlock(a)
  BY <1>11 DEF TrySendNoBlock, life
<1>12. CASE a \in Senders /\ TrySendExit(a)
  BY <1>12 DEF TrySendExit, Sleeping, NotifyOne, life
<1>13. CASE a \in Senders /\ SendNext(a)
  BY <1>13 DEF SendNext, life
<1>14. CASE a \in Senders /\ SendLast(a)
  BY <1>14 DEF SendLast, life
<1>15. CASE a \in Senders /\ release_producer(a)
  BY <1>15 DEF release_producer, Sleeping, life
<1>16. CASE a \in Consumers /\ FastDequeue(a)
  BY <1>16 DEF FastDequeue, Take, life
<1>17. CASE a \in Consumers /\ FastMiss(a)
  BY <1>17 DEF FastMiss, life
<1>18. CASE a \in Consumers /\ Missed(a)
  BY <1>18 DEF Missed, life
<1>19. CASE a \in Consumers /\ mark_item_consumed(a)
  BY <1>19 DEF mark_item_consumed, life
<1>20. CASE a \in Consumers /\ WakeNoSender(a)
  BY <1>20 DEF WakeNoSender, AfterWakeOne, life
<1>21. CASE a \in Consumers /\ WakeRejectedSender(a)
  BY <1>21 DEF WakeRejectedSender, AfterWakeOne, life
<1>22. CASE a \in Consumers /\ WakeSender(a)
  BY <1>22 DEF WakeSender, AfterWakeOne, NotifyOne, Sleeping, life
<1>23. CASE a \in Consumers /\ ReceiveResult(a)
  BY <1>23 DEF ReceiveResult, life
<1>24. CASE a \in Receivers /\ ReadyDequeue(a)
  BY <1>24 DEF ReadyDequeue, LockedDequeue, Take, life
<1>25. CASE a \in Receivers /\ ReadyEmpty(a)
  BY <1>25 DEF ReadyEmpty, life
<1>26. CASE a \in Receivers /\ SuspendDequeue(a)
  BY <1>26 DEF SuspendDequeue, LockedDequeue, Take, life
<1>27. CASE a \in Receivers /\ SuspendFromSender(a)
  BY <1>27 DEF SuspendFromSender, life
<1>28. CASE a \in Receivers /\ SuspendEnd(a)
  BY <1>28 DEF SuspendEnd, life
<1>29. CASE a \in Receivers /\ SuspendPark(a)
  BY <1>29 DEF SuspendPark, life
<1>30. CASE a \in Blockers /\ BlockingTake(a)
  BY <1>30 DEF BlockingTake, LockedDequeue, Take, life
<1>31. CASE a \in Blockers /\ BlockingWait(a)
  BY <1>31 DEF BlockingWait, life
<1>32. CASE a \in Blockers /\ BlockingSleep(a)
  BY <1>32 DEF BlockingSleep, life
<1>33. CASE notify_all_waiters(a)
  BY <1>33 DEF notify_all_waiters, life, NoMoreSenders
<1>34. CASE notify_all_then_senders(a)
  BY <1>34 DEF notify_all_then_senders, life
<1>35. CASE maybe_notify_terminal(a)
  BY <1>35 DEF maybe_notify_terminal, AfterTerminal, Sleeping, life
<1>36. CASE WakeWithItem(a)
  BY <1>36 DEF WakeWithItem, LockedDequeue, Take, life
<1>37. CASE WakeWithEnd(a)
  BY <1>37 DEF WakeWithEnd, life
<1>38. CASE WakeReceiverDone(a)
  BY <1>38 DEF WakeReceiverDone, AfterTerminal, life
<1>39. CASE RejectSender(a)
  BY <1>39 DEF RejectSender, life
<1>40. CASE RejectSenderDone(a)
  BY <1>40 DEF RejectSenderDone, life
<1>41. CASE a \in Closers /\ close(a)
  BY <1>41 DEF close, Sleeping, life
<1> QED
  BY <1>1, <1>2, <1>3, <1>4, <1>5, <1>6, <1>7, <1>8, <1>9, <1>10, <1>11,
     <1>12, <1>13, <1>14, <1>15, <1>16, <1>17, <1>18, <1>19, <1>20, <1>21,
     <1>22, <1>23, <1>24, <1>25, <1>26, <1>27, <1>28, <1>29, <1>30, <1>31,
     <1>32, <1>33, <1>34, <1>35, <1>36, <1>37, <1>38, <1>39, <1>40, <1>41
  DEF ActorStep, send, try_send, receive, await_ready, await_suspend,
       blocking_receive, wake_one_send_waiter_after_receive,
       wake_all_receive_waiters_terminal, wake_all_send_waiters_closed

\* A step of one actor leaves the others at or away from these labels.
LEMMA OthersLabels ==
  ASSUME IInv, NEW a \in Actors, ActorStep(a) \/ (a \in Closers /\ close(a))
  PROVE  /\ \A x \in Actors \ {a} :
              /\ pc[x] \in ReleaseLabels <=> pc'[x] \in ReleaseLabels
              /\ pc[x] = "mark" <=> pc'[x] = "mark"
              /\ pc[x] \in CloseLabels <=> pc'[x] \in CloseLabels
         /\ Releasing' \ {a} = Releasing \ {a}
         /\ Marking' \ {a} = Marking \ {a}
<1>1. ASSUME NEW x \in Actors \ {a}
      PROVE  /\ pc[x] \in ReleaseLabels <=> pc'[x] \in ReleaseLabels
             /\ pc[x] = "mark" <=> pc'[x] = "mark"
             /\ pc[x] \in CloseLabels <=> pc'[x] \in CloseLabels
  <2>1. \/ pc'[x] = pc[x]
        \/ pc[x] \in {"parked", "cvWait"} /\ pc'[x] \in {"sent", "blockLock", "got"}
    BY OthersStep DEF Resumed
  <2> QED
    BY <2>1 DEF ReleaseLabels, CloseLabels
<1> QED
  BY <1>1 DEF Releasing, Marking, Actors

\* The ways in which a step moves items into and out of the queue, and their
\* slots and counts with them.
Stays ==
  UNCHANGED <<queue, pending, slots>> /\ Releasing' = Releasing /\ Marking' = Marking
Enters ==
  /\ \E i \in Items \ queue : queue' = queue \union {i}
  /\ pending' = pending + 1 /\ Marking' = Marking
  /\ \/ recvWaiters = <<>> /\ Releasing' = Releasing
        /\ slots' = IF Bounded THEN slots - 1 ELSE slots
     \/ sendWaiters # <<>> /\ slots' = slots
        /\ \E c \in Releasing : Releasing' = Releasing \ {c}
Leaves ==
  /\ \E i \in queue : queue' = queue \ {i}
  /\ \/ pending' = pending - 1 /\ Marking' = Marking
     \/ pending' = pending /\ \E c \in Consumers \ Marking : Marking' = Marking \union {c}
  /\ \/ recvWaiters # <<>> /\ slots' = FreedSlots(1) /\ Releasing' = Releasing
     \/ /\ slots' \in {slots, FreedSlots(1)}
        /\ \E c \in Consumers \ Releasing : Releasing' = Releasing \union {c}
Counts ==
  /\ UNCHANGED <<queue, slots>> /\ Releasing' = Releasing
  /\ pending' = pending - 1 /\ \E c \in Marking : Marking' = Marking \ {c}
Frees ==
  /\ UNCHANGED <<queue, pending>> /\ Marking' = Marking
  /\ slots' = FreedSlots(1) /\ \E c \in Releasing : Releasing' = Releasing \ {c}
  /\ sendWaiters = <<>> \/ userClosed

\* A set of which at most the membership of a changed.
LEMMA OneChanged ==
  ASSUME NEW S, NEW T, NEW a, T \ {a} = S \ {a}
  PROVE  /\ (a \in S <=> a \in T) => T = S
         /\ a \notin S /\ a \in T => T = S \union {a}
         /\ a \in S /\ a \notin T => T = S \ {a}
  OBVIOUS

\* All other steps leave the buffer and these labels alone.
LEMMA Bystanders ==
  ASSUME IInv, NEW a \in Actors, ActorStep(a) \/ (a \in Closers /\ close(a))
  PROVE
    \/ a \in Senders /\ SendEnqueue(a)
    \/ a \in Senders /\ TrySendEnqueue(a)
    \/ a \in Consumers /\ FastDequeue(a)
    \/ a \in Consumers /\ mark_item_consumed(a)
    \/ a \in Consumers /\ WakeNoSender(a)
    \/ a \in Consumers /\ WakeRejectedSender(a)
    \/ a \in Consumers /\ WakeSender(a)
    \/ a \in Receivers /\ ReadyDequeue(a)
    \/ a \in Receivers /\ SuspendDequeue(a)
    \/ a \in Blockers /\ BlockingTake(a)
    \/ WakeWithItem(a)
    \/ /\ UNCHANGED buffer
       /\ pc[a] \in ReleaseLabels <=> pc'[a] \in ReleaseLabels
       /\ pc[a] = "mark" <=> pc'[a] = "mark"
<1> USE DEF Move, ReleaseLabels
<1>1. CASE a \in Senders /\ register_producer(a)
  BY <1>1 DEF register_producer
<1>2. CASE a \in Senders /\ SendClosed(a)
  BY <1>2 DEF SendClosed, CanSend
<1>3. CASE a \in Senders /\ SendHandOff(a)
  BY <1>3 DEF SendHandOff, CanSend
<1>4. CASE a \in Senders /\ SendPark(a)
  BY <1>4 DEF SendPark, CanSend
<1>5. CASE a \in Senders /\ SendEnqueue(a)
  BY <1>5
<1>6. CASE a \in Senders /\ TrySendBegin(a)
  BY <1>6 DEF TrySendBegin
<1>7. CASE a \in Senders /\ TrySendCount(a)
  BY <1>7 DEF TrySendCount
<1>8. CASE a \in Senders /\ TrySendReject(a)
  BY <1>8 DEF TrySendReject, Sleeping
<1>9. CASE a \in Senders /\ TrySendHandOff(a)
  BY <1>9 DEF TrySendHandOff
<1>10. CASE a \in Senders /\ TrySendEnqueue(a)
  BY <1>10
<1>11. CASE a \in Senders /\ TrySendNoBlock(a)
  BY <1>11 DEF TrySendNoBlock
<1>12. CASE a \in Senders /\ TrySendExit(a)
  BY <1>12 DEF TrySendExit, Sleeping, NotifyOne
<1>13. CASE a \in Senders /\ SendNext(a)
  BY <1>13 DEF SendNext
<1>14. CASE a \in Senders /\ SendLast(a)
  BY <1>14 DEF SendLast
<1>15. CASE a \in Senders /\ release_producer(a)
  BY <1>15 DEF release_producer, Sleeping
<1>16. CASE a \in Consumers /\ FastDequeue(a)
  BY <1>16
<1>17. CASE a \in Consumers /\ FastMiss(a)
  BY <1>17 DEF FastMiss
<1>18. CASE a \in Consumers /\ Missed(a)
  BY <1>18 DEF Missed
<1>19. CASE a \in Consumers /\ mark_item_consumed(a)
  BY <1>19
<1>20. CASE a \in Consumers /\ WakeNoSender(a)
  BY <1>20
<1>21. CASE a \in Consumers /\ WakeRejectedSender(a)
  BY <1>21
<1>22. CASE a \in Consumers /\ WakeSender(a)
  BY <1>22
<1>23. CASE a \in Consumers /\ ReceiveResult(a)
  BY <1>23 DEF ReceiveResult
<1>24. CASE a \in Receivers /\ ReadyDequeue(a)
  BY <1>24
<1>25. CASE a \in Receivers /\ ReadyEmpty(a)
  BY <1>25 DEF ReadyEmpty
<1>26. CASE a \in Receivers /\ SuspendDequeue(a)
  BY <1>26
<1>27. CASE a \in Receivers /\ SuspendFromSender(a)
  BY <1>27 DEF SuspendFromSender
<1>28. CASE a \in Receivers /\ SuspendEnd(a)
  BY <1>28 DEF SuspendEnd
<1>29. CASE a \in Receivers /\ SuspendPark(a)
  BY <1>29 DEF SuspendPark
<1>30. CASE a \in Blockers /\ BlockingTake(a)
  BY <1>30
<1>31. CASE a \in Blockers /\ BlockingWait(a)
  BY <1>31 DEF BlockingWait
<1>32. CASE a \in Blockers /\ BlockingSleep(a)
  BY <1>32 DEF BlockingSleep
<1>33. CASE notify_all_waiters(a)
  BY <1>33 DEF notify_all_waiters
<1>34. CASE notify_all_then_senders(a)
  BY <1>34 DEF notify_all_then_senders
<1>35. CASE maybe_notify_terminal(a)
  BY <1>35 DEF maybe_notify_terminal, AfterTerminal, Sleeping
<1>36. CASE WakeWithItem(a)
  BY <1>36
<1>37. CASE WakeWithEnd(a)
  BY <1>37 DEF WakeWithEnd
<1>38. CASE WakeReceiverDone(a)
  BY <1>38 DEF WakeReceiverDone, AfterTerminal
<1>39. CASE RejectSender(a)
  BY <1>39 DEF RejectSender
<1>40. CASE RejectSenderDone(a)
  BY <1>40 DEF RejectSenderDone
<1>41. CASE a \in Closers /\ close(a)
  BY <1>41 DEF close, Sleeping
<1> QED
  BY <1>1, <1>2, <1>3, <1>4, <1>5, <1>6, <1>7, <1>8, <1>9, <1>10, <1>11,
     <1>12, <1>13, <1>14, <1>15, <1>16, <1>17, <1>18, <1>19, <1>20, <1>21,
     <1>22, <1>23, <1>24, <1>25, <1>26, <1>27, <1>28, <1>29, <1>30, <1>31,
     <1>32, <1>33, <1>34, <1>35, <1>36, <1>37, <1>38, <1>39, <1>40, <1>41
  DEF ActorStep, send, try_send, receive, await_ready, await_suspend,
       blocking_receive, wake_one_send_waiter_after_receive,
       wake_all_receive_waiters_terminal, wake_all_send_waiters_closed

\* Every step moves items in one of these ways.
LEMMA BufferSteps ==
  ASSUME IInv, NEW a \in Actors, ActorStep(a) \/ (a \in Closers /\ close(a))
  PROVE  Stays \/ Enters \/ Leaves \/ Counts \/ Frees
<1>a. /\ a \in Releasing <=> a \in Consumers /\ pc[a] \in ReleaseLabels
      /\ a \in Releasing' <=> a \in Consumers /\ pc'[a] \in ReleaseLabels
      /\ a \in Marking <=> a \in Consumers /\ pc[a] = "mark"
      /\ a \in Marking' <=> a \in Consumers /\ pc'[a] = "mark"
  BY DEF Releasing, Marking
<1>b. /\ (a \in Releasing <=> a \in Releasing') => Releasing' = Releasing
      /\ a \notin Releasing /\ a \in Releasing' => Releasing' = Releasing \union {a}
      /\ a \in Releasing /\ a \notin Releasing' => Releasing' = Releasing \ {a}
      /\ (a \in Marking <=> a \in Marking') => Marking' = Marking
      /\ a \notin Marking /\ a \in Marking' => Marking' = Marking \union {a}
      /\ a \in Marking /\ a \notin Marking' => Marking' = Marking \ {a}
  BY OthersLabels, OneChanged
<1>c. Senders \intersect Consumers = {} /\ Receivers \union Blockers = Consumers
  BY ChannelAssumption DEF Consumers
<1>d. ASSUME NEW s \in Senders, pc[s] \in NotYetAccepted
      PROVE  Current(s) \in Items \ queue
  BY <1>d, CurrentType DEF IInv, TypeOK, Fresh, Current, ExactlyOnce
<1>e. sendWaiters # <<>> => Head(sendWaiters) \in Senders /\ pc[Head(sendWaiters)] = "parked"
  BY Heads
<1>f. FreedSlots(0) = slots
  BY DEF FreedSlots, IInv, TypeOK
<1>p. pc' \in [Actors -> Labels] /\ pc \in [Actors -> Labels]
  BY StepPc DEF IInv, TypeOK
<1>1. CASE a \in Senders /\ SendEnqueue(a)
  <2>1. a \notin Consumers
    BY <1>1, <1>c
  <2>2. Releasing' = Releasing /\ Marking' = Marking
    BY <2>1, <1>a, <1>b
  <2>3. /\ Current(a) \in Items \ queue /\ queue' = queue \union {Current(a)}
        /\ pending' = pending + 1 /\ recvWaiters = <<>>
        /\ slots' = IF Bounded THEN slots - 1 ELSE slots
    BY <1>1, <1>d DEF SendEnqueue, CanSend, Put, NotYetAccepted
  <2> QED
    BY <2>2, <2>3 DEF Enters
<1>2. CASE a \in Senders /\ TrySendEnqueue(a)
  <2>1. a \notin Consumers
    BY <1>2, <1>c
  <2>2. Releasing' = Releasing /\ Marking' = Marking
    BY <2>1, <1>a, <1>b
  <2>3. /\ Current(a) \in Items \ queue /\ queue' = queue \union {Current(a)}
        /\ pending' = pending + 1 /\ recvWaiters = <<>>
        /\ slots' = IF Bounded THEN slots - 1 ELSE slots
    BY <1>2, <1>d DEF TrySendEnqueue, Put, NotYetAccepted
  <2> QED
    BY <2>2, <2>3 DEF Enters
<1>3. CASE a \in Consumers /\ FastDequeue(a)
  <2>1. pc[a] = "recv" /\ pc'[a] = "mark"
    BY <1>3 DEF FastDequeue, Move
  <2>2. /\ a \in Consumers \ Releasing /\ Releasing' = Releasing \union {a}
        /\ a \in Consumers \ Marking /\ Marking' = Marking \union {a}
    BY <1>3, <2>1, <1>a, <1>b DEF ReleaseLabels
  <2>3. (\E i \in queue : queue' = queue \ {i}) /\ pending' = pending /\ slots' = slots
    BY <1>3 DEF FastDequeue, Take
  <2> QED
    BY <2>2, <2>3 DEF Leaves
<1>4. CASE a \in Consumers /\ mark_item_consumed(a)
  <2>1. pc[a] = "mark" /\ pc'[a] = "wakeOneTerm"
    BY <1>4 DEF mark_item_consumed, Move
  <2>2. Releasing' = Releasing /\ a \in Marking /\ Marking' = Marking \ {a}
    BY <1>4, <2>1, <1>a, <1>b DEF ReleaseLabels
  <2>3. UNCHANGED <<queue, slots>> /\ pending' = pending - 1
    BY <1>4 DEF mark_item_consumed
  <2> QED
    BY <2>2, <2>3 DEF Counts
<1>5. CASE a \in Consumers /\ WakeNoSender(a)
  <2>1. pc[a] \in {"wakeOne", "wakeOneTerm"} /\ pc'[a] \in {"maybeTerm", "got"}
    BY <1>5 DEF WakeNoSender, Move, AfterWakeOne
  <2>2. a \in Releasing /\ Releasing' = Releasing \ {a} /\ Marking' = Marking
    BY <1>5, <2>1, <1>a, <1>b DEF ReleaseLabels
  <2>3. UNCHANGED <<queue, pending>> /\ slots' = FreedSlots(1) /\ sendWaiters = <<>>
    BY <1>5 DEF WakeNoSender
  <2> QED
    BY <2>2, <2>3 DEF Frees
<1>6. CASE a \in Consumers /\ WakeRejectedSender(a)
  <2>1. pc[a] \in {"wakeOne", "wakeOneTerm"} /\ pc'[a] \in {"maybeTerm", "got"}
    BY <1>6 DEF WakeRejectedSender, Move, AfterWakeOne
  <2>2. a \in Releasing /\ Releasing' = Releasing \ {a} /\ Marking' = Marking
    BY <1>6, <2>1, <1>a, <1>b DEF ReleaseLabels
  <2>3. UNCHANGED <<queue, pending>> /\ slots' = FreedSlots(1) /\ userClosed
    BY <1>6 DEF WakeRejectedSender
  <2> QED
    BY <2>2, <2>3 DEF Frees
<1>7. CASE a \in Consumers /\ WakeSender(a)
  <2>1. pc[a] \in {"wakeOne", "wakeOneTerm"} /\ pc'[a] \in {"maybeTerm", "got"}
    BY <1>7 DEF WakeSender, Move, AfterWakeOne
  <2>2. a \in Releasing /\ Releasing' = Releasing \ {a} /\ Marking' = Marking
    BY <1>7, <2>1, <1>a, <1>b DEF ReleaseLabels
  <2>3. Current(Head(sendWaiters)) \in Items \ queue /\ sendWaiters # <<>>
    BY <1>7, <1>d, <1>e DEF WakeSender, NotYetAccepted
  <2>4. /\ queue' = queue \union {Current(Head(sendWaiters))}
        /\ pending' = pending + 1 /\ slots' = slots
    BY <1>7 DEF WakeSender
  <2> QED
    BY <2>2, <2>3, <2>4 DEF Enters
<1>8. CASE a \in Receivers /\ ReadyDequeue(a)
  <2>1. pc[a] \in {"readyLock", "suspend", "blockLock"} /\ pc'[a] \in {"wakeOne", "wakeOneTerm"}
    BY <1>8 DEF ReadyDequeue, Move
  <2>2. /\ a \in Consumers \ Releasing /\ Releasing' = Releasing \union {a}
        /\ Marking' = Marking
    BY <1>8, <2>1, <1>a, <1>b, <1>c DEF ReleaseLabels
  <2>3. /\ \E i \in queue : queue' = queue \ {i}
        /\ pending' = pending - 1 /\ slots' \in {slots, FreedSlots(1)}
    BY <1>8, <1>f DEF ReadyDequeue, LockedDequeue, Take
  <2> QED
    BY <2>2, <2>3 DEF Leaves
<1>9. CASE a \in Receivers /\ SuspendDequeue(a)
  <2>1. pc[a] \in {"readyLock", "suspend", "blockLock"} /\ pc'[a] \in {"wakeOne", "wakeOneTerm"}
    BY <1>9 DEF SuspendDequeue, Move
  <2>2. /\ a \in Consumers \ Releasing /\ Releasing' = Releasing \union {a}
        /\ Marking' = Marking
    BY <1>9, <2>1, <1>a, <1>b, <1>c DEF ReleaseLabels
  <2>3. /\ \E i \in queue : queue' = queue \ {i}
        /\ pending' = pending - 1 /\ slots' \in {slots, FreedSlots(1)}
    BY <1>9, <1>f DEF SuspendDequeue, LockedDequeue, Take
  <2> QED
    BY <2>2, <2>3 DEF Leaves
<1>10. CASE a \in Blockers /\ BlockingTake(a)
  <2>1. pc[a] \in {"readyLock", "suspend", "blockLock"} /\ pc'[a] \in {"wakeOne", "wakeOneTerm"}
    BY <1>10 DEF BlockingTake, Move
  <2>2. /\ a \in Consumers \ Releasing /\ Releasing' = Releasing \union {a}
        /\ Marking' = Marking
    BY <1>10, <2>1, <1>a, <1>b, <1>c DEF ReleaseLabels
  <2>3. /\ \E i \in queue : queue' = queue \ {i}
        /\ pending' = pending - 1 /\ slots' \in {slots, FreedSlots(1)}
    BY <1>10, <1>f DEF BlockingTake, LockedDequeue, Take
  <2> QED
    BY <2>2, <2>3 DEF Leaves
<1>11. CASE WakeWithItem(a)
  <2>1. pc[a] \in {"wakeRecv", "wakeTerm"} /\ pc'[a] \in {"wakeRecv", "wakeTerm"}
    BY <1>11 DEF WakeWithItem, Move
  <2>2. Releasing' = Releasing /\ Marking' = Marking
    BY <2>1, <1>a, <1>b DEF ReleaseLabels
  <2>3. /\ \E i \in queue : queue' = queue \ {i}
        /\ pending' = pending - 1 /\ slots' = FreedSlots(1) /\ recvWaiters # <<>>
    BY <1>11 DEF WakeWithItem, LockedDequeue, Take
  <2> QED
    BY <2>2, <2>3 DEF Leaves
<1>12. CASE /\ UNCHANGED buffer
            /\ pc[a] \in ReleaseLabels <=> pc'[a] \in ReleaseLabels
            /\ pc[a] = "mark" <=> pc'[a] = "mark"
  <2>1. Releasing' = Releasing /\ Marking' = Marking
    BY <1>12, <1>a, <1>b
  <2> QED
    BY <1>12, <2>1 DEF Stays, buffer
<1> QED
  BY Bystanders, <1>1, <1>2, <1>3, <1>4, <1>5, <1>6, <1>7, <1>8, <1>9, <1>10,
     <1>11, <1>12

\* Who gets on the waiter lists, and who closes the channel.
LEMMA WaiterSteps ==
  ASSUME NEW a \in Actors, ActorStep(a) \/ (a \in Closers /\ close(a))
  PROVE  /\ sendWaiters' # <<>> => sendWaiters # <<>> \/ (a \in Senders /\ SendPark(a))
         /\ recvWaiters' # <<>> => recvWaiters # <<>> \/ (a \in Receivers /\ SuspendPark(a))
         /\ userClosed' => userClosed \/ (a \in Closers /\ close(a))
<1>1. CASE a \in Senders /\ register_producer(a)
  BY <1>1 DEF register_producer, waiters, life
<1>2. CASE a \in Senders /\ SendClosed(a)
  BY <1>2 DEF SendClosed, CanSend, waiters, life
<1>3. CASE a \in Senders /\ SendHandOff(a)
  BY <1>3 DEF SendHandOff, CanSend, waiters, life
<1>4. CASE a \in Senders /\ SendPark(a)
  BY <1>4 DEF SendPark, CanSend, waiters, life
<1>5. CASE a \in Senders /\ SendEnqueue(a)
  BY <1>5 DEF SendEnqueue, CanSend, Sleeping, NotifyOne, waiters, life
<1>6. CASE a \in Senders /\ TrySendBegin(a)
  BY <1>6 DEF TrySendBegin, waiters, life
<1>7. CASE a \in Senders /\ TrySendCount(a)
  BY <1>7 DEF TrySendCount, waiters, life
<1>8. CASE a \in Senders /\ TrySendReject(a)
  BY <1>8 DEF TrySendReject, Sleeping, waiters, life
<1>9. CASE a \in Senders /\ TrySendHandOff(a)
  BY <1>9 DEF TrySendHandOff, waiters, life
<1>10. CASE a \in Senders /\ TrySendEnqueue(a)
  BY <1>10 DEF TrySendEnqueue, waiters, life
<1>11. CASE a \in Senders /\ TrySendNoBlock(a)
  BY <1>11 DEF TrySendNoBlock, waiters, life
<1>12. CASE a \in Senders /\ TrySendExit(a)
  BY <1>12 DEF TrySendExit, Sleeping, NotifyOne, waiters, life
<1>13. CASE a \in Senders /\ SendNext(a)
  BY <1>13 DEF SendNext, waiters, life
<1>14. CASE a \in Senders /\ SendLast(a)
  BY <1>14 DEF SendLast, waiters, life
<1>15. CASE a \in Senders /\ release_producer(a)
  BY <1>15 DEF release_producer, Sleeping, waiters, life
<1>16. CASE a \in Consumers /\ FastDequeue(a)
  BY <1>16 DEF FastDequeue, Take, waiters, life
<1>17. CASE a \in Consumers /\ FastMiss(a)
  BY <1>17 DEF FastMiss, waiters, life
<1>18. CASE a \in Consumers /\ Missed(a)
  BY <1>18 DEF Missed, waiters, life
<1>19. CASE a \in Consumers /\ mark_item_consumed(a)
  BY <1>19 DEF mark_item_consumed, waiters, life
<1>20. CASE a \in Consumers /\ WakeNoSender(a)
  BY <1>20 DEF WakeNoSender, AfterWakeOne, waiters, life
<1>21. CASE a \in Consumers /\ WakeRejectedSender(a)
  BY <1>21 DEF WakeRejectedSender, AfterWakeOne, waiters, life
<1>22. CASE a \in Consumers /\ WakeSender(a)
  BY <1>22 DEF WakeSender, AfterWakeOne, NotifyOne, Sleeping, waiters, life
<1>23. CASE a \in Consumers /\ ReceiveResult(a)
  BY <1>23 DEF ReceiveResult, waiters, life
<1>24. CASE a \in Receivers /\ ReadyDequeue(a)
  BY <1>24 DEF ReadyDequeue, LockedDequeue, Take, waiters, life
<1>25. CASE a \in Receivers /\ ReadyEmpty(a)
  BY <1>25 DEF ReadyEmpty, waiters, life
<1>26. CASE a \in Receivers /\ SuspendDequeue(a)
  BY <1>26 DEF SuspendDequeue, LockedDequeue, Take, waiters, life
<1>27. CASE a \in Receivers /\ SuspendFromSender(a)
  BY <1>27 DEF SuspendFromSender, waiters, life
<1>28. CASE a \in Receivers /\ SuspendEnd(a)
  BY <1>28 DEF SuspendEnd, waiters, life
<1>29. CASE a \in Receivers /\ SuspendPark(a)
  BY <1>29 DEF SuspendPark, waiters, life
<1>30. CASE a \in Blockers /\ BlockingTake(a)
  BY <1>30 DEF BlockingTake, LockedDequeue, Take, waiters, life
<1>31. CASE a \in Blockers /\ BlockingWait(a)
  BY <1>31 DEF BlockingWait, waiters, life
<1>32. CASE a \in Blockers /\ BlockingSleep(a)
  BY <1>32 DEF BlockingSleep, waiters, life
<1>33. CASE notify_all_waiters(a)
  BY <1>33 DEF notify_all_waiters, waiters, life
<1>34. CASE notify_all_then_senders(a)
  BY <1>34 DEF notify_all_then_senders, waiters, life
<1>35. CASE maybe_notify_terminal(a)
  BY <1>35 DEF maybe_notify_terminal, AfterTerminal, Sleeping, waiters, life
<1>36. CASE WakeWithItem(a)
  BY <1>36 DEF WakeWithItem, LockedDequeue, Take, waiters, life
<1>37. CASE WakeWithEnd(a)
  BY <1>37 DEF WakeWithEnd, waiters, life
<1>38. CASE WakeReceiverDone(a)
  BY <1>38 DEF WakeReceiverDone, AfterTerminal, waiters, life
<1>39. CASE RejectSender(a)
  BY <1>39 DEF RejectSender, waiters, life
<1>40. CASE RejectSenderDone(a)
  BY <1>40 DEF RejectSenderDone, waiters, life
<1>41. CASE a \in Closers /\ close(a)
  BY <1>41 DEF close, Sleeping, waiters, life
<1> QED
  BY <1>1, <1>2, <1>3, <1>4, <1>5, <1>6, <1>7, <1>8, <1>9, <1>10, <1>11,
     <1>12, <1>13, <1>14, <1>15, <1>16, <1>17, <1>18, <1>19, <1>20, <1>21,
     <1>22, <1>23, <1>24, <1>25, <1>26, <1>27, <1>28, <1>29, <1>30, <1>31,
     <1>32, <1>33, <1>34, <1>35, <1>36, <1>37, <1>38, <1>39, <1>40, <1>41
  DEF ActorStep, send, try_send, receive, await_ready, await_suspend,
       blocking_receive, wake_one_send_waiter_after_receive,
       wake_all_receive_waiters_terminal, wake_all_send_waiters_closed

\* Slots and items are never fewer than the capacity, and pending_items_ is
\* the number of items queued or about to be counted out.
SlotsCover == Bounded => slots + Cardinality(queue) + Cardinality(Releasing) >= Capacity
PendingCount == pending = Cardinality(queue) + Cardinality(Marking)

\* The queue and the consumers are finite.
LEMMA FiniteBuffer ==
  ASSUME TypeOK
  PROVE  /\ IsFiniteSet(queue) /\ IsFiniteSet(Releasing) /\ IsFiniteSet(Marking)
         /\ Cardinality(queue) \in Nat /\ Cardinality(Releasing) \in Nat
         /\ Cardinality(Marking) \in Nat
<1>1. IsFiniteSet(Senders) /\ IsFiniteSet(Consumers)
  BY FS_Subset, ChannelAssumption DEF Actors
<1>2. IsFiniteSet(1 .. NumItems)
  BY FS_Interval, ChannelAssumption
<1>3. IsFiniteSet(Items)
  BY <1>1, <1>2, FS_Product DEF Items
<1>4. /\ queue \subseteq Items /\ Releasing \subseteq Consumers
      /\ Marking \subseteq Consumers
  BY DEF TypeOK, Releasing, Marking
<1>5. IsFiniteSet(queue) /\ IsFiniteSet(Releasing) /\ IsFiniteSet(Marking)
  BY <1>1, <1>3, <1>4, FS_Subset
<1> QED
  BY <1>5, FS_CardinalityType

\* Every step keeps the two counts, whichever way it moves items.
LEMMA CountSteps ==
  ASSUME IInv, SlotsCover, PendingCount, NEW a \in Actors,
         ActorStep(a) \/ (a \in Closers /\ close(a))
  PROVE  SlotsCover' /\ PendingCount'
<1>1. /\ IsFiniteSet(queue) /\ IsFiniteSet(Releasing) /\ IsFiniteSet(Marking)
      /\ Cardinality(queue) \in Nat /\ Cardinality(Releasing) \in Nat
      /\ Cardinality(Marking) \in Nat
  BY FiniteBuffer DEF IInv
<1>2. slots \in Int /\ pending \in Int /\ Capacity \in Nat
  BY ChannelAssumption DEF IInv, TypeOK
<1>3. ASSUME NEW S, IsFiniteSet(S), NEW x, x \notin S
      PROVE  Cardinality(S \union {x}) = Cardinality(S) + 1
  BY <1>3, FS_AddElement
<1>4. ASSUME NEW S, IsFiniteSet(S), NEW x \in S
      PROVE  Cardinality(S \ {x}) = Cardinality(S) - 1
  BY <1>4, FS_RemoveElement
<1> USE DEF SlotsCover, PendingCount, FreedSlots
<1>5. CASE Stays
  BY <1>5 DEF Stays
<1>6. CASE Enters
  <2>1. Cardinality(queue') = Cardinality(queue) + 1
    BY <1>1, <1>3, <1>6 DEF Enters
  <2>2. CASE /\ recvWaiters = <<>> /\ Releasing' = Releasing
             /\ slots' = IF Bounded THEN slots - 1 ELSE slots
    BY <1>1, <1>2, <1>6, <2>1, <2>2 DEF Enters
  <2>3. CASE /\ slots' = slots
             /\ \E c \in Releasing : Releasing' = Releasing \ {c}
    <3>1. Cardinality(Releasing') = Cardinality(Releasing) - 1
      BY <1>1, <1>4, <2>3
    <3> QED
      BY <1>1, <1>2, <1>6, <2>1, <2>3, <3>1 DEF Enters
  <2> QED
    BY <1>6, <2>2, <2>3 DEF Enters
<1>7. CASE Leaves
  <2>1. Cardinality(queue') = Cardinality(queue) - 1
    BY <1>1, <1>4, <1>7 DEF Leaves
  <2>2. PendingCount'
    <3>1. CASE pending' = pending - 1 /\ Marking' = Marking
      BY <1>1, <1>2, <2>1, <3>1
    <3>2. CASE pending' = pending /\ \E c \in Consumers \ Marking : Marking' = Marking \union {c}
      <4>1. Cardinality(Marking') = Cardinality(Marking) + 1
        BY <1>1, <1>3, <3>2
      <4> QED
        BY <1>1, <1>2, <2>1, <3>2, <4>1
    <3> QED
      BY <1>7, <3>1, <3>2 DEF Leaves
  <2>3. SlotsCover'
    <3>1. CASE slots' = FreedSlots(1) /\ Releasing' = Releasing
      BY <1>1, <1>2, <2>1, <3>1
    <3>2. CASE /\ slots' \in {slots, FreedSlots(1)}
               /\ \E c \in Consumers \ Releasing : Releasing' = Releasing \union {c}
      <4>1. Cardinality(Releasing') = Cardinality(Releasing) + 1
        BY <1>1, <1>3, <3>2
      <4> QED
        BY <1>1, <1>2, <2>1, <3>2, <4>1
    <3> QED
      BY <1>7, <3>1, <3>2 DEF Leaves
  <2> QED
    BY <2>2, <2>3
<1>8. CASE Counts
  <2>1. Cardinality(Marking') = Cardinality(Marking) - 1
    BY <1>1, <1>4, <1>8 DEF Counts
  <2> QED
    BY <1>1, <1>2, <1>8, <2>1 DEF Counts
<1>9. CASE Frees
  <2>1. Cardinality(Releasing') = Cardinality(Releasing) - 1
    BY <1>1, <1>4, <1>9 DEF Frees
  <2> QED
    BY <1>1, <1>2, <1>9, <2>1 DEF Frees
<1> QED
  BY BufferSteps, <1>5, <1>6, <1>7, <1>8, <1>9

\* After close(), somebody is on the way to the suspended senders.
CloserComes == userClosed /\ sendWaiters # <<>> => \E x \in Actors : pc[x] \in CloseLabels

\* Whoever closed the channel leaves no suspended sender behind.
LEMMA CloserStep ==
  ASSUME IInv, CloserComes, NEW a \in Actors,
         ActorStep(a) \/ (a \in Closers /\ close(a))
  PROVE  CloserComes'
<1> SUFFICES ASSUME userClosed', sendWaiters' # <<>>
             PROVE  \E x \in Actors : pc'[x] \in CloseLabels
  BY DEF CloserComes
<1>1. CASE userClosed
  <2>1. sendWaiters # <<>>
    BY <1>1, WaiterSteps DEF SendPark
  <2>2. PICK x \in Actors : pc[x] \in CloseLabels
    BY <1>1, <2>1 DEF CloserComes
  <2>3. CASE x = a
    BY <1>1, <2>1, <2>2, <2>3, OwnLabels DEF RejectSenderDone
  <2>4. CASE x # a
    BY <2>2, <2>4, OthersLabels
  <2> QED
    BY <2>3, <2>4
<1>2. CASE ~userClosed
  <2>1. a \in Closers /\ close(a)
    BY <1>2, WaiterSteps
  <2>2. pc'[a] = "notifyAll"
    BY <2>1 DEF close, Move
  <2> QED
    BY <2>2 DEF CloseLabels
<1> QED
  BY <1>1, <1>2

\* A consumer that holds an item holds one until it returns it.
LEMMA ItemKept ==
  ASSUME IInv, NEW a \in Actors, ActorStep(a) \/ (a \in Closers /\ close(a)),
         NEW c \in Consumers, item[c] # NoItem
  PROVE  item'[c] # NoItem \/ (c = a /\ ReceiveResult(a))
<1>0. NoItem \notin Items
  BY ChannelAssumption
<1>1. recvWaiters # <<>> =>
        Head(recvWaiters) \in Consumers /\ item[Head(recvWaiters)] = NoItem
  BY Heads DEF Consumers
<1>2. sendWaiters # <<>> => Head(sendWaiters) \in Senders
  BY Heads
<1>3. \A s \in Senders : Current(s) # NoItem
  BY CurrentIsItem DEF IInv
<1>4. NoItem \notin queue
  BY <1>0 DEF IInv, TypeOK
<1>5. item \in [Consumers -> Items \union {NoItem}]
  BY DEF IInv, TypeOK
<1>6. CASE a \in Senders /\ SendHandOff(a)
  BY <1>1, <1>3, <1>5, <1>6 DEF SendHandOff
<1>7. CASE a \in Senders /\ SendEnqueue(a)
  BY <1>7 DEF SendEnqueue
<1>8. CASE a \in Senders /\ TrySendHandOff(a)
  BY <1>1, <1>3, <1>5, <1>8 DEF TrySendHandOff
<1>9. CASE a \in Senders /\ TrySendEnqueue(a)
  BY <1>9 DEF TrySendEnqueue
<1>10. CASE a \in Consumers /\ FastDequeue(a)
  BY <1>4, <1>5, <1>10 DEF FastDequeue, Take
<1>11. CASE a \in Consumers /\ WakeSender(a)
  BY <1>11 DEF WakeSender
<1>12. CASE a \in Consumers /\ ReceiveResult(a)
  BY <1>5, <1>12 DEF ReceiveResult
<1>13. CASE a \in Receivers /\ ReadyDequeue(a)
  BY <1>4, <1>5, <1>13 DEF ReadyDequeue, LockedDequeue, Take
<1>14. CASE a \in Receivers /\ SuspendDequeue(a)
  BY <1>4, <1>5, <1>14 DEF SuspendDequeue, LockedDequeue, Take
<1>15. CASE a \in Receivers /\ SuspendFromSender(a)
  BY <1>2, <1>3, <1>5, <1>15 DEF SuspendFromSender
<1>16. CASE a \in Blockers /\ BlockingTake(a)
  BY <1>4, <1>5, <1>16 DEF BlockingTake, LockedDequeue, Take
<1>17. CASE WakeWithItem(a)
  BY <1>4, <1>5, <1>17 DEF WakeWithItem, LockedDequeue, Take
<1>18. CASE WakeWithEnd(a)
  BY <1>1, <1>5, <1>18 DEF WakeWithEnd
<1>19. CASE UNCHANGED <<queue, item, hist>>
  BY <1>19
<1> QED
  BY Quiet, <1>6, <1>7, <1>8, <1>9, <1>10, <1>11, <1>12, <1>13, <1>14, <1>15,
     <1>16, <1>17, <1>18, <1>19

\* Where a consumer is about to look at the queue.
LookLabels == {"recv", "missed", "readyLock", "suspend", "blockLock"}

\* How a consumer that was to look at the queue stops doing so.
LEMMA OwnLook ==
  ASSUME IInv, NEW a \in Actors, ActorStep(a) \/ (a \in Closers /\ close(a)),
         pc[a] \in LookLabels, a \in Consumers
  PROVE  \/ pc'[a] \in LookLabels
         \/ item'[a] # NoItem
         \/ a \in Receivers /\ SuspendFromSender(a)
         \/ is_terminal_locked
         \/ a \in Receivers /\ SuspendPark(a)
         \/ a \in Blockers /\ BlockingWait(a)
<1>a. NoItem \notin queue
  BY ChannelAssumption DEF IInv, TypeOK
<1>b. item \in [Consumers -> Items \union {NoItem}] /\ Senders \intersect Consumers = {}
  BY ChannelAssumption DEF IInv, TypeOK
<1> USE DEF Move, LookLabels
<1>1. CASE a \in Senders /\ register_producer(a)
  BY <1>1, <1>b DEF register_producer
<1>2. CASE a \in Senders /\ SendClosed(a)
  BY <1>2, <1>b DEF SendClosed, CanSend
<1>3. CASE a \in Senders /\ SendHandOff(a)
  BY <1>3, <1>b DEF SendHandOff, CanSend
<1>4. CASE a \in Senders /\ SendPark(a)
  BY <1>4, <1>b DEF SendPark, CanSend
<1>5. CASE a \in Senders /\ SendEnqueue(a)
  BY <1>5, <1>b DEF SendEnqueue, CanSend, Sleeping, NotifyOne
<1>6. CASE a \in Senders /\ TrySendBegin(a)
  BY <1>6, <1>b DEF TrySendBegin
<1>7. CASE a \in Senders /\ TrySendCount(a)
  BY <1>7, <1>b DEF TrySendCount
<1>8. CASE a \in Senders /\ TrySendReject(a)
  BY <1>8, <1>b DEF TrySendReject, Sleeping
<1>9. CASE a \in Senders /\ TrySendHandOff(a)
  BY <1>9, <1>b DEF TrySendHandOff
<1>10. CASE a \in Senders /\ TrySendEnqueue(a)
  BY <1>10, <1>b DEF TrySendEnqueue
<1>11. CASE a \in Senders /\ TrySendNoBlock(a)
  BY <1>11, <1>b DEF TrySendNoBlock
<1>12. CASE a \in Senders /\ TrySendExit(a)
  BY <1>12, <1>b DEF TrySendExit, Sleeping, NotifyOne
<1>13. CASE a \in Senders /\ SendNext(a)
  BY <1>13, <1>b DEF SendNext
<1>14. CASE a \in Senders /\ SendLast(a)
  BY <1>14, <1>b DEF SendLast
<1>15. CASE a \in Senders /\ release_producer(a)
  BY <1>15, <1>b DEF release_producer, Sleeping
<1>16. CASE a \in Consumers /\ FastDequeue(a)
  BY <1>16, <1>a, <1>b DEF FastDequeue, Take
<1>17. CASE a \in Consumers /\ FastMiss(a)
  BY <1>17 DEF FastMiss
<1>18. CASE a \in Consumers /\ Missed(a)
  BY <1>18 DEF Missed
<1>19. CASE a \in Consumers /\ mark_item_consumed(a)
  BY <1>19 DEF mark_item_consumed
<1>20. CASE a \in Consumers /\ WakeNoSender(a)
  BY <1>20 DEF WakeNoSender, AfterWakeOne
<1>21. CASE a \in Consumers /\ WakeRejectedSender(a)
  BY <1>21 DEF WakeRejectedSender, AfterWakeOne
<1>22. CASE a \in Consumers /\ WakeSender(a)
  BY <1>22 DEF WakeSender, AfterWakeOne, NotifyOne, Sleeping
<1>23. CASE a \in Consumers /\ ReceiveResult(a)
  BY <1>23 DEF ReceiveResult
<1>24. CASE a \in Receivers /\ ReadyDequeue(a)
  BY <1>24, <1>a, <1>b DEF ReadyDequeue, LockedDequeue, Take
<1>25. CASE a \in Receivers /\ ReadyEmpty(a)
  BY <1>25 DEF ReadyEmpty
<1>26. CASE a \in Receivers /\ SuspendDequeue(a)
  BY <1>26, <1>a, <1>b DEF SuspendDequeue, LockedDequeue, Take
<1>27. CASE a \in Receivers /\ SuspendFromSender(a)
  BY <1>27 DEF SuspendFromSender
<1>28. CASE a \in Receivers /\ SuspendEnd(a)
  BY <1>28 DEF SuspendEnd
<1>29. CASE a \in Receivers /\ SuspendPark(a)
  BY <1>29 DEF SuspendPark
<1>30. CASE a \in Blockers /\ BlockingTake(a)
  BY <1>30, <1>a, <1>b DEF BlockingTake, LockedDequeue, Take
<1>31. CASE a \in Blockers /\ BlockingWait(a)
  BY <1>31 DEF BlockingWait
<1>32. CASE a \in Blockers /\ BlockingSleep(a)
  BY <1>32 DEF BlockingSleep
<1>33. CASE notify_all_waiters(a)
  BY <1>33 DEF notify_all_waiters
<1>34. CASE notify_all_then_senders(a)
  BY <1>34 DEF notify_all_then_senders
<1>35. CASE maybe_notify_terminal(a)
  BY <1>35 DEF maybe_notify_terminal, AfterTerminal, Sleeping
<1>36. CASE WakeWithItem(a)
  BY <1>36 DEF WakeWithItem, LockedDequeue, Take
<1>37. CASE WakeWithEnd(a)
  BY <1>37 DEF WakeWithEnd
<1>38. CASE WakeReceiverDone(a)
  BY <1>38 DEF WakeReceiverDone, AfterTerminal
<1>39. CASE RejectSender(a)
  BY <1>39 DEF RejectSender
<1>40. CASE RejectSenderDone(a)
  BY <1>40 DEF RejectSenderDone
<1>41. CASE a \in Closers /\ close(a)
  BY <1>41 DEF close, Sleeping
<1> QED
  BY <1>1, <1>2, <1>3, <1>4, <1>5, <1>6, <1>7, <1>8, <1>9, <1>10, <1>11,
     <1>12, <1>13, <1>14, <1>15, <1>16, <1>17, <1>18, <1>19, <1>20, <1>21,
     <1>22, <1>23, <1>24, <1>25, <1>26, <1>27, <1>28, <1>29, <1>30, <1>31,
     <1>32, <1>33, <1>34, <1>35, <1>36, <1>37, <1>38, <1>39, <1>40, <1>41
  DEF ActorStep, send, try_send, receive, await_ready, await_suspend,
       blocking_receive, wake_one_send_waiter_after_receive,
       wake_all_receive_waiters_terminal, wake_all_send_waiters_closed

\* The inductive invariant of the wake-ups: the counts are what makes a
\* consumer that is told "empty" right, and a full channel worth waiting for.
FInv == IInv /\ SlotsCover /\ PendingCount /\ CloserComes /\ NobodyForgotten

\* A queued item has been counted in.
LEMMA QueuedIsPending ==
  ASSUME IInv, PendingCount, queue # {}
  PROVE  ~is_terminal_locked
<1>1. /\ IsFiniteSet(queue) /\ Cardinality(queue) \in Nat /\ Cardinality(Marking) \in Nat
  BY FiniteBuffer DEF IInv
<1>2. Cardinality(queue) # 0
  BY <1>1, FS_EmptySet
<1> QED
  BY <1>1, <1>2 DEF PendingCount, is_terminal_locked

\* A receiver left suspended beside an item still has a consumer coming.
LEMMA ReceiverStep ==
  ASSUME FInv, NEW a \in Actors, ActorStep(a) \/ (a \in Closers /\ close(a)),
         recvWaiters' # <<>>, queue' # {}
  PROVE  \E c \in Consumers : Looking(c)'
<1> USE DEF FInv
<1>a. \A c \in Consumers : Looking(c) <=> pc[c] \in LookLabels \/ item[c] # NoItem
  BY DEF Looking, LookLabels
<1>b. \A c \in Consumers : Looking(c)' <=> pc'[c] \in LookLabels \/ item'[c] # NoItem
  BY DEF Looking, LookLabels
<1>1. ASSUME NEW d \in Consumers, d # a, pc[d] \in LookLabels
      PROVE  pc'[d] \in LookLabels
  BY <1>1, OthersStep DEF LookLabels, Actors
<1>2. ASSUME AppearsEmpty(a), queue # {}
      PROVE  \E d \in Consumers : Looking(d)'
  <2>1. PICK d \in Consumers \ {a} : pc[d] = "missed"
    BY <1>2 DEF AppearsEmpty
  <2> QED
    BY <1>b, <1>1, <2>1 DEF LookLabels
<1>3. CASE recvWaiters = <<>>
  <2>1. a \in Receivers /\ SuspendPark(a)
    BY <1>3, WaiterSteps
  <2>2. queue # {} /\ AppearsEmpty(a)
    BY <2>1 DEF SuspendPark, buffer
  <2> QED
    BY <1>2, <2>2
<1>4. CASE recvWaiters # <<>>
  <2>1. sendWaiters = <<>>
    BY <1>4 DEF NobodyForgotten
  <2>2. queue # {}
    BY <1>4, <2>1, BufferSteps DEF Stays, Enters, Leaves, Counts, Frees
  <2>3. ~is_terminal_locked
    BY <2>2, QueuedIsPending
  <2>4. PICK c \in Consumers : pc[c] \in LookLabels \/ item[c] # NoItem
    BY <1>a, <1>4, <2>2 DEF NobodyForgotten
  <2>5. CASE item[c] # NoItem
    <3>1. CASE item'[c] # NoItem
      BY <1>b, <3>1
    <3>2. CASE c = a /\ ReceiveResult(a)
      <4>1. pc'[a] = "recv"
        BY <2>5, <3>2 DEF ReceiveResult, Move
      <4> QED
        BY <1>b, <3>2, <4>1 DEF LookLabels
    <3> QED
      BY <2>5, <3>1, <3>2, ItemKept
  <2>6. CASE pc[c] \in LookLabels /\ c # a
    BY <1>b, <1>1, <2>6
  <2>7. CASE pc[c] \in LookLabels /\ c = a
    <3>1. CASE pc'[a] \in LookLabels \/ item'[a] # NoItem
      BY <1>b, <2>7, <3>1
    <3>2. CASE a \in Receivers /\ SuspendFromSender(a)
      BY <2>1, <3>2 DEF SuspendFromSender
    <3>3. CASE a \in Receivers /\ SuspendPark(a)
      BY <1>2, <2>2, <3>3 DEF SuspendPark
    <3>4. CASE a \in Blockers /\ BlockingWait(a)
      BY <1>2, <2>2, <3>4 DEF BlockingWait
    <3> QED
      BY <2>3, <2>7, <3>1, <3>2, <3>3, <3>4, OwnLook
  <2> QED
    BY <2>4, <2>5, <2>6, <2>7
<1> QED
  BY <1>3, <1>4

\* A sender left suspended beside an empty queue still has somebody coming.
LEMMA SenderStep ==
  ASSUME FInv, NEW a \in Actors, ActorStep(a) \/ (a \in Closers /\ close(a)),
         sendWaiters' # <<>>, queue' = {}
  PROVE  \E x \in Actors : WakesSender(x)'
<1> USE DEF FInv
<1>a. \A x \in Actors : WakesSender(x) <=>
        pc[x] \in ReleaseLabels \/ (userClosed /\ pc[x] \in CloseLabels)
  BY DEF WakesSender, ReleaseLabels, CloseLabels
<1>b. \A x \in Actors : WakesSender(x)' <=>
        pc'[x] \in ReleaseLabels \/ (userClosed' /\ pc'[x] \in CloseLabels)
  BY DEF WakesSender, ReleaseLabels, CloseLabels
<1>1. CASE a \in Senders /\ SendPark(a)
  <2>1. Bounded /\ slots = 0 /\ queue = {} /\ pc[a] = "send"
    BY <1>1 DEF SendPark, CanSend, Full, buffer
  <2>2. Releasing # {}
    <3>1. /\ IsFiniteSet(queue) /\ IsFiniteSet(Releasing)
          /\ Cardinality(queue) = 0 /\ Capacity \in Nat \ {0}
      BY <2>1, FiniteBuffer, FS_EmptySet, ChannelAssumption DEF IInv, Bounded
    <3>2. Cardinality(Releasing) \in Nat /\ Cardinality(Releasing) # 0
      BY <2>1, <3>1, FiniteBuffer DEF SlotsCover, IInv
    <3> QED
      BY <3>1, <3>2, FS_EmptySet
  <2>3. PICK c \in Actors : pc[c] \in ReleaseLabels
    BY <2>2 DEF Releasing, Actors
  <2>4. pc'[c] \in ReleaseLabels
    BY <2>1, <2>3, OthersLabels DEF ReleaseLabels
  <2> QED
    BY <1>b, <2>4
<1>2. CASE sendWaiters # <<>>
  <2>1. recvWaiters = <<>>
    BY <1>2 DEF NobodyForgotten
  <2>2. CASE queue # {}
    <3>1. Leaves
      BY <2>2, BufferSteps DEF Stays, Enters, Counts, Frees
    <3>2. PICK c \in Consumers : c \in Releasing'
      BY <2>1, <3>1 DEF Leaves
    <3> QED
      BY <1>b, <3>2 DEF Releasing, Actors
  <2>3. CASE queue = {}
    <3>1. PICK x \in Actors :
            pc[x] \in ReleaseLabels \/ (userClosed /\ pc[x] \in CloseLabels)
      BY <1>a, <1>2, <2>3 DEF NobodyForgotten
    <3>2. userClosed => userClosed'
      BY OwnLabels
    <3>3. CASE x # a
      BY <1>b, <3>1, <3>2, <3>3, OthersLabels
    <3>4. CASE x = a /\ pc[a] \in ReleaseLabels
      <4>1. CASE mark_item_consumed(a)
        <5>1. pc'[a] = "wakeOneTerm"
          BY <4>1 DEF mark_item_consumed, Move
        <5> QED
          BY <1>b, <5>1 DEF ReleaseLabels
      <4>2. CASE WakeNoSender(a)
        BY <1>2, <4>2 DEF WakeNoSender
      <4>3. CASE WakeRejectedSender(a)
        <5>1. userClosed
          BY <4>3 DEF WakeRejectedSender
        <5>2. PICK y \in Actors : pc[y] \in CloseLabels
          BY <1>2, <5>1 DEF CloserComes
        <5>3. y # a
          BY <3>4, <5>2 DEF ReleaseLabels, CloseLabels
        <5>4. pc'[y] \in CloseLabels
          BY <5>2, <5>3, OthersLabels
        <5> QED
          BY <1>b, <3>2, <5>1, <5>4
      <4>4. CASE WakeSender(a)
        BY <4>4 DEF WakeSender
      <4> QED
        BY <3>4, <4>1, <4>2, <4>3, <4>4, OwnLabels
    <3>5. CASE x = a /\ userClosed /\ pc[a] \in CloseLabels
      <4>1. pc'[a] \in CloseLabels
        BY <1>2, <3>5, OwnLabels DEF RejectSenderDone
      <4> QED
        BY <1>b, <3>2, <3>5, <4>1
    <3> QED
      BY <3>1, <3>3, <3>4, <3>5
  <2> QED
    BY <2>2, <2>3
<1> QED
  BY <1>1, <1>2, WaiterSteps

\* Every step keeps the invariant of the wake-ups.
LEMMA StepFInv ==
  ASSUME FInv, NEW a \in Actors, ActorStep(a) \/ (a \in Closers /\ close(a))
  PROVE  FInv'
<1>1. IInv' /\ SlotsCover' /\ PendingCount' /\ CloserComes'
  BY StepIInv, CountSteps, CloserStep DEF FInv
<1>2. recvWaiters' # <<>> /\ queue' # {} => \E c \in Consumers : Looking(c)'
  BY ReceiverStep
<1>3. sendWaiters' # <<>> /\ queue' = {} => \E x \in Actors : WakesSender(x)'
  BY SenderStep
<1>4. sendWaiters' = <<>> \/ recvWaiters' = <<>>
  <2>1. CASE a \in Senders /\ SendPark(a)
    BY <2>1 DEF SendPark
  <2>2. CASE a \in Receivers /\ SuspendPark(a)
    BY <2>2 DEF SuspendPark
  <2> QED
    BY <2>1, <2>2, WaiterSteps DEF FInv, NobodyForgotten
<1>5. NobodyForgotten'
  BY <1>2, <1>3, <1>4 DEF NobodyForgotten
<1> QED
  BY <1>1, <1>5 DEF FInv

\* Nobody waits for anything initially.
LEMMA InitFInv == Init => FInv
<1> SUFFICES ASSUME Init PROVE FInv
  OBVIOUS
<1>1. IInv
  BY InitIInv
<1>2. queue = {} /\ pending = 0 /\ slots = Capacity /\ sendWaiters = <<>> /\ recvWaiters = <<>>
  BY DEF Init
<1>3. Marking = {}
  BY ChannelAssumption DEF Init, Marking, Actors, Consumers
<1>4. Cardinality(queue) = 0 /\ Cardinality(Marking) = 0 /\ Cardinality(Releasing) \in Nat
  BY <1>1, <1>2, <1>3, FS_EmptySet, FiniteBuffer DEF IInv
<1> QED
  BY <1>1, <1>2, <1>4, ChannelAssumption
  DEF FInv, SlotsCover, PendingCount, CloserComes, NobodyForgotten

\* The invariant of the wake-ups is inductive.
LEMMA NextFInv == FInv /\ [Next]_vars => FInv'
<1> SUFFICES ASSUME FInv, [Next]_vars PROVE FInv'
  OBVIOUS
<1>1. CASE UNCHANGED vars
  <2>1. IInv'
    BY <1>1, NextIInv DEF FInv
  <2> QED
    BY <1>1, <2>1
    DEF FInv, SlotsCover, PendingCount, CloserComes, NobodyForgotten, Looking,
        WakesSender, Releasing, Marking, vars, buffer, life, waiters
<1>2. ASSUME NEW a \in Actors, ActorStep(a) PROVE FInv'
  BY <1>2, StepFInv
<1>3. ASSUME NEW x \in Closers, close(x) PROVE FInv'
  BY <1>3, StepFInv DEF Actors
<1>4. CASE Terminating
  BY <1>1, <1>4 DEF Terminating
<1> QED
  BY <1>1, <1>2, <1>3, <1>4 DEF Next

\* No wake-up is lost: a receiver suspended beside a queued item, or a sender
\* suspended beside an empty queue, always has somebody on the way to it, and
\* the two waiter lists are never both in use.
THEOREM NoLostWakeUp == Spec => []NobodyForgotten
<1>1. FInv => NobodyForgotten
  BY DEF FInv
<1> QED
  BY <1>1, InitFInv, NextFInv, PTL DEF Spec

-----------------------------------------------------------------------------
(* The end is told at the end *)

\* Every sender registered before anybody ran, and try_dequeue fails on an
\* empty queue only.
Orderly == Upfront /\ Exact /\ Registered = Senders

\* A sender that has released its producer slot, and those that have not.
GoneLabels == {"notifyAll", "wakeRecv", "afterRecv", "wakeSend", "done"}
Present == {s \in Registered : pc[s] \notin GoneLabels}

\* Where a consumer has an item in its hands.
HoldLabels == {"mark", "wakeOne", "wakeOneTerm", "maybeTerm", "wakeTerm"}

\* A consumer that has been told "end of stream".
Ended(c) == pc[c] = "done" \/ (pc[c] = "got" /\ item[c] = NoItem)

\* num_producers_ and the flags change when a slot is released and in close().
LEMMA LifeSteps ==
  ASSUME NEW a \in Actors, ActorStep(a) \/ (a \in Closers /\ close(a)),
         pc[a] # "unborn"
  PROVE  \/ UNCHANGED life
         \/ a \in Senders /\ release_producer(a)
         \/ a \in Closers /\ close(a)
<1>1. CASE a \in Senders /\ register_producer(a)
  BY <1>1 DEF register_producer, life
<1>2. CASE a \in Senders /\ SendClosed(a)
  BY <1>2 DEF SendClosed, CanSend, life
<1>3. CASE a \in Senders /\ SendHandOff(a)
  BY <1>3 DEF SendHandOff, CanSend, life
<1>4. CASE a \in Senders /\ SendPark(a)
  BY <1>4 DEF SendPark, CanSend, life
<1>5. CASE a \in Senders /\ SendEnqueue(a)
  BY <1>5 DEF SendEnqueue, CanSend, Sleeping, NotifyOne, life
<1>6. CASE a \in Senders /\ TrySendBegin(a)
  BY <1>6 DEF TrySendBegin, life
<1>7. CASE a \in Senders /\ TrySendCount(a)
  BY <1>7 DEF TrySendCount, life
<1>8. CASE a \in Senders /\ TrySendReject(a)
  BY <1>8 DEF TrySendReject, Sleeping, life
<1>9. CASE a \in Senders /\ TrySendHandOff(a)
  BY <1>9 DEF TrySendHandOff, life
<1>10. CASE a \in Senders /\ TrySendEnqueue(a)
  BY <1>10 DEF TrySendEnqueue, life
<1>11. CASE a \in Senders /\ TrySendNoBlock(a)
  BY <1>11 DEF TrySendNoBlock, life
<1>12. CASE a \in Senders /\ TrySendExit(a)
  BY <1>12 DEF TrySendExit, Sleeping, NotifyOne, life
<1>13. CASE a \in Senders /\ SendNext(a)
  BY <1>13 DEF SendNext, life
<1>14. CASE a \in Senders /\ SendLast(a)
  BY <1>14 DEF SendLast, life
<1>15. CASE a \in Senders /\ release_producer(a)
  BY <1>15 DEF release_producer, Sleeping, life
<1>16. CASE a \in Consumers /\ FastDequeue(a)
  BY <1>16 DEF FastDequeue, Take, life
<1>17. CASE a \in Consumers /\ FastMiss(a)
  BY <1>17 DEF FastMiss, life
<1>18. CASE a \in Consumers /\ Missed(a)
  BY <1>18 DEF Missed, life
<1>19. CASE a \in Consumers /\ mark_item_consumed(a)
  BY <1>19 DEF mark_item_consumed, life
<1>20. CASE a \in Consumers /\ WakeNoSender(a)
  BY <1>20 DEF WakeNoSender, AfterWakeOne, life
<1>21. CASE a \in Consumers /\ WakeRejectedSender(a)
  BY <1>21 DEF WakeRejectedSender, AfterWakeOne, life
<1>22. CASE a \in Consumers /\ WakeSender(a)
  BY <1>22 DEF WakeSender, AfterWakeOne, NotifyOne, Sleeping, life
<1>23. CASE a \in Consumers /\ ReceiveResult(a)
  BY <1>23 DEF ReceiveResult, life
<1>24. CASE a \in Receivers /\ ReadyDequeue(a)
  BY <1>24 DEF ReadyDequeue, LockedDequeue, Take, life
<1>25. CASE a \in Receivers /\ ReadyEmpty(a)
  BY <1>25 DEF ReadyEmpty, life
<1>26. CASE a \in Receivers /\ SuspendDequeue(a)
  BY <1>26 DEF SuspendDequeue, LockedDequeue, Take, life
<1>27. CASE a \in Receivers /\ SuspendFromSender(a)
  BY <1>27 DEF SuspendFromSender, life
<1>28. CASE a \in Receivers /\ SuspendEnd(a)
  BY <1>28 DEF SuspendEnd, life
<1>29. CASE a \in Receivers /\ SuspendPark(a)
  BY <1>29 DEF SuspendPark, life
<1>30. CASE a \in Blockers /\ BlockingTake(a)
  BY <1>30 DEF BlockingTake, LockedDequeue, Take, life
<1>31. CASE a \in Blockers /\ BlockingWait(a)
  BY <1>31 DEF BlockingWait, life
<1>32. CASE a \in Blockers /\ BlockingSleep(a)
  BY <1>32 DEF BlockingSleep, life
<1>33. CASE notify_all_waiters(a)
  BY <1>33 DEF notify_all_waiters, life
<1>34. CASE notify_all_then_senders(a)
  BY <1>34 DEF notify_all_then_senders, life
<1>35. CASE maybe_notify_terminal(a)
  BY <1>35 DEF maybe_notify_terminal, AfterTerminal, Sleeping, life
<1>36. CASE WakeWithItem(a)
  BY <1>36 DEF WakeWithItem, LockedDequeue, Take, life
<1>37. CASE WakeWithEnd(a)
  BY <1>37 DEF WakeWithEnd, life
<1>38. CASE WakeReceiverDone(a)
  BY <1>38 DEF WakeReceiverDone, AfterTerminal, life
<1>39. CASE RejectSender(a)
  BY <1>39 DEF RejectSender, life
<1>40. CASE RejectSenderDone(a)
  BY <1>40 DEF RejectSenderDone, life
<1>41. CASE a \in Closers /\ close(a)
  BY <1>41 DEF close, Sleeping, life
<1> QED
  BY <1>1, <1>2, <1>3, <1>4, <1>5, <1>6, <1>7, <1>8, <1>9, <1>10, <1>11,
     <1>12, <1>13, <1>14, <1>15, <1>16, <1>17, <1>18, <1>19, <1>20, <1>21,
     <1>22, <1>23, <1>24, <1>25, <1>26, <1>27, <1>28, <1>29, <1>30, <1>31,
     <1>32, <1>33, <1>34, <1>35, <1>36, <1>37, <1>38, <1>39, <1>40, <1>41
  DEF ActorStep, send, try_send, receive, await_ready, await_suspend,
       blocking_receive, wake_one_send_waiter_after_receive,
       wake_all_receive_waiters_terminal, wake_all_send_waiters_closed

\* A sender is gone once it has released its slot, and not before.
LEMMA GoneSteps ==
  ASSUME TypeOK, Orderly, NEW a \in Senders, ActorStep(a) \/ (a \in Closers /\ close(a)),
         pc[a] # "unborn"
  PROVE  (pc[a] \in GoneLabels <=> pc'[a] \in GoneLabels) \/ release_producer(a)
<1>a. a \in Actors /\ a \notin Consumers /\ a \notin Closers /\ Registered = Senders
  BY ChannelAssumption DEF Actors, Orderly
<1> USE DEF TypeOK, Move, GoneLabels, Consumers
<1>1. CASE a \in Senders /\ register_producer(a)
  BY <1>1, <1>a DEF register_producer
<1>2. CASE a \in Senders /\ SendClosed(a)
  BY <1>2, <1>a DEF SendClosed, CanSend
<1>3. CASE a \in Senders /\ SendHandOff(a)
  BY <1>3, <1>a DEF SendHandOff, CanSend
<1>4. CASE a \in Senders /\ SendPark(a)
  BY <1>4, <1>a DEF SendPark, CanSend
<1>5. CASE a \in Senders /\ SendEnqueue(a)
  BY <1>5, <1>a DEF SendEnqueue, CanSend, Sleeping, NotifyOne
<1>6. CASE a \in Senders /\ TrySendBegin(a)
  BY <1>6, <1>a DEF TrySendBegin
<1>7. CASE a \in Senders /\ TrySendCount(a)
  BY <1>7, <1>a DEF TrySendCount
<1>8. CASE a \in Senders /\ TrySendReject(a)
  BY <1>8, <1>a DEF TrySendReject, Sleeping
<1>9. CASE a \in Senders /\ TrySendHandOff(a)
  BY <1>9, <1>a DEF TrySendHandOff
<1>10. CASE a \in Senders /\ TrySendEnqueue(a)
  BY <1>10, <1>a DEF TrySendEnqueue
<1>11. CASE a \in Senders /\ TrySendNoBlock(a)
  BY <1>11, <1>a DEF TrySendNoBlock
<1>12. CASE a \in Senders /\ TrySendExit(a)
  BY <1>12, <1>a DEF TrySendExit, Sleeping, NotifyOne
<1>13. CASE a \in Senders /\ SendNext(a)
  BY <1>13, <1>a DEF SendNext
<1>14. CASE a \in Senders /\ SendLast(a)
  BY <1>14, <1>a DEF SendLast
<1>15. CASE a \in Senders /\ release_producer(a)
  BY <1>15, <1>a DEF release_producer, Sleeping
<1>16. CASE a \in Consumers /\ FastDequeue(a)
  BY <1>16, <1>a DEF FastDequeue, Take
<1>17. CASE a \in Consumers /\ FastMiss(a)
  BY <1>17, <1>a DEF FastMiss
<1>18. CASE a \in Consumers /\ Missed(a)
  BY <1>18, <1>a DEF Missed
<1>19. CASE a \in Consumers /\ mark_item_consumed(a)
  BY <1>19, <1>a DEF mark_item_consumed
<1>20. CASE a \in Consumers /\ WakeNoSender(a)
  BY <1>20, <1>a DEF WakeNoSender, AfterWakeOne
<1>21. CASE a \in Consumers /\ WakeRejectedSender(a)
  BY <1>21, <1>a DEF WakeRejectedSender, AfterWakeOne
<1>22. CASE a \in Consumers /\ WakeSender(a)
  BY <1>22, <1>a DEF WakeSender, AfterWakeOne, NotifyOne, Sleeping
<1>23. CASE a \in Consumers /\ ReceiveResult(a)
  BY <1>23, <1>a DEF ReceiveResult
<1>24. CASE a \in Receivers /\ ReadyDequeue(a)
  BY <1>24, <1>a DEF ReadyDequeue, LockedDequeue, Take
<1>25. CASE a \in Receivers /\ ReadyEmpty(a)
  BY <1>25, <1>a DEF ReadyEmpty
<1>26. CASE a \in Receivers /\ SuspendDequeue(a)
  BY <1>26, <1>a DEF SuspendDequeue, LockedDequeue, Take
<1>27. CASE a \in Receivers /\ SuspendFromSender(a)
  BY <1>27, <1>a DEF SuspendFromSender
<1>28. CASE a \in Receivers /\ SuspendEnd(a)
  BY <1>28, <1>a DEF SuspendEnd
<1>29. CASE a \in Receivers /\ SuspendPark(a)
  BY <1>29, <1>a DEF SuspendPark
<1>30. CASE a \in Blockers /\ BlockingTake(a)
  BY <1>30, <1>a DEF BlockingTake, LockedDequeue, Take
<1>31. CASE a \in Blockers /\ BlockingWait(a)
  BY <1>31, <1>a DEF BlockingWait
<1>32. CASE a \in Blockers /\ BlockingSleep(a)
  BY <1>32, <1>a DEF BlockingSleep
<1>33. CASE notify_all_waiters(a)
  BY <1>33, <1>a DEF notify_all_waiters
<1>34. CASE notify_all_then_senders(a)
  BY <1>34, <1>a DEF notify_all_then_senders
<1>35. CASE maybe_notify_terminal(a)
  BY <1>35, <1>a DEF maybe_notify_terminal, AfterTerminal, Sleeping
<1>36. CASE WakeWithItem(a)
  BY <1>36, <1>a DEF WakeWithItem, LockedDequeue, Take
<1>37. CASE WakeWithEnd(a)
  BY <1>37, <1>a DEF WakeWithEnd
<1>38. CASE WakeReceiverDone(a)
  BY <1>38, <1>a DEF WakeReceiverDone, AfterTerminal
<1>39. CASE RejectSender(a)
  BY <1>39, <1>a DEF RejectSender
<1>40. CASE RejectSenderDone(a)
  BY <1>40, <1>a DEF RejectSenderDone
<1>41. CASE a \in Closers /\ close(a)
  BY <1>41, <1>a DEF close, Sleeping
<1> QED
  BY <1>1, <1>2, <1>3, <1>4, <1>5, <1>6, <1>7, <1>8, <1>9, <1>10, <1>11,
     <1>12, <1>13, <1>14, <1>15, <1>16, <1>17, <1>18, <1>19, <1>20, <1>21,
     <1>22, <1>23, <1>24, <1>25, <1>26, <1>27, <1>28, <1>29, <1>30, <1>31,
     <1>32, <1>33, <1>34, <1>35, <1>36, <1>37, <1>38, <1>39, <1>40, <1>41
  DEF ActorStep, send, try_send, receive, await_ready, await_suspend,
       blocking_receive, wake_one_send_waiter_after_receive,
       wake_all_receive_waiters_terminal, wake_all_send_waiters_closed

\* What a consumer does by itself.
LEMMA ConsumerSteps ==
  ASSUME IInv, NEW a \in Consumers, ActorStep(a) \/ (a \in Closers /\ close(a)),
         pc[a] \notin CloseLabels
  PROVE  /\ pc'[a] \notin CloseLabels
         /\ pc'[a] \in HoldLabels => pc[a] \in HoldLabels \/ item'[a] # NoItem
         /\ pc'[a] \in {"got", "done"} =>
              \/ pc[a] \in HoldLabels /\ pc'[a] = "got"
              \/ Ended(a)
              \/ is_terminal_locked
              \/ a \in Receivers /\ SuspendFromSender(a)
<1>a. a \in Actors /\ a \notin Senders /\ a \notin Closers
  BY ChannelAssumption DEF Actors
<1>b. NoItem \notin queue /\ item \in [Consumers -> Items \union {NoItem}]
  BY ChannelAssumption DEF IInv, TypeOK
<1>c. pc \in [Actors -> Labels]
  BY DEF IInv, TypeOK
<1> USE DEF Move, CloseLabels, HoldLabels, Ended
<1>1. CASE a \in Senders /\ register_producer(a)
  BY <1>1, <1>a, <1>b, <1>c DEF register_producer
<1>2. CASE a \in Senders /\ SendClosed(a)
  BY <1>2, <1>a, <1>b, <1>c DEF SendClosed, CanSend
<1>3. CASE a \in Senders /\ SendHandOff(a)
  BY <1>3, <1>a, <1>b, <1>c DEF SendHandOff, CanSend
<1>4. CASE a \in Senders /\ SendPark(a)
  BY <1>4, <1>a, <1>b, <1>c DEF SendPark, CanSend
<1>5. CASE a \in Senders /\ SendEnqueue(a)
  BY <1>5, <1>a, <1>b, <1>c DEF SendEnqueue, CanSend, Sleeping, NotifyOne
<1>6. CASE a \in Senders /\ TrySendBegin(a)
  BY <1>6, <1>a, <1>b, <1>c DEF TrySendBegin
<1>7. CASE a \in Senders /\ TrySendCount(a)
  BY <1>7, <1>a, <1>b, <1>c DEF TrySendCount
<1>8. CASE a \in Senders /\ TrySendReject(a)
  BY <1>8, <1>a, <1>b, <1>c DEF TrySendReject, Sleeping
<1>9. CASE a \in Senders /\ TrySendHandOff(a)
  BY <1>9, <1>a, <1>b, <1>c DEF TrySendHandOff
<1>10. CASE a \in Senders /\ TrySendEnqueue(a)
  BY <1>10, <1>a, <1>b, <1>c DEF TrySendEnqueue
<1>11. CASE a \in Senders /\ TrySendNoBlock(a)
  BY <1>11, <1>a, <1>b, <1>c DEF TrySendNoBlock
<1>12. CASE a \in Senders /\ TrySendExit(a)
  BY <1>12, <1>a, <1>b, <1>c DEF TrySendExit, Sleeping, NotifyOne
<1>13. CASE a \in Senders /\ SendNext(a)
  BY <1>13, <1>a, <1>b, <1>c DEF SendNext
<1>14. CASE a \in Senders /\ SendLast(a)
  BY <1>14, <1>a, <1>b, <1>c DEF SendLast
<1>15. CASE a \in Senders /\ release_producer(a)
  BY <1>15, <1>a, <1>b, <1>c DEF release_producer, Sleeping
<1>16. CASE a \in Consumers /\ FastDequeue(a)
  BY <1>16, <1>a, <1>b, <1>c DEF FastDequeue, Take
<1>17. CASE a \in Consumers /\ FastMiss(a)
  BY <1>17, <1>a, <1>b, <1>c DEF FastMiss
<1>18. CASE a \in Consumers /\ Missed(a)
  BY <1>18, <1>a, <1>b, <1>c DEF Missed
<1>19. CASE a \in Consumers /\ mark_item_consumed(a)
  BY <1>19, <1>a, <1>b, <1>c DEF mark_item_consumed
<1>20. CASE a \in Consumers /\ WakeNoSender(a)
  BY <1>20, <1>a, <1>b, <1>c DEF WakeNoSender, AfterWakeOne
<1>21. CASE a \in Consumers /\ WakeRejectedSender(a)
  BY <1>21, <1>a, <1>b, <1>c DEF WakeRejectedSender, AfterWakeOne
<1>22. CASE a \in Consumers /\ WakeSender(a)
  BY <1>22, <1>a, <1>b, <1>c DEF WakeSender, AfterWakeOne, NotifyOne, Sleeping
<1>23. CASE a \in Consumers /\ ReceiveResult(a)
  BY <1>23, <1>a, <1>b, <1>c DEF ReceiveResult
<1>24. CASE a \in Receivers /\ ReadyDequeue(a)
  BY <1>24, <1>a, <1>b, <1>c DEF ReadyDequeue, LockedDequeue, Take
<1>25. CASE a \in Receivers /\ ReadyEmpty(a)
  BY <1>25, <1>a, <1>b, <1>c DEF ReadyEmpty
<1>26. CASE a \in Receivers /\ SuspendDequeue(a)
  BY <1>26, <1>a, <1>b, <1>c DEF SuspendDequeue, LockedDequeue, Take
<1>27. CASE a \in Receivers /\ SuspendFromSender(a)
  BY <1>27, <1>a, <1>b, <1>c DEF SuspendFromSender
<1>28. CASE a \in Receivers /\ SuspendEnd(a)
  BY <1>28, <1>a, <1>b, <1>c DEF SuspendEnd
<1>29. CASE a \in Receivers /\ SuspendPark(a)
  BY <1>29, <1>a, <1>b, <1>c DEF SuspendPark
<1>30. CASE a \in Blockers /\ BlockingTake(a)
  BY <1>30, <1>a, <1>b, <1>c DEF BlockingTake, LockedDequeue, Take
<1>31. CASE a \in Blockers /\ BlockingWait(a)
  BY <1>31, <1>a, <1>b, <1>c DEF BlockingWait
<1>32. CASE a \in Blockers /\ BlockingSleep(a)
  BY <1>32, <1>a, <1>b, <1>c DEF BlockingSleep
<1>33. CASE notify_all_waiters(a)
  BY <1>33, <1>a, <1>b, <1>c DEF notify_all_waiters
<1>34. CASE notify_all_then_senders(a)
  BY <1>34, <1>a, <1>b, <1>c DEF notify_all_then_senders
<1>35. CASE maybe_notify_terminal(a)
  BY <1>35, <1>a, <1>b, <1>c DEF maybe_notify_terminal, AfterTerminal,
     Sleeping
<1>36. CASE WakeWithItem(a)
  BY <1>36, <1>a, <1>b, <1>c DEF WakeWithItem, LockedDequeue, Take
<1>37. CASE WakeWithEnd(a)
  BY <1>37, <1>a, <1>b, <1>c DEF WakeWithEnd
<1>38. CASE WakeReceiverDone(a)
  BY <1>38, <1>a, <1>b, <1>c DEF WakeReceiverDone, AfterTerminal
<1>39. CASE RejectSender(a)
  BY <1>39, <1>a, <1>b, <1>c DEF RejectSender
<1>40. CASE RejectSenderDone(a)
  BY <1>40, <1>a, <1>b, <1>c DEF RejectSenderDone
<1>41. CASE a \in Closers /\ close(a)
  BY <1>41, <1>a, <1>b, <1>c DEF close, Sleeping
<1> QED
  BY <1>1, <1>2, <1>3, <1>4, <1>5, <1>6, <1>7, <1>8, <1>9, <1>10, <1>11,
     <1>12, <1>13, <1>14, <1>15, <1>16, <1>17, <1>18, <1>19, <1>20, <1>21,
     <1>22, <1>23, <1>24, <1>25, <1>26, <1>27, <1>28, <1>29, <1>30, <1>31,
     <1>32, <1>33, <1>34, <1>35, <1>36, <1>37, <1>38, <1>39, <1>40, <1>41
  DEF ActorStep, send, try_send, receive, await_ready, await_suspend,
       blocking_receive, wake_one_send_waiter_after_receive,
       wake_all_receive_waiters_terminal, wake_all_send_waiters_closed

\* Who wakes the suspended receivers has seen the end.
LEMMA WakerSteps ==
  ASSUME IInv, NEW a \in Actors, ActorStep(a) \/ (a \in Closers /\ close(a))
  PROVE  /\ pc'[a] = "maybeTerm" => pc[a] = "maybeTerm" \/ a \in Senders \union Consumers
         /\ pc'[a] \in {"wakeRecv", "wakeTerm"} =>
              \/ pc[a] \in {"wakeRecv", "wakeTerm"}
              \/ NoMoreSenders
              \/ pc[a] = "maybeTerm" /\ Drained
<1>a. pc \in [Actors -> Labels]
  BY DEF IInv, TypeOK
<1> USE DEF Move
<1>1. CASE a \in Senders /\ register_producer(a)
  BY <1>1, <1>a DEF register_producer
<1>2. CASE a \in Senders /\ SendClosed(a)
  BY <1>2, <1>a DEF SendClosed, CanSend
<1>3. CASE a \in Senders /\ SendHandOff(a)
  BY <1>3, <1>a DEF SendHandOff, CanSend
<1>4. CASE a \in Senders /\ SendPark(a)
  BY <1>4, <1>a DEF SendPark, CanSend
<1>5. CASE a \in Senders /\ SendEnqueue(a)
  BY <1>5, <1>a DEF SendEnqueue, CanSend, Sleeping, NotifyOne
<1>6. CASE a \in Senders /\ TrySendBegin(a)
  BY <1>6, <1>a DEF TrySendBegin
<1>7. CASE a \in Senders /\ TrySendCount(a)
  BY <1>7, <1>a DEF TrySendCount
<1>8. CASE a \in Senders /\ TrySendReject(a)
  BY <1>8, <1>a DEF TrySendReject, Sleeping
<1>9. CASE a \in Senders /\ TrySendHandOff(a)
  BY <1>9, <1>a DEF TrySendHandOff
<1>10. CASE a \in Senders /\ TrySendEnqueue(a)
  BY <1>10, <1>a DEF TrySendEnqueue
<1>11. CASE a \in Senders /\ TrySendNoBlock(a)
  BY <1>11, <1>a DEF TrySendNoBlock
<1>12. CASE a \in Senders /\ TrySendExit(a)
  BY <1>12, <1>a DEF TrySendExit, Sleeping, NotifyOne
<1>13. CASE a \in Senders /\ SendNext(a)
  BY <1>13, <1>a DEF SendNext
<1>14. CASE a \in Senders /\ SendLast(a)
  BY <1>14, <1>a DEF SendLast
<1>15. CASE a \in Senders /\ release_producer(a)
  BY <1>15, <1>a DEF release_producer, Sleeping
<1>16. CASE a \in Consumers /\ FastDequeue(a)
  BY <1>16, <1>a DEF FastDequeue, Take
<1>17. CASE a \in Consumers /\ FastMiss(a)
  BY <1>17, <1>a DEF FastMiss
<1>18. CASE a \in Consumers /\ Missed(a)
  BY <1>18, <1>a DEF Missed
<1>19. CASE a \in Consumers /\ mark_item_consumed(a)
  BY <1>19, <1>a DEF mark_item_consumed
<1>20. CASE a \in Consumers /\ WakeNoSender(a)
  BY <1>20, <1>a DEF WakeNoSender, AfterWakeOne
<1>21. CASE a \in Consumers /\ WakeRejectedSender(a)
  BY <1>21, <1>a DEF WakeRejectedSender, AfterWakeOne
<1>22. CASE a \in Consumers /\ WakeSender(a)
  BY <1>22, <1>a DEF WakeSender, AfterWakeOne, NotifyOne, Sleeping
<1>23. CASE a \in Consumers /\ ReceiveResult(a)
  BY <1>23, <1>a DEF ReceiveResult
<1>24. CASE a \in Receivers /\ ReadyDequeue(a)
  BY <1>24, <1>a DEF ReadyDequeue, LockedDequeue, Take
<1>25. CASE a \in Receivers /\ ReadyEmpty(a)
  BY <1>25, <1>a DEF ReadyEmpty
<1>26. CASE a \in Receivers /\ SuspendDequeue(a)
  BY <1>26, <1>a DEF SuspendDequeue, LockedDequeue, Take
<1>27. CASE a \in Receivers /\ SuspendFromSender(a)
  BY <1>27, <1>a DEF SuspendFromSender
<1>28. CASE a \in Receivers /\ SuspendEnd(a)
  BY <1>28, <1>a DEF SuspendEnd
<1>29. CASE a \in Receivers /\ SuspendPark(a)
  BY <1>29, <1>a DEF SuspendPark
<1>30. CASE a \in Blockers /\ BlockingTake(a)
  BY <1>30, <1>a DEF BlockingTake, LockedDequeue, Take
<1>31. CASE a \in Blockers /\ BlockingWait(a)
  BY <1>31, <1>a DEF BlockingWait
<1>32. CASE a \in Blockers /\ BlockingSleep(a)
  BY <1>32, <1>a DEF BlockingSleep
<1>33. CASE notify_all_waiters(a)
  BY <1>33, <1>a DEF notify_all_waiters
<1>34. CASE notify_all_then_senders(a)
  BY <1>34, <1>a DEF notify_all_then_senders
<1>35. CASE maybe_notify_terminal(a)
  BY <1>35, <1>a DEF maybe_notify_terminal, AfterTerminal, Sleeping
<1>36. CASE WakeWithItem(a)
  BY <1>36, <1>a DEF WakeWithItem, LockedDequeue, Take
<1>37. CASE WakeWithEnd(a)
  BY <1>37, <1>a DEF WakeWithEnd
<1>38. CASE WakeReceiverDone(a)
  BY <1>38, <1>a DEF WakeReceiverDone, AfterTerminal
<1>39. CASE RejectSender(a)
  BY <1>39, <1>a DEF RejectSender
<1>40. CASE RejectSenderDone(a)
  BY <1>40, <1>a DEF RejectSenderDone
<1>41. CASE a \in Closers /\ close(a)
  BY <1>41, <1>a DEF close, Sleeping
<1> QED
  BY <1>1, <1>2, <1>3, <1>4, <1>5, <1>6, <1>7, <1>8, <1>9, <1>10, <1>11,
     <1>12, <1>13, <1>14, <1>15, <1>16, <1>17, <1>18, <1>19, <1>20, <1>21,
     <1>22, <1>23, <1>24, <1>25, <1>26, <1>27, <1>28, <1>29, <1>30, <1>31,
     <1>32, <1>33, <1>34, <1>35, <1>36, <1>37, <1>38, <1>39, <1>40, <1>41
  DEF ActorStep, send, try_send, receive, await_ready, await_suspend,
       blocking_receive, wake_one_send_waiter_after_receive,
       wake_all_receive_waiters_terminal, wake_all_send_waiters_closed

\* A resumed consumer has an item, unless it was woken for the end.
LEMMA Resumptions ==
  ASSUME IInv, NEW a \in Actors, ActorStep(a) \/ (a \in Closers /\ close(a)),
         NEW x \in Consumers, x # a, pc'[x] \in {"got", "done"}
  PROVE  \/ pc[x] = pc'[x]
         \/ item'[x] # NoItem
         \/ WakeWithEnd(a)
<1>a. x \in Actors /\ x \notin Senders /\ x \notin Closers
  BY ChannelAssumption DEF Actors
<1>b. NoItem \notin queue /\ item \in [Consumers -> Items \union {NoItem}]
  BY ChannelAssumption DEF IInv, TypeOK
<1>c. \A s \in Senders : Current(s) # NoItem
  BY CurrentIsItem DEF IInv
<1>d. sendWaiters # <<>> => Head(sendWaiters) \in Senders
  BY Heads
<1> USE DEF Move, Resumed
<1>1. CASE a \in Senders /\ register_producer(a)
  BY <1>1, <1>a DEF register_producer
<1>2. CASE a \in Senders /\ SendClosed(a)
  BY <1>2, <1>a DEF SendClosed, CanSend
<1>3. CASE a \in Senders /\ SendHandOff(a)
  BY <1>3, <1>a, <1>b, <1>c, <1>d DEF SendHandOff, CanSend
<1>4. CASE a \in Senders /\ SendPark(a)
  BY <1>4, <1>a DEF SendPark, CanSend
<1>5. CASE a \in Senders /\ SendEnqueue(a)
  BY <1>5, <1>a, <1>b, <1>c, <1>d DEF SendEnqueue, CanSend, Sleeping,
     NotifyOne
<1>6. CASE a \in Senders /\ TrySendBegin(a)
  BY <1>6, <1>a DEF TrySendBegin
<1>7. CASE a \in Senders /\ TrySendCount(a)
  BY <1>7, <1>a DEF TrySendCount
<1>8. CASE a \in Senders /\ TrySendReject(a)
  BY <1>8, <1>a DEF TrySendReject, Sleeping
<1>9. CASE a \in Senders /\ TrySendHandOff(a)
  BY <1>9, <1>a, <1>b, <1>c, <1>d DEF TrySendHandOff
<1>10. CASE a \in Senders /\ TrySendEnqueue(a)
  BY <1>10, <1>a DEF TrySendEnqueue
<1>11. CASE a \in Senders /\ TrySendNoBlock(a)
  BY <1>11, <1>a DEF TrySendNoBlock
<1>12. CASE a \in Senders /\ TrySendExit(a)
  BY <1>12, <1>a, <1>b, <1>c, <1>d DEF TrySendExit, Sleeping, NotifyOne
<1>13. CASE a \in Senders /\ SendNext(a)
  BY <1>13, <1>a DEF SendNext
<1>14. CASE a \in Senders /\ SendLast(a)
  BY <1>14, <1>a DEF SendLast
<1>15. CASE a \in Senders /\ release_producer(a)
  BY <1>15, <1>a DEF release_producer, Sleeping
<1>16. CASE a \in Consumers /\ FastDequeue(a)
  BY <1>16, <1>a DEF FastDequeue, Take
<1>17. CASE a \in Consumers /\ FastMiss(a)
  BY <1>17, <1>a DEF FastMiss
<1>18. CASE a \in Consumers /\ Missed(a)
  BY <1>18, <1>a DEF Missed
<1>19. CASE a \in Consumers /\ mark_item_consumed(a)
  BY <1>19, <1>a DEF mark_item_consumed
<1>20. CASE a \in Consumers /\ WakeNoSender(a)
  BY <1>20, <1>a DEF WakeNoSender, AfterWakeOne
<1>21. CASE a \in Consumers /\ WakeRejectedSender(a)
  BY <1>21, <1>a, <1>b, <1>c, <1>d DEF WakeRejectedSender, AfterWakeOne
<1>22. CASE a \in Consumers /\ WakeSender(a)
  BY <1>22, <1>a, <1>b, <1>c, <1>d DEF WakeSender, AfterWakeOne, NotifyOne,
     Sleeping
<1>23. CASE a \in Consumers /\ ReceiveResult(a)
  BY <1>23, <1>a DEF ReceiveResult
<1>24. CASE a \in Receivers /\ ReadyDequeue(a)
  BY <1>24, <1>a DEF ReadyDequeue, LockedDequeue, Take
<1>25. CASE a \in Receivers /\ ReadyEmpty(a)
  BY <1>25, <1>a DEF ReadyEmpty
<1>26. CASE a \in Receivers /\ SuspendDequeue(a)
  BY <1>26, <1>a DEF SuspendDequeue, LockedDequeue, Take
<1>27. CASE a \in Receivers /\ SuspendFromSender(a)
  BY <1>27, <1>a, <1>b, <1>c, <1>d DEF SuspendFromSender
<1>28. CASE a \in Receivers /\ SuspendEnd(a)
  BY <1>28, <1>a DEF SuspendEnd
<1>29. CASE a \in Receivers /\ SuspendPark(a)
  BY <1>29, <1>a DEF SuspendPark
<1>30. CASE a \in Blockers /\ BlockingTake(a)
  BY <1>30, <1>a DEF BlockingTake, LockedDequeue, Take
<1>31. CASE a \in Blockers /\ BlockingWait(a)
  BY <1>31, <1>a DEF BlockingWait
<1>32. CASE a \in Blockers /\ BlockingSleep(a)
  BY <1>32, <1>a DEF BlockingSleep
<1>33. CASE notify_all_waiters(a)
  BY <1>33, <1>a DEF notify_all_waiters
<1>34. CASE notify_all_then_senders(a)
  BY <1>34, <1>a DEF notify_all_then_senders
<1>35. CASE maybe_notify_terminal(a)
  BY <1>35, <1>a DEF maybe_notify_terminal, AfterTerminal, Sleeping
<1>36. CASE WakeWithItem(a)
  BY <1>36, <1>a, <1>b, <1>c, <1>d DEF WakeWithItem, LockedDequeue, Take
<1>37. CASE WakeWithEnd(a)
  BY <1>37, <1>a, <1>b, <1>c, <1>d DEF WakeWithEnd
<1>38. CASE WakeReceiverDone(a)
  BY <1>38, <1>a DEF WakeReceiverDone, AfterTerminal
<1>39. CASE RejectSender(a)
  BY <1>39, <1>a, <1>b, <1>c, <1>d DEF RejectSender
<1>40. CASE RejectSenderDone(a)
  BY <1>40, <1>a DEF RejectSenderDone
<1>41. CASE a \in Closers /\ close(a)
  BY <1>41, <1>a DEF close, Sleeping
<1> QED
  BY <1>1, <1>2, <1>3, <1>4, <1>5, <1>6, <1>7, <1>8, <1>9, <1>10, <1>11,
     <1>12, <1>13, <1>14, <1>15, <1>16, <1>17, <1>18, <1>19, <1>20, <1>21,
     <1>22, <1>23, <1>24, <1>25, <1>26, <1>27, <1>28, <1>29, <1>30, <1>31,
     <1>32, <1>33, <1>34, <1>35, <1>36, <1>37, <1>38, <1>39, <1>40, <1>41
  DEF ActorStep, send, try_send, receive, await_ready, await_suspend,
       blocking_receive, wake_one_send_waiter_after_receive,
       wake_all_receive_waiters_terminal, wake_all_send_waiters_closed

\* Nobody goes back to before its registration.
LEMMA NotBorn ==
  ASSUME NEW a \in Actors, ActorStep(a) \/ (a \in Closers /\ close(a)),
         TypeOK, pc[a] # "unborn"
  PROVE  pc'[a] # "unborn"
<1> USE DEF TypeOK, Move
<1>1. CASE a \in Senders /\ register_producer(a)
  BY <1>1 DEF register_producer
<1>2. CASE a \in Senders /\ SendClosed(a)
  BY <1>2 DEF SendClosed, CanSend
<1>3. CASE a \in Senders /\ SendHandOff(a)
  BY <1>3 DEF SendHandOff, CanSend
<1>4. CASE a \in Senders /\ SendPark(a)
  BY <1>4 DEF SendPark, CanSend
<1>5. CASE a \in Senders /\ SendEnqueue(a)
  BY <1>5 DEF SendEnqueue, CanSend, Sleeping, NotifyOne
<1>6. CASE a \in Senders /\ TrySendBegin(a)
  BY <1>6 DEF TrySendBegin
<1>7. CASE a \in Senders /\ TrySendCount(a)
  BY <1>7 DEF TrySendCount
<1>8. CASE a \in Senders /\ TrySendReject(a)
  BY <1>8 DEF TrySendReject, Sleeping
<1>9. CASE a \in Senders /\ TrySendHandOff(a)
  BY <1>9 DEF TrySendHandOff
<1>10. CASE a \in Senders /\ TrySendEnqueue(a)
  BY <1>10 DEF TrySendEnqueue
<1>11. CASE a \in Senders /\ TrySendNoBlock(a)
  BY <1>11 DEF TrySendNoBlock
<1>12. CASE a \in Senders /\ TrySendExit(a)
  BY <1>12 DEF TrySendExit, Sleeping, NotifyOne
<1>13. CASE a \in Senders /\ SendNext(a)
  BY <1>13 DEF SendNext
<1>14. CASE a \in Senders /\ SendLast(a)
  BY <1>14 DEF SendLast
<1>15. CASE a \in Senders /\ release_producer(a)
  BY <1>15 DEF release_producer, Sleeping
<1>16. CASE a \in Consumers /\ FastDequeue(a)
  BY <1>16 DEF FastDequeue, Take
<1>17. CASE a \in Consumers /\ FastMiss(a)
  BY <1>17 DEF FastMiss
<1>18. CASE a \in Consumers /\ Missed(a)
  BY <1>18 DEF Missed
<1>19. CASE a \in Consumers /\ mark_item_consumed(a)
  BY <1>19 DEF mark_item_consumed
<1>20. CASE a \in Consumers /\ WakeNoSender(a)
  BY <1>20 DEF WakeNoSender, AfterWakeOne
<1>21. CASE a \in Consumers /\ WakeRejectedSender(a)
  BY <1>21 DEF WakeRejectedSender, AfterWakeOne
<1>22. CASE a \in Consumers /\ WakeSender(a)
  BY <1>22 DEF WakeSender, AfterWakeOne, NotifyOne, Sleeping
<1>23. CASE a \in Consumers /\ ReceiveResult(a)
  BY <1>23 DEF ReceiveResult
<1>24. CASE a \in Receivers /\ ReadyDequeue(a)
  BY <1>24 DEF ReadyDequeue, LockedDequeue, Take
<1>25. CASE a \in Receivers /\ ReadyEmpty(a)
  BY <1>25 DEF ReadyEmpty
<1>26. CASE a \in Receivers /\ SuspendDequeue(a)
  BY <1>26 DEF SuspendDequeue, LockedDequeue, Take
<1>27. CASE a \in Receivers /\ SuspendFromSender(a)
  BY <1>27 DEF SuspendFromSender
<1>28. CASE a \in Receivers /\ SuspendEnd(a)
  BY <1>28 DEF SuspendEnd
<1>29. CASE a \in Receivers /\ SuspendPark(a)
  BY <1>29 DEF SuspendPark
<1>30. CASE a \in Blockers /\ BlockingTake(a)
  BY <1>30 DEF BlockingTake, LockedDequeue, Take
<1>31. CASE a \in Blockers /\ BlockingWait(a)
  BY <1>31 DEF BlockingWait
<1>32. CASE a \in Blockers /\ BlockingSleep(a)
  BY <1>32 DEF BlockingSleep
<1>33. CASE notify_all_waiters(a)
  BY <1>33 DEF notify_all_waiters
<1>34. CASE notify_all_then_senders(a)
  BY <1>34 DEF notify_all_then_senders
<1>35. CASE maybe_notify_terminal(a)
  BY <1>35 DEF maybe_notify_terminal, AfterTerminal, Sleeping
<1>36. CASE WakeWithItem(a)
  BY <1>36 DEF WakeWithItem, LockedDequeue, Take
<1>37. CASE WakeWithEnd(a)
  BY <1>37 DEF WakeWithEnd
<1>38. CASE WakeReceiverDone(a)
  BY <1>38 DEF WakeReceiverDone, AfterTerminal
<1>39. CASE RejectSender(a)
  BY <1>39 DEF RejectSender
<1>40. CASE RejectSenderDone(a)
  BY <1>40 DEF RejectSenderDone
<1>41. CASE a \in Closers /\ close(a)
  BY <1>41 DEF close, Sleeping
<1> QED
  BY <1>1, <1>2, <1>3, <1>4, <1>5, <1>6, <1>7, <1>8, <1>9, <1>10, <1>11,
     <1>12, <1>13, <1>14, <1>15, <1>16, <1>17, <1>18, <1>19, <1>20, <1>21,
     <1>22, <1>23, <1>24, <1>25, <1>26, <1>27, <1>28, <1>29, <1>30, <1>31,
     <1>32, <1>33, <1>34, <1>35, <1>36, <1>37, <1>38, <1>39, <1>40, <1>41
  DEF ActorStep, send, try_send, receive, await_ready, await_suspend,
       blocking_receive, wake_one_send_waiter_after_receive,
       wake_all_receive_waiters_terminal, wake_all_send_waiters_closed

\* The inductive invariant of the end of the stream.
PresentCount == np = Cardinality(Present) /\ had = (Registered # {})
AllBorn      == \A a \in Actors : pc[a] # "unborn"
ClosedWhenOver == NoMoreSenders => closed
WakersKnow ==
  /\ \A a \in Actors : pc[a] \in {"wakeRecv", "wakeTerm"} => NoMoreSenders
  /\ \A a \in Actors : pc[a] = "maybeTerm" => a \in Senders \union Consumers
InHand ==
  \A c \in Consumers : /\ pc[c] \notin CloseLabels
                       /\ pc[c] \in HoldLabels => item[c] # NoItem
ToldAtTheEnd == \A c \in Consumers : Ended(c) => NoMoreSenders /\ queue = {}
EInv == /\ FInv
        /\ PresentCount /\ AllBorn /\ ClosedWhenOver
        /\ WakersKnow /\ InHand /\ ToldAtTheEnd

\* A sender that still holds its slot keeps the stream open.
LEMMA PresentOpen ==
  ASSUME TypeOK, PresentCount
  PROVE  /\ IsFiniteSet(Present) /\ Cardinality(Present) \in Nat
         /\ np = 0 <=> Present = {}
         /\ NoMoreSenders => userClosed \/ Present = {}
<1>1. IsFiniteSet(Present)
  <2>1. IsFiniteSet(Senders)
    BY FS_Subset, ChannelAssumption DEF Actors
  <2> QED
    BY <2>1, FS_Subset, ChannelAssumption DEF Present
<1>2. Cardinality(Present) \in Nat
  BY <1>1, FS_CardinalityType
<1> QED
  BY <1>1, <1>2, FS_EmptySet DEF PresentCount, NoMoreSenders

\* Nobody's label becomes one of the gone except by release_producer, and
\* nobody comes back.
LEMMA PresentStep ==
  ASSUME EInv, Orderly, NEW a \in Actors, ActorStep(a) \/ (a \in Closers /\ close(a))
  PROVE  /\ PresentCount' /\ AllBorn'
         /\ (a \in Senders /\ release_producer(a)) \/ np' = np
<1> USE DEF EInv, FInv
<1>1. pc \in [Actors -> Labels] /\ Registered = Senders /\ Senders \subseteq Actors
  BY DEF IInv, TypeOK, Orderly, Actors
<1>2. ASSUME NEW x \in Actors, x # a
      PROVE  (pc[x] \in GoneLabels <=> pc'[x] \in GoneLabels) /\ pc'[x] # "unborn"
  <2>1. \/ pc'[x] = pc[x]
        \/ pc[x] \in {"parked", "cvWait"} /\ pc'[x] \in {"sent", "blockLock", "got"}
    BY <1>2, OthersStep DEF Resumed
  <2> QED
    BY <2>1 DEF GoneLabels, AllBorn
<1>3. pc'[a] # "unborn"
  BY NotBorn DEF AllBorn, IInv
<1>4. AllBorn'
  BY <1>2, <1>3 DEF AllBorn
<1>5. /\ IsFiniteSet(Present) /\ Cardinality(Present) \in Nat
  BY PresentOpen DEF IInv
<1>6. Present' \ {a} = Present \ {a}
  BY <1>1, <1>2 DEF Present
<1>7. CASE a \in Senders /\ release_producer(a)
  <2>1. pc[a] = "release" /\ pc'[a] \in {"notifyAll", "done"} /\ np' = np - 1 /\ had' = had
    BY <1>1, <1>7 DEF release_producer, Move
  <2>2. Present' = Present \ {a} /\ a \in Present
    BY <1>1, <1>6, <1>7, <2>1 DEF Present, GoneLabels
  <2>3. Cardinality(Present') = Cardinality(Present) - 1
    BY <1>5, <2>2, FS_RemoveElement
  <2> QED
    BY <1>4, <1>5, <1>7, <2>1, <2>3 DEF PresentCount
<1>8. CASE ~(a \in Senders /\ release_producer(a))
  <2>1. np' = np /\ had' = had
    BY <1>8, LifeSteps DEF AllBorn, close, life
  <2>2. a \in Senders => (pc[a] \in GoneLabels <=> pc'[a] \in GoneLabels)
    BY <1>8, GoneSteps DEF IInv, AllBorn
  <2>3. Present' = Present
    BY <1>1, <1>2, <2>2 DEF Present
  <2> QED
    BY <1>4, <2>1, <2>3 DEF PresentCount
<1> QED
  BY <1>7, <1>8

\* Nothing enters the queue once nobody may send, and that does not change.
LEMMA OverStays ==
  ASSUME EInv, Orderly, NEW a \in Actors, ActorStep(a) \/ (a \in Closers /\ close(a)),
         NoMoreSenders
  PROVE  NoMoreSenders' /\ (queue = {} => queue' = {})
<1> USE DEF EInv, FInv
<1>1. TypeOK /\ Registered = Senders
  BY DEF IInv, Orderly
<1>2. userClosed \/ Present = {}
  BY <1>1, PresentOpen
<1>3. ASSUME NEW s \in Senders, pc[s] \notin GoneLabels PROVE userClosed
  BY <1>1, <1>2, <1>3 DEF Present
<1>4. NoMoreSenders'
  <2>1. CASE UNCHANGED life
    BY <2>1 DEF life, NoMoreSenders
  <2>2. CASE a \in Senders /\ release_producer(a)
    <3>1. userClosed /\ userClosed' = userClosed
      BY <1>3, <2>2 DEF release_producer, GoneLabels
    <3> QED
      BY <3>1 DEF NoMoreSenders
  <2>3. CASE a \in Closers /\ close(a)
    BY <2>3 DEF close, NoMoreSenders
  <2> QED
    BY <2>1, <2>2, <2>3, LifeSteps DEF AllBorn
<1>5. ASSUME queue = {} PROVE queue' = {}
  <2>1. CASE a \in Senders /\ SendEnqueue(a)
    BY <1>3, <2>1 DEF SendEnqueue, CanSend, GoneLabels
  <2>2. CASE a \in Senders /\ TrySendEnqueue(a)
    BY <1>3, <2>2 DEF TrySendEnqueue, GoneLabels
  <2>3. CASE a \in Consumers /\ WakeSender(a)
    BY <1>3, <2>3, Heads DEF WakeSender, GoneLabels
  <2> QED
    BY <1>5, <2>1, <2>2, <2>3, Quiet
    DEF SendHandOff, TrySendHandOff, FastDequeue, ReceiveResult, ReadyDequeue,
        SuspendDequeue, SuspendFromSender, BlockingTake, WakeWithItem, WakeWithEnd,
        LockedDequeue, Take, buffer
<1> QED
  BY <1>4, <1>5

\* closed_ is set before the last slot is gone, and stays set.
LEMMA OverStep ==
  ASSUME EInv, Orderly, NEW a \in Actors, ActorStep(a) \/ (a \in Closers /\ close(a))
  PROVE  ClosedWhenOver'
<1>1. np \in Int /\ pc[a] # "unborn" /\ ClosedWhenOver
  BY DEF EInv, FInv, IInv, TypeOK, AllBorn
<1> USE DEF NoMoreSenders, ClosedWhenOver
<1>2. CASE UNCHANGED life
  BY <1>1, <1>2 DEF life
<1>3. CASE a \in Senders /\ release_producer(a)
  <2>1. /\ np' = np - 1 /\ had' = had /\ userClosed' = userClosed
        /\ closed' = (closed \/ (np = 1 /\ ~userClosed))
    BY <1>3 DEF release_producer
  <2>2. np' = 0 => np = 1
    BY <1>1, <2>1
  <2> QED
    BY <1>1, <2>1, <2>2, Zenon
<1>4. CASE a \in Closers /\ close(a)
  BY <1>4 DEF close
<1> QED
  BY <1>1, <1>2, <1>3, <1>4, LifeSteps

\* Whoever wakes the suspended receivers knows that the stream is over: an
\* empty count in maybe_notify_terminal means it, for its caller has sent or
\* received an item.
LEMMA WakersStep ==
  ASSUME EInv, Orderly, NEW a \in Actors, ActorStep(a) \/ (a \in Closers /\ close(a))
  PROVE  WakersKnow'
<1> USE DEF EInv, FInv
<1>1. ASSUME NEW x \in Actors, x # a
      PROVE  pc'[x] \in {"wakeRecv", "wakeTerm", "maybeTerm"} => pc'[x] = pc[x]
  BY <1>1, OthersStep DEF Resumed
<1>2. ASSUME pc[a] = "maybeTerm", Drained PROVE NoMoreSenders
  <2>1. Senders # {}
    <3>1. CASE a \in Senders
      BY <3>1
    <3>2. CASE a \in Consumers
      <4>1. item[a] \in Items
        BY <1>2, <3>2 DEF InHand, HoldLabels, IInv, TypeOK
      <4> QED
        BY <4>1 DEF Items
    <3> QED
      BY <1>2, <3>1, <3>2 DEF WakersKnow
  <2> QED
    BY <1>2, <2>1 DEF Drained, NoMoreSenders, PresentCount, Orderly
<1>3. ASSUME NEW x \in Actors, pc'[x] \in {"wakeRecv", "wakeTerm"} PROVE NoMoreSenders'
  <2>1. NoMoreSenders
    BY <1>1, <1>2, <1>3, WakerSteps DEF WakersKnow
  <2> QED
    BY <2>1, OverStays
<1>4. ASSUME NEW x \in Actors, pc'[x] = "maybeTerm" PROVE x \in Senders \union Consumers
  BY <1>1, <1>4, WakerSteps DEF WakersKnow
<1> QED
  BY <1>3, <1>4 DEF WakersKnow

\* A consumer at work on an item has one.
LEMMA InHandStep ==
  ASSUME EInv, NEW a \in Actors, ActorStep(a) \/ (a \in Closers /\ close(a))
  PROVE  InHand'
<1> USE DEF EInv, FInv
<1>1. ASSUME NEW c \in Consumers
      PROVE  pc'[c] \notin CloseLabels /\ (pc'[c] \in HoldLabels => item'[c] # NoItem)
  <2>1. c \in Actors
    BY DEF Actors
  <2>2. CASE c = a
    <3>1. /\ pc'[a] \notin CloseLabels
          /\ pc'[a] \in HoldLabels => pc[a] \in HoldLabels \/ item'[a] # NoItem
      BY <2>2, ConsumerSteps DEF InHand
    <3>2. ASSUME pc[a] \in HoldLabels PROVE item'[a] # NoItem
      BY <2>2, <3>2, ItemKept DEF InHand, HoldLabels, ReceiveResult
    <3> QED
      BY <2>2, <3>1, <3>2
  <2>3. CASE c # a
    <3>1. \/ pc'[c] = pc[c]
          \/ pc'[c] \in {"sent", "blockLock", "got"}
      BY <2>1, <2>3, OthersStep DEF Resumed
    <3>2. item[c] # NoItem => item'[c] # NoItem
      BY <2>3, ItemKept
    <3> QED
      BY <3>1, <3>2 DEF InHand, CloseLabels, HoldLabels
  <2> QED
    BY <2>2, <2>3
<1> QED
  BY <1>1 DEF InHand

\* A step that tells a consumer the end tells it the truth.
LEMMA ToldStep ==
  ASSUME EInv, Orderly, NEW a \in Actors, ActorStep(a) \/ (a \in Closers /\ close(a))
  PROVE  ToldAtTheEnd'
<1> USE DEF EInv, FInv
<1>1. is_terminal_locked => NoMoreSenders /\ queue = {}
  BY QueuedIsPending DEF is_terminal_locked
<1>2. ASSUME NEW c, AppearsEmpty(c) PROVE queue = {}
  BY <1>2 DEF AppearsEmpty, Orderly
<1>3. ASSUME NEW c \in Consumers, Ended(c)'
      PROVE  NoMoreSenders /\ queue = {}
  <2>1. pc'[c] = "done" \/ (pc'[c] = "got" /\ item'[c] = NoItem)
    BY <1>3 DEF Ended
  <2>2. CASE Ended(c)
    BY <2>2 DEF ToldAtTheEnd
  <2>3. CASE ~Ended(c) /\ c = a
    <3>1. CASE pc[a] \in HoldLabels /\ pc'[a] = "got"
      BY <2>1, <2>3, <3>1, ItemKept DEF InHand, HoldLabels, ReceiveResult
    <3>2. CASE a \in Receivers /\ SuspendFromSender(a)
      <4>1. queue = {}
        BY <1>2, <3>2 DEF SuspendFromSender
      <4>2. pc'[a] = "got"
        BY <3>2 DEF SuspendFromSender, Move
      <4>3. userClosed
        BY <2>1, <2>3, <3>2, <4>2, Heads, CurrentIsItem DEF SuspendFromSender, IInv, TypeOK
      <4> QED
        BY <4>1, <4>3 DEF NoMoreSenders
    <3> QED
      BY <1>1, <2>1, <2>3, <3>1, <3>2, ConsumerSteps DEF InHand
  <2>4. CASE ~Ended(c) /\ c # a
    <3>1. CASE pc[c] = pc'[c]
      BY <2>1, <2>4, <3>1, ItemKept DEF Ended
    <3>2. CASE WakeWithEnd(a)
      BY <1>2, <3>2 DEF WakeWithEnd, WakersKnow
    <3>3. CASE item'[c] # NoItem /\ pc[c] # pc'[c]
      <4>1. pc'[c] = "done"
        BY <2>1, <3>3
      <4>2. pc'[c] = Resumed(c)
        BY <2>4, <3>3, OthersStep DEF Actors
      <4> QED
        BY <4>1, <4>2 DEF Resumed
    <3> QED
      BY <2>1, <2>4, <3>1, <3>2, <3>3, Resumptions
  <2> QED
    BY <2>2, <2>3, <2>4
<1> QED
  BY <1>3, OverStays DEF ToldAtTheEnd

\* Initially every sender is present and nobody has been told anything.
LEMMA InitEInv == ASSUME Orderly PROVE Init => EInv
<1> SUFFICES ASSUME Init PROVE EInv
  OBVIOUS
<1>1. FInv
  BY InitFInv
<1>2. /\ \A s \in Senders : pc[s] = "send"
      /\ \A c \in Consumers : pc[c] = "recv"
      /\ \A x \in Closers : pc[x] = "close"
  BY ChannelAssumption DEF Init, Orderly, Actors, Consumers
<1>3. Present = Registered
  BY <1>2 DEF Present, GoneLabels, Orderly
<1>4. PresentCount
  BY <1>3 DEF Init, PresentCount, Orderly
<1>5. AllBorn /\ WakersKnow
  BY <1>2 DEF AllBorn, WakersKnow, Actors
<1>6. InHand /\ ToldAtTheEnd
  BY <1>2 DEF InHand, ToldAtTheEnd, Ended, CloseLabels, HoldLabels
<1>7. ClosedWhenOver
  <2>1. IsFiniteSet(Registered)
    BY FS_Subset, ChannelAssumption DEF Actors
  <2>2. ~NoMoreSenders
    BY <2>1, FS_EmptySet DEF Init, NoMoreSenders, Orderly
  <2> QED
    BY <2>2 DEF ClosedWhenOver
<1> QED
  BY <1>1, <1>4, <1>5, <1>6, <1>7 DEF EInv

\* Every step keeps the invariant of the end.
LEMMA StepEInv ==
  ASSUME EInv, Orderly, NEW a \in Actors, ActorStep(a) \/ (a \in Closers /\ close(a))
  PROVE  EInv'
<1>1. FInv'
  BY StepFInv DEF EInv
<1>2. PresentCount' /\ AllBorn'
  BY PresentStep
<1>3. ClosedWhenOver' /\ WakersKnow'
  BY OverStep, WakersStep
<1>4. InHand' /\ ToldAtTheEnd'
  BY InHandStep, ToldStep
<1> QED
  BY <1>1, <1>2, <1>3, <1>4 DEF EInv

\* The invariant of the end is inductive.
LEMMA NextEInv == ASSUME Orderly PROVE EInv /\ [Next]_vars => EInv'
<1> SUFFICES ASSUME EInv, [Next]_vars PROVE EInv'
  OBVIOUS
<1>1. CASE UNCHANGED vars
  <2>1. FInv'
    BY <1>1, NextFInv DEF EInv
  <2> QED
    BY <1>1, <2>1
    DEF EInv, PresentCount, AllBorn, ClosedWhenOver, WakersKnow, InHand,
        ToldAtTheEnd, Present, Ended, NoMoreSenders, vars, buffer, life
<1>2. ASSUME NEW a \in Actors, ActorStep(a) PROVE EInv'
  BY <1>2, StepEInv
<1>3. ASSUME NEW x \in Closers, close(x) PROVE EInv'
  BY <1>3, StepEInv DEF Actors
<1>4. CASE Terminating
  BY <1>1, <1>4 DEF Terminating
<1> QED
  BY <1>1, <1>2, <1>3, <1>4 DEF Next

\* A consumer loop returns only when the stream is over: the channel closed,
\* nothing queued, and every producer gone unless the user closed it; for
\* channels whose senders all hold a slot from the start.
THEOREM EndOfStream == ASSUME Orderly PROVE Spec => []EndIsFinal
<1>1. EInv => EndIsFinal
  <2> SUFFICES ASSUME EInv, NEW c \in Consumers, pc[c] = "done" PROVE EndIsFinal
    BY DEF EndIsFinal
  <2>1. NoMoreSenders /\ queue = {} /\ closed
    BY DEF EInv, ToldAtTheEnd, Ended, ClosedWhenOver
  <2>2. userClosed \/ Present = {}
    BY <2>1, PresentOpen DEF EInv, FInv, IInv
  <2> QED
    BY <2>1, <2>2 DEF EndIsFinal, Present, GoneLabels
<1> QED
  BY <1>1, InitEInv, NextEInv, PTL DEF Spec
=============================================================================
