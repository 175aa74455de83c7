------------------------------- MODULE Channel -------------------------------
(***************************************************************************)
(* coro::Channel<T>: the bounded multi-producer multi-consumer queue that  *)
(* coroutines and plain threads stream data through                        *)
(* (include/dftracer/utils/core/coro/channel.h).                           *)
(*                                                                         *)
(* One step is one critical section of state_mutex_, or one access to the  *)
(* lock-free queue or to an atomic counter outside of it.  A coroutine     *)
(* resumption or a condition-variable notification issued right after an   *)
(* unlock belongs to the step of that critical section: its only effect is *)
(* to make another actor able to run, and that actor may be slow.          *)
(*                                                                         *)
(* The actors: Senders push NumItems items each, with send() or, those in  *)
(* Trying, with try_send(); those in Registered hold a ChannelProducer     *)
(* slot.  Receivers are coroutines looping on receive(), Blockers are      *)
(* threads looping on blocking_receive(), and Closers may call close().    *)
(***************************************************************************)
EXTENDS Integers, Sequences, FiniteSets

CONSTANTS
  Senders,     \* everybody who sends
  Registered,  \* the senders that hold a producer slot
  Trying,      \* the senders that use try_send instead of send
  Receivers,   \* coroutines in a receive() loop
  Blockers,    \* threads in a blocking_receive() loop
  Closers,     \* threads that may call close()
  Capacity,    \* constructor argument; 0 is "unlimited"
  NumItems,    \* BOUND: items each sender sends
  Upfront,     \* TRUE: every slot is taken before any coroutine is spawned
  Exact,       \* TRUE: try_dequeue fails on an empty queue only; FALSE: it may
               \* also fail while another dequeue is under way
  NoItem       \* std::nullopt

Consumers == Receivers \union Blockers
Actors    == Senders \union Consumers \union Closers
Items     == Senders \X (1 .. NumItems)

ASSUME ChannelAssumption ==
  /\ Registered \subseteq Senders
  /\ Trying \subseteq Senders
  /\ Senders \intersect Consumers = {}
  /\ Receivers \intersect Blockers = {}
  /\ Closers \intersect (Senders \union Consumers) = {}
  /\ IsFiniteSet(Actors)
  /\ Capacity \in Nat
  /\ NumItems \in Nat \ {0}
  /\ Upfront \in BOOLEAN
  /\ Exact \in BOOLEAN
  /\ NoItem \notin Items
  \* Unregistered senders exist only as try_send users in this code base.
  /\ Senders \ Registered \subseteq Trying

VARIABLES
  queue,        \* queue_: the items in it (unordered, see Take)
  slots,        \* available_slots_ (0 and unused when unlimited)
  pending,      \* pending_items_
  np,           \* num_producers_
  had,          \* had_producers_
  active,       \* active_sends_
  userClosed,   \* user_closed_
  closed,       \* closed_
  stuck,        \* state_mutex_ was locked again by the thread that holds it
  recvWaiters,  \* the intrusive list of suspended receivers
  sendWaiters,  \* the intrusive list of suspended senders
  pc,           \* where each actor is
  count,        \* the index of the item each sender is sending
  ok,           \* sent_ of the sender's current send
  item,         \* the result_ / item local of each consumer
  term,         \* the local `terminal` of notify_all_waiters
  accepted,     \* history: items whose send succeeded
  received      \* history: items returned to a consumer

buffer  == <<queue, slots, pending>>
life    == <<np, had, userClosed, closed>>
waiters == <<recvWaiters, sendWaiters>>
hist    == <<accepted, received>>
vars    == <<buffer, life, active, stuck, waiters, pc, count, ok, item, term,
             hist>>

Bounded == Capacity # 0
Full    == Bounded /\ slots = 0
Current(s) == <<s, count[s]>>

-----------------------------------------------------------------------------
(* Building blocks *)

\* state_mutex_ can be taken.  A critical section is one step, with two
\* exceptions: a thread that locks the mutex twice holds it for good, and
\* blocking_receive is interruptible by the atomics between its test and its
\* wait.
Mutex == ~stuck /\ \A b \in Blockers : pc[b] # "cvWaiting"

\* Where an actor continues when its handle is resumed or its wait notified.
Resumed(x) == CASE x \in Senders  -> "sent"
                [] x \in Blockers -> "blockLock"
                [] OTHER          -> "got"

\* Actor a moves to l, and the actors in R are resumed.
Move(a, l, R) ==
  pc' = [x \in Actors |-> IF x = a THEN l
                          ELSE IF x \in R THEN Resumed(x) ELSE pc[x]]

\* Threads sleeping on cv_readable_, and what notify_one may wake.
Sleeping  == {b \in Blockers : pc[b] = "cvWait"}
NotifyOne == IF Sleeping = {} THEN {{}} ELSE {{b} : b \in Sleeping}

\* try_dequeue on the moodycamel queue: it keeps one FIFO per enqueuing
\* thread, and the coroutines migrate between threads, so any item may come
\* out next.
Take(i) == /\ i \in queue
           /\ queue' = queue \ {i}

\* ... and it fails if the queue "appeared" empty: it is empty, or another
\* failing dequeuer has overrun the tail and not yet corrected its count.
AppearsEmpty(c) ==
  \/ queue = {}
  \/ ~Exact /\ \E d \in Consumers \ {c} : pc[d] = "missed"

\* queue_.enqueue with its slot and its count, always under the mutex.
Put(i) ==
  /\ queue' = queue \union {i}
  /\ pending' = pending + 1
  /\ slots' = IF Bounded THEN slots - 1 ELSE slots

FreedSlots(n) == IF Bounded THEN slots + n ELSE slots

\* try_receive_locked: dequeue and mark_item_consumed in one critical section,
\* on behalf of c, releasing n slots.
LockedDequeue(c, i, n) ==
  /\ Take(i)
  /\ pending' = pending - 1
  /\ slots' = FreedSlots(n)
  /\ item' = [item EXCEPT ![c] = i]

\* Mutant: one producer too early.
NoMoreSenders_early == userClosed \/ (had /\ np <= 1)

NoMoreSenders == userClosed \/ (had /\ np = 0)

is_terminal_locked == NoMoreSenders /\ active = 0 /\ pending = 0

\* The test of maybe_notify_terminal, which looks neither at had_producers_
\* nor at user_closed_.
Drained == np = 0 /\ active = 0 /\ pending = 0

-----------------------------------------------------------------------------
Init ==
  /\ queue = {}
  /\ slots = Capacity
  /\ pending = 0
  /\ np = IF Upfront THEN Cardinality(Registered) ELSE 0
  /\ had = (Upfront /\ Registered # {})
  /\ active = 0
  /\ userClosed = FALSE
  /\ closed = FALSE
  /\ stuck = FALSE
  /\ recvWaiters = <<>>
  /\ sendWaiters = <<>>
  /\ pc = [a \in Actors |->
             CASE a \in Registered /\ ~Upfront -> "unborn"
               [] a \in Senders /\ (a \notin Registered \/ Upfront) -> "send"
               [] a \in Consumers -> "recv"
               [] a \in Closers -> "close"]
  /\ count = [s \in Senders |-> 1]
  /\ ok = [s \in Senders |-> FALSE]
  /\ item = [c \in Consumers |-> NoItem]
  /\ term = [a \in Actors |-> FALSE]
  /\ accepted = {}
  /\ received = {}

-----------------------------------------------------------------------------
(* Producer slots *)

\* channel->producer() for a coroutine that is spawned right after it, as in
\* the loop of CoroScope::spawn_producers.
register_producer(s) ==
  /\ pc[s] = "unborn" /\ Mutex
  /\ np' = np + 1
  /\ had' = TRUE
  /\ Move(s, "send", {})
  /\ UNCHANGED <<buffer, userClosed, closed, active, stuck, waiters, count,
                 ok, item, term, hist>>

\* Mutant: state_mutex_ is not taken.
release_producer_unlocked(s) ==
  /\ pc[s] = "release" /\ ~stuck
  /\ np' = np - 1
  /\ closed' = (closed \/ (np = 1 /\ ~userClosed))
  /\ IF np = 1 THEN Move(s, "notifyAll", Sleeping) ELSE Move(s, "done", {})
  /\ UNCHANGED <<buffer, had, userClosed, active, stuck, waiters, count, ok,
                 item, term, hist>>

\* ~ProducerGuard: the last one closes the channel and notifies everybody.
release_producer(s) ==
  /\ pc[s] = "release" /\ Mutex
  /\ np' = np - 1
  /\ closed' = (closed \/ (np = 1 /\ ~userClosed))
  /\ IF np = 1 THEN Move(s, "notifyAll", Sleeping) ELSE Move(s, "done", {})
  /\ UNCHANGED <<buffer, had, userClosed, active, stuck, waiters, count, ok,
                 item, term, hist>>

close(x) ==
  /\ pc[x] = "close" /\ Mutex
  /\ userClosed' = TRUE
  /\ closed' = TRUE
  /\ Move(x, "notifyAll", Sleeping)
  /\ UNCHANGED <<buffer, np, had, active, stuck, waiters, count, ok, item,
                 term, hist>>

-----------------------------------------------------------------------------
(* notify_all_waiters, maybe_notify_terminal and the wake loops *)

\* The locked look at the state; notify_all on the condition variables came
\* with the change of the flags.
notify_all_waiters(a) ==
  /\ pc[a] = "notifyAll" /\ Mutex
  /\ term' = [term EXCEPT ![a] = is_terminal_locked]
  /\ Move(a, IF NoMoreSenders THEN "wakeRecv" ELSE "afterRecv", {})
  /\ UNCHANGED <<buffer, life, active, stuck, waiters, count, ok, item, hist>>

\* After the receivers: the senders too, if terminal or closed by the user.
notify_all_then_senders(a) ==
  /\ pc[a] = "afterRecv"
  /\ Move(a, IF term[a] \/ userClosed THEN "wakeSend" ELSE "done", {})
  /\ UNCHANGED <<buffer, life, active, stuck, waiters, count, ok, item, term,
                 hist>>

\* Where a caller of maybe_notify_terminal continues afterwards.
AfterTerminal(a) == IF a \in Senders THEN "sent" ELSE "got"

maybe_notify_terminal(a) ==
  /\ pc[a] = "maybeTerm"
  /\ IF Drained THEN Move(a, "wakeTerm", Sleeping)
                ELSE Move(a, AfterTerminal(a), {})
  /\ UNCHANGED <<buffer, life, active, stuck, waiters, count, ok, item, term,
                 hist>>

\* One iteration of wake_all_receive_waiters_terminal: the waiter gets an
\* item if the queue yields one ...
WakeWithItem(a) ==
  /\ pc[a] \in {"wakeRecv", "wakeTerm"} /\ Mutex
  /\ recvWaiters # <<>>
  /\ recvWaiters' = Tail(recvWaiters)
  /\ \E i \in queue : LockedDequeue(Head(recvWaiters), i, 1)
  /\ Move(a, pc[a], {Head(recvWaiters)})
  /\ UNCHANGED <<life, active, stuck, sendWaiters, count, ok, term, hist>>

\* ... and nullopt otherwise.
WakeWithEnd(a) ==
  /\ pc[a] \in {"wakeRecv", "wakeTerm"} /\ Mutex
  /\ recvWaiters # <<>>
  /\ recvWaiters' = Tail(recvWaiters)
  /\ AppearsEmpty(Head(recvWaiters))
  /\ item' = [item EXCEPT ![Head(recvWaiters)] = NoItem]
  /\ Move(a, pc[a], {Head(recvWaiters)})
  /\ UNCHANGED <<buffer, life, active, stuck, sendWaiters, count, ok, term,
                 hist>>

\* The last iteration.
WakeReceiverDone(a) ==
  /\ pc[a] \in {"wakeRecv", "wakeTerm"} /\ Mutex
  /\ recvWaiters = <<>>
  /\ Move(a, IF pc[a] = "wakeRecv" THEN "afterRecv" ELSE AfterTerminal(a), {})
  /\ UNCHANGED <<buffer, life, active, stuck, waiters, count, ok, item, term,
                 hist>>

wake_all_receive_waiters_terminal(a) ==
  WakeWithItem(a) \/ WakeWithEnd(a) \/ WakeReceiverDone(a)

RejectSender(a) ==
  /\ pc[a] = "wakeSend" /\ Mutex
  /\ sendWaiters # <<>>
  /\ sendWaiters' = Tail(sendWaiters)
  /\ ok' = [ok EXCEPT ![Head(sendWaiters)] = FALSE]
  /\ Move(a, "wakeSend", {Head(sendWaiters)})
  /\ UNCHANGED <<buffer, life, active, stuck, recvWaiters, count, item, term,
                 hist>>

RejectSenderDone(a) ==
  /\ pc[a] = "wakeSend" /\ Mutex
  /\ sendWaiters = <<>>
  /\ Move(a, "done", {})
  /\ UNCHANGED <<buffer, life, active, stuck, waiters, count, ok, item, term,
                 hist>>

wake_all_send_waiters_closed(a) == RejectSender(a) \/ RejectSenderDone(a)

-----------------------------------------------------------------------------
(* co_await send(item) *)

CanSend(s) == pc[s] = "send" /\ s \notin Trying /\ Mutex

SendClosed(s) ==
  /\ CanSend(s) /\ userClosed
  /\ ok' = [ok EXCEPT ![s] = FALSE]
  /\ Move(s, "sent", {})
  /\ UNCHANGED <<buffer, life, active, stuck, waiters, count, item, term, hist>>

\* Mutant: the waiter is looked at but not popped.
SendHandOff_peek(s) ==
  /\ CanSend(s) /\ ~userClosed
  /\ recvWaiters # <<>>
  /\ item' = [item EXCEPT ![Head(recvWaiters)] = Current(s)]
  /\ ok' = [ok EXCEPT ![s] = TRUE]
  /\ accepted' = accepted \union {Current(s)}
  /\ Move(s, "sent", {Head(recvWaiters)})
  /\ UNCHANGED <<buffer, life, active, stuck, waiters, count, term, received>>

\* A suspended receiver takes the item directly.
SendHandOff(s) ==
  /\ CanSend(s) /\ ~userClosed
  /\ recvWaiters # <<>>
  /\ recvWaiters' = Tail(recvWaiters)
  /\ item' = [item EXCEPT ![Head(recvWaiters)] = Current(s)]
  /\ ok' = [ok EXCEPT ![s] = TRUE]
  /\ accepted' = accepted \union {Current(s)}
  /\ Move(s, "sent", {Head(recvWaiters)})
  /\ UNCHANGED <<buffer, life, active, stuck, sendWaiters, count, term,
                 received>>

SendPark(s) ==
  /\ CanSend(s) /\ ~userClosed
  /\ recvWaiters = <<>> /\ Full
  /\ sendWaiters' = Append(sendWaiters, s)
  /\ Move(s, "parked", {})
  /\ UNCHANGED <<buffer, life, active, stuck, recvWaiters, count, ok, item,
                 term, hist>>

SendEnqueue(s) ==
  /\ CanSend(s) /\ ~userClosed
  /\ recvWaiters = <<>> /\ ~Full
  /\ Put(Current(s))
  /\ ok' = [ok EXCEPT ![s] = TRUE]
  /\ accepted' = accepted \union {Current(s)}
  /\ \E woken \in NotifyOne : Move(s, "sent", woken)
  /\ UNCHANGED <<life, active, stuck, waiters, count, item, term, received>>

send(s) == SendClosed(s) \/ SendHandOff(s) \/ SendPark(s) \/ SendEnqueue(s)

\* The producer loop: `if (!co_await ch.send(item)) co_return;`.  A caller of
\* try_send drops the item it could not send and goes on.
Continues(s) == (ok[s] \/ s \in Trying) /\ count[s] < NumItems

SendNext(s) ==
  /\ pc[s] = "sent" /\ Continues(s)
  /\ count' = [count EXCEPT ![s] = @ + 1]
  /\ Move(s, "send", {})
  /\ UNCHANGED <<buffer, life, active, stuck, waiters, ok, item, term, hist>>

SendLast(s) ==
  /\ pc[s] = "sent" /\ ~Continues(s)
  /\ Move(s, IF s \in Registered THEN "release" ELSE "done", {})
  /\ UNCHANGED <<buffer, life, active, stuck, waiters, count, ok, item, term,
                 hist>>

-----------------------------------------------------------------------------
(* try_send(item) *)

\* The lock-free look at user_closed_.
TrySendBegin(s) ==
  /\ pc[s] = "send" /\ s \in Trying
  /\ ok' = [ok EXCEPT ![s] = FALSE]
  /\ Move(s, IF userClosed THEN "sent" ELSE "tryCount", {})
  /\ UNCHANGED <<buffer, life, active, stuck, waiters, count, item, term, hist>>

\* active_sends_.fetch_add
TrySendCount(s) ==
  /\ pc[s] = "tryCount"
  /\ active' = active + 1
  /\ Move(s, "tryLock", {})
  /\ UNCHANGED <<buffer, life, stuck, waiters, count, ok, item, term, hist>>

\* Closed or full: the failure exits call maybe_notify_terminal while they
\* still hold state_mutex_, and if the channel is drained it locks the mutex
\* a second time.
TrySendReject(s) ==
  /\ pc[s] = "tryLock" /\ Mutex
  /\ userClosed \/ (recvWaiters = <<>> /\ Full)
  /\ active' = active - 1
  /\ IF np = 0 /\ active = 1 /\ pending = 0
     THEN stuck' = TRUE /\ Move(s, "hung", Sleeping)
     ELSE stuck' = stuck /\ Move(s, "sent", {})
  /\ UNCHANGED <<buffer, life, waiters, count, ok, item, term, hist>>

\* The receiver is off the list here and resumed by TrySendExit.
TrySendHandOff(s) ==
  /\ pc[s] = "tryLock" /\ Mutex /\ ~userClosed
  /\ recvWaiters # <<>>
  /\ recvWaiters' = Tail(recvWaiters)
  /\ item' = [item EXCEPT ![Head(recvWaiters)] = Current(s)]
  /\ ok' = [ok EXCEPT ![s] = TRUE]
  /\ accepted' = accepted \union {Current(s)}
  /\ Move(s, "tryExit", {})
  /\ UNCHANGED <<buffer, life, active, stuck, sendWaiters, count, term,
                 received>>

\* Mutant: user_closed_ is not looked at again under the mutex.
TrySendEnqueue_unchecked(s) ==
  /\ pc[s] = "tryLock" /\ Mutex
  /\ recvWaiters = <<>> /\ ~Full
  /\ Put(Current(s))
  /\ ok' = [ok EXCEPT ![s] = TRUE]
  /\ accepted' = accepted \union {Current(s)}
  /\ Move(s, "tryNotify", {})
  /\ UNCHANGED <<life, active, stuck, waiters, count, item, term, received>>

TrySendEnqueue(s) ==
  /\ pc[s] = "tryLock" /\ Mutex /\ ~userClosed
  /\ recvWaiters = <<>> /\ ~Full
  /\ Put(Current(s))
  /\ ok' = [ok EXCEPT ![s] = TRUE]
  /\ accepted' = accepted \union {Current(s)}
  /\ Move(s, "tryNotify", {})
  /\ UNCHANGED <<life, active, stuck, waiters, count, item, term, received>>

\* queue_.try_enqueue does not allocate and fails when the sending thread
\* finds no free block: slot and count are taken back.
TrySendNoBlock(s) ==
  /\ pc[s] = "tryLock" /\ Mutex /\ ~userClosed
  /\ recvWaiters = <<>> /\ ~Full
  /\ Move(s, "tryExit", {})
  /\ UNCHANGED <<buffer, life, active, stuck, waiters, count, ok, item, term,
                 hist>>

\* active_sends_.fetch_sub, then the resumption or the notification, none of
\* them under the mutex.
TrySendExit(s) ==
  /\ active' = active - 1
  /\ \/ /\ pc[s] = "tryExit"
        /\ Move(s, "maybeTerm",
                {r \in Receivers : pc[r] = "parked" /\ item[r] = Current(s)})
     \/ /\ pc[s] = "tryNotify"
        /\ \E woken \in NotifyOne : Move(s, "maybeTerm", woken)
  /\ UNCHANGED <<buffer, life, stuck, waiters, count, ok, item, term, hist>>

try_send(s) ==
  \/ TrySendBegin(s)
  \/ TrySendCount(s)
  \/ TrySendReject(s)
  \/ TrySendHandOff(s)
  \/ TrySendEnqueue(s)
  \/ TrySendNoBlock(s)
  \/ TrySendExit(s)

-----------------------------------------------------------------------------
(* co_await receive() and blocking_receive(): the lock-free fast path *)

\* try_receive dequeues without the mutex ...
FastDequeue(c) ==
  /\ pc[c] = "recv"
  /\ \E i \in queue : Take(i) /\ item' = [item EXCEPT ![c] = i]
  /\ Move(c, "mark", {})
  /\ UNCHANGED <<slots, pending, life, active, stuck, waiters, count, ok, term,
                 hist>>

FastMiss(c) ==
  /\ pc[c] = "recv"
  /\ AppearsEmpty(c)
  /\ Move(c, "missed", {})
  /\ UNCHANGED <<buffer, life, active, stuck, waiters, count, ok, item, term,
                 hist>>

\* A failed try_dequeue returns.
Missed(c) ==
  /\ pc[c] = "missed"
  /\ Move(c, IF c \in Receivers THEN "readyLock" ELSE "blockLock", {})
  /\ UNCHANGED <<buffer, life, active, stuck, waiters, count, ok, item, term,
                 hist>>

\* ... and only after a successful one pending_items_ is decremented.
mark_item_consumed(c) ==
  /\ pc[c] = "mark"
  /\ pending' = pending - 1
  /\ Move(c, "wakeOneTerm", {})
  /\ UNCHANGED <<queue, slots, life, active, stuck, waiters, count, ok, item,
                 term, hist>>

\* Release the consumed item's slot and let a suspended sender use it.  On
\* the fast path (and in blocking_receive) maybe_notify_terminal follows.
AfterWakeOne(c) == IF pc[c] = "wakeOneTerm" THEN "maybeTerm" ELSE "got"

WakeNoSender(c) ==
  /\ pc[c] \in {"wakeOne", "wakeOneTerm"} /\ Mutex
  /\ sendWaiters = <<>>
  /\ slots' = FreedSlots(1)
  /\ Move(c, AfterWakeOne(c), {})
  /\ UNCHANGED <<queue, pending, life, active, stuck, waiters, count, ok, item,
                 term, hist>>

WakeRejectedSender(c) ==
  /\ pc[c] \in {"wakeOne", "wakeOneTerm"} /\ Mutex
  /\ sendWaiters # <<>> /\ userClosed
  /\ slots' = FreedSlots(1)
  /\ sendWaiters' = Tail(sendWaiters)
  /\ ok' = [ok EXCEPT ![Head(sendWaiters)] = FALSE]
  /\ Move(c, AfterWakeOne(c), {Head(sendWaiters)})
  /\ UNCHANGED <<queue, pending, life, active, stuck, recvWaiters, count, item,
                 term, hist>>

\* The code would hand the item to a suspended receiver first, but the two
\* lists are never both non-empty (NobodyForgotten), and the slot it has just
\* released is still free.
WakeSender(c) ==
  /\ pc[c] \in {"wakeOne", "wakeOneTerm"} /\ Mutex
  /\ sendWaiters # <<>> /\ ~userClosed
  /\ LET s == Head(sendWaiters) IN
     /\ sendWaiters' = Tail(sendWaiters)
     /\ ok' = [ok EXCEPT ![s] = TRUE]
     /\ queue' = queue \union {Current(s)}
     /\ pending' = pending + 1
     /\ accepted' = accepted \union {Current(s)}
     /\ \E woken \in NotifyOne : Move(c, AfterWakeOne(c), {s} \union woken)
  /\ UNCHANGED <<slots, life, active, stuck, recvWaiters, count, item, term,
                 received>>

wake_one_send_waiter_after_receive(c) ==
  WakeNoSender(c) \/ WakeRejectedSender(c) \/ WakeSender(c)

\* The result leaves the operation; the consumer loops until nullopt.
ReceiveResult(c) ==
  /\ pc[c] = "got"
  /\ IF item[c] = NoItem
     THEN Move(c, "done", {}) /\ UNCHANGED received
     ELSE Move(c, "recv", {}) /\ received' = received \union {item[c]}
  /\ item' = [item EXCEPT ![c] = NoItem]
  /\ UNCHANGED <<buffer, life, active, stuck, waiters, count, ok, term,
                 accepted>>

-----------------------------------------------------------------------------
(* The locked paths of receive() *)

\* The second half of await_ready.
ReadyDequeue(r) ==
  /\ pc[r] = "readyLock" /\ Mutex
  /\ \E i \in queue : LockedDequeue(r, i, 0)
  /\ Move(r, "wakeOne", {})
  /\ UNCHANGED <<life, active, stuck, waiters, count, ok, term, hist>>

ReadyEmpty(r) ==
  /\ pc[r] = "readyLock" /\ Mutex
  /\ AppearsEmpty(r)
  /\ Move(r, IF is_terminal_locked THEN "got" ELSE "suspend", {})
  /\ UNCHANGED <<buffer, life, active, stuck, waiters, count, ok, item, term,
                 hist>>

await_ready(r) == ReadyDequeue(r) \/ ReadyEmpty(r)

SuspendDequeue(r) ==
  /\ pc[r] = "suspend" /\ Mutex
  /\ \E i \in queue : LockedDequeue(r, i, 0)
  /\ Move(r, "wakeOne", {})
  /\ UNCHANGED <<life, active, stuck, waiters, count, ok, term, hist>>

\* Nothing queued but a sender is suspended: take its item, or, after
\* close(), fail its send and report the end of the stream.
SuspendFromSender(r) ==
  /\ pc[r] = "suspend" /\ Mutex
  /\ AppearsEmpty(r) /\ sendWaiters # <<>>
  /\ LET s == Head(sendWaiters) IN
     /\ sendWaiters' = Tail(sendWaiters)
     /\ ok' = [ok EXCEPT ![s] = ~userClosed]
     /\ IF userClosed
        THEN UNCHANGED <<item, accepted>>
        ELSE /\ item' = [item EXCEPT ![r] = Current(s)]
             /\ accepted' = accepted \union {Current(s)}
     /\ Move(r, "got", {s})
  /\ UNCHANGED <<buffer, life, active, stuck, recvWaiters, count, term,
                 received>>

SuspendEnd(r) ==
  /\ pc[r] = "suspend" /\ Mutex
  /\ AppearsEmpty(r) /\ sendWaiters = <<>> /\ is_terminal_locked
  /\ Move(r, "got", {})
  /\ UNCHANGED <<buffer, life, active, stuck, waiters, count, ok, item, term,
                 hist>>

\* Mutant: await_suspend does not look at the queue again.
SuspendPark_blind(r) ==
  /\ pc[r] = "suspend" /\ Mutex
  /\ sendWaiters = <<>> /\ ~is_terminal_locked
  /\ Move(r, "parked", {})
  /\ recvWaiters' = Append(recvWaiters, r)
  /\ UNCHANGED <<buffer, life, active, stuck, sendWaiters, count, ok, item,
                 term, hist>>

SuspendPark(r) ==
  /\ pc[r] = "suspend" /\ Mutex
  /\ AppearsEmpty(r) /\ sendWaiters = <<>> /\ ~is_terminal_locked
  /\ Move(r, "parked", {})
  /\ recvWaiters' = Append(recvWaiters, r)
  /\ UNCHANGED <<buffer, life, active, stuck, sendWaiters, count, ok, item,
                 term, hist>>

await_suspend(r) ==
  \/ SuspendDequeue(r)
  \/ SuspendFromSender(r)
  \/ SuspendEnd(r)
  \/ SuspendPark(r)

receive(r) == await_ready(r) \/ await_suspend(r)

-----------------------------------------------------------------------------
(* The locked loop of blocking_receive() *)

\* It releases the slot itself and then calls
\* wake_one_send_waiter_after_receive, which releases it again.
BlockingTake(b) ==
  /\ pc[b] = "blockLock" /\ Mutex
  /\ \E i \in queue : LockedDequeue(b, i, 1)
  /\ Move(b, "wakeOneTerm", {})
  /\ UNCHANGED <<life, active, stuck, waiters, count, ok, term, hist>>

BlockingWait(b) ==
  /\ pc[b] = "blockLock" /\ Mutex
  /\ AppearsEmpty(b)
  /\ Move(b, IF is_terminal_locked THEN "got" ELSE "cvWaiting", {})
  /\ UNCHANGED <<buffer, life, active, stuck, waiters, count, ok, item, term,
                 hist>>

\* cv_readable_.wait(lock): asleep and unlocked at once.
BlockingSleep(b) ==
  /\ pc[b] = "cvWaiting"
  /\ Move(b, "cvWait", {})
  /\ UNCHANGED <<buffer, life, active, stuck, waiters, count, ok, item, term,
                 hist>>

blocking_receive(b) == BlockingTake(b) \/ BlockingWait(b) \/ BlockingSleep(b)

-----------------------------------------------------------------------------
\* What the thread or the coroutine of actor a does next, close() apart.
ActorStep(a) ==
  \/ a \in Senders /\ \/ register_producer(a)
                      \/ send(a)
                      \/ try_send(a)
                      \/ SendNext(a) \/ SendLast(a)
                      \/ release_producer(a)
  \/ a \in Consumers /\ \/ FastDequeue(a) \/ FastMiss(a)
                        \/ Missed(a)
                        \/ mark_item_consumed(a)
                        \/ wake_one_send_waiter_after_receive(a)
                        \/ ReceiveResult(a)
  \/ a \in Receivers /\ receive(a)
  \/ a \in Blockers /\ blocking_receive(a)
  \/ notify_all_waiters(a)
  \/ notify_all_then_senders(a)
  \/ maybe_notify_terminal(a)
  \/ wake_all_receive_waiters_terminal(a)
  \/ wake_all_send_waiters_closed(a)

Finished == \A a \in Senders \union Consumers : pc[a] = "done"

\* Everybody returned: the system may stop here, and only here.
Terminating == Finished /\ UNCHANGED vars

Next == \/ \E a \in Actors : ActorStep(a)
        \/ \E x \in Closers : close(x)
        \/ Terminating

\* The executor keeps running every resumed coroutine and the OS every
\* runnable thread.  Nobody has to call close().
Fairness == \A a \in Actors : WF_vars(ActorStep(a))

Spec     == Init /\ [][Next]_vars
FairSpec == Spec /\ Fairness

-----------------------------------------------------------------------------
(* Properties *)

Labels == {"unborn", "send", "sent", "parked", "tryCount", "tryLock",
           "tryExit", "tryNotify", "hung", "release", "recv", "missed",
           "mark", "wakeOne", "wakeOneTerm", "maybeTerm", "wakeTerm", "wakeRecv",
           "afterRecv", "wakeSend", "readyLock", "suspend", "blockLock",
           "cvWaiting", "cvWait", "got", "close", "notifyAll", "done"}

\* Every variable has its type; the waiter lists hold senders and receivers.
TypeOK ==
  /\ queue \subseteq Items
  /\ slots \in Int /\ pending \in Int /\ np \in Int /\ active \in Int
  /\ had \in BOOLEAN /\ userClosed \in BOOLEAN /\ closed \in BOOLEAN
  /\ stuck \in BOOLEAN
  /\ recvWaiters \in Seq(Receivers) /\ sendWaiters \in Seq(Senders)
  /\ pc \in [Actors -> Labels]
  /\ count \in [Senders -> 1 .. NumItems]
  /\ ok \in [Senders -> BOOLEAN]
  /\ item \in [Consumers -> Items \union {NoItem}]
  /\ term \in [Actors -> BOOLEAN]
  /\ accepted \subseteq Items /\ received \subseteq Items

\* An item whose send succeeded is in exactly one place: queued, in the hands
\* of one consumer, or already returned.  Nothing is lost, duplicated or
\* delivered without having been sent.
ExactlyOnce ==
  /\ \A i \in Items : i \in accepted <=>
       i \in queue \/ i \in received \/ \E c \in Consumers : item[c] = i
  /\ queue \intersect received = {}
  /\ \A c \in Consumers : item[c] \notin queue \union received
  /\ \A c, d \in Consumers : c # d /\ item[c] = item[d] => item[c] = NoItem

\* A consumer is told "end of stream" only when the stream is over: the
\* channel is closed, nothing is queued, and every registered producer has
\* released its slot unless the user closed the channel.
EndIsFinal ==
  (\E c \in Consumers : pc[c] = "done") =>
    /\ closed
    /\ queue = {}
    /\ userClosed \/ \A s \in Registered : pc[s] \in
         {"notifyAll", "wakeRecv", "afterRecv", "wakeSend", "done"}

\* A suspended sender is on the waiter list: there is no way to be parked
\* and forgotten.  (Receivers are off the list between TrySendHandOff and
\* TrySendExit, and TrySendExit names them by their item.)
Listed(x, q) == \E n \in DOMAIN q : q[n] = x
ParkedIsListed ==
  /\ \A s \in Senders : pc[s] = "parked" <=> Listed(s, sendWaiters)
  /\ \A r \in Receivers :
       pc[r] = "parked" /\ item[r] = NoItem <=> Listed(r, recvWaiters)

\* A consumer that is to look at the queue, or will when it is done with the
\* item it has.
Looking(c) ==
  \/ pc[c] \in {"recv", "missed", "readyLock", "suspend", "blockLock"}
  \/ item[c] # NoItem

\* Somebody is about to wake a suspended sender: a consumer that releases the
\* slot of its item, or whoever has closed the channel.
WakesSender(a) ==
  \/ pc[a] \in {"mark", "wakeOne", "wakeOneTerm"}
  \/ userClosed /\ pc[a] \in {"notifyAll", "wakeRecv", "afterRecv", "wakeSend"}

\* No suspended receiver is left beside a queued item unless a consumer will
\* come for it, and no suspended sender beside an empty queue, or beside a
\* suspended receiver, without a wake-up on its way.
NobodyForgotten ==
  /\ recvWaiters # <<>> /\ queue # {} => \E c \in Consumers : Looking(c)
  /\ sendWaiters # <<>> /\ queue = {} => \E a \in Actors : WakesSender(a)
  /\ sendWaiters = <<>> \/ recvWaiters = <<>>

\* Once user_closed_ is set no further item enters the channel.
NoSendAfterClose == [][userClosed => accepted' = accepted]_vars

\* Every sender and every consumer loop returns.
EverybodyReturns == <>Finished
=============================================================================
