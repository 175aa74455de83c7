------------------------------ MODULE FifoLock ------------------------------
(***************************************************************************)
(* What coro::AsyncMutex promises to the coroutines that use it: one owner *)
(* at a time, no barging past a waiter, and hand-over to the waiter that   *)
(* has been queued longest.                                                *)
(***************************************************************************)
EXTENDS Naturals, Sequences

CONSTANTS Coros, NoOne

VARIABLES owner, queue
vars == <<owner, queue>>

Init == owner = NoOne /\ queue = <<>>

\* A coroutine finds the mutex free, and nobody in front of it.
Acquire(c) ==
  /\ owner = NoOne /\ queue = <<>>
  /\ owner' = c
  /\ UNCHANGED queue

Enqueue(c) ==
  /\ owner # NoOne
  /\ queue' = Append(queue, c)
  /\ UNCHANGED owner

Release ==
  /\ owner # NoOne /\ queue = <<>>
  /\ owner' = NoOne
  /\ UNCHANGED queue

\* The mutex goes from hand to hand: it is never free while somebody waits.
HandOver ==
  /\ owner # NoOne /\ queue # <<>>
  /\ owner' = Head(queue)
  /\ queue' = Tail(queue)

Next == Release \/ HandOver \/ \E c \in Coros : Acquire(c) \/ Enqueue(c)

Spec == Init /\ [][Next]_vars
=============================================================================
