----------------------------- MODULE AsyncMutex -----------------------------
(***************************************************************************)
(* coro::AsyncMutex, the lock-free mutex for coroutines                    *)
(* (include/dftracer/utils/core/coro/async_mutex.h): one atomic word that  *)
(* is NOT_LOCKED, LOCKED_NO_WAITERS or the head of a LIFO stack of waiting *)
(* lock operations, and a FIFO list that only the lock holder touches.     *)
(*                                                                         *)
(* One step is one access to the atomic word, with the accesses to         *)
(* holder-private memory around it.  A lock operation is named by its      *)
(* coroutine, which has at most one under way.  resume() is a call: the    *)
(* coroutine in unlock() goes on when the one it resumed suspends or ends. *)
(***************************************************************************)
EXTENDS Naturals, Sequences

CONSTANTS
  Coros,      \* the coroutines that share the mutex
  NumLocks,   \* BOUND: critical sections of each
  Null,       \* nullptr, and LOCKED_NO_WAITERS: both are 0
  NotLocked,  \* NOT_LOCKED
  NoOne

ASSUME MutexAssumption ==
  /\ NumLocks \in Nat \ {0}
  /\ Null \notin Coros /\ NotLocked \notin Coros /\ NoOne \notin Coros
  /\ Null # NotLocked

VARIABLES
  state,    \* state_
  waiters,  \* waiters_: head of the FIFO list
  next,     \* next_ of each lock operation
  pc,
  old,      \* local of await_suspend: what the last load or CAS saw
  head,     \* local of unlock: head of the FIFO list under construction
  cur,      \* local of unlock: the rest of the detached stack (`next`)
  host,     \* whose unlock() runs this coroutine, NoOne if the executor does
  rounds,   \* critical sections begun
  listed,   \* history: the detached waiters, in the order of their arrival
  stacked   \* history: those on the stack, in the order of their arrival

locals == <<old, head, cur>>
hist   == <<listed, stacked>>
vars   == <<state, waiters, next, pc, locals, host, rounds, hist>>

Nodes == Coros \union {Null}

Init ==
  /\ state = NotLocked
  /\ waiters = Null
  /\ next = [c \in Coros |-> Null]
  /\ pc = [c \in Coros |-> "idle"]
  /\ old = [c \in Coros |-> NotLocked]
  /\ head = [c \in Coros |-> Null]
  /\ cur = [c \in Coros |-> Null]
  /\ host = [c \in Coros |-> NoOne]
  /\ rounds = [c \in Coros |-> 0]
  /\ listed = <<>>
  /\ stacked = <<>>

Goto(c, l) == pc' = [pc EXCEPT ![c] = l]

\* The thread leaves coroutine c: whoever resumed it goes on.
Leave(c) == host' = [host EXCEPT ![c] = NoOne]

-----------------------------------------------------------------------------
(* co_await lock() *)

Load(c) ==
  /\ pc[c] = "idle"
  /\ old' = [old EXCEPT ![c] = state]
  /\ rounds' = [rounds EXCEPT ![c] = @ + 1]
  /\ Goto(c, "cas")
  /\ UNCHANGED <<state, waiters, next, head, cur, host, hist>>

\* Mutant: a failed compare-exchange does not reload `old`.
Retry_stale(c) ==
  /\ pc[c] = "cas" /\ state # old[c]
  /\ UNCHANGED vars

\* The compare-exchange fails.  (A spurious failure changes nothing.)
Retry(c) ==
  /\ pc[c] = "cas" /\ state # old[c]
  /\ old' = [old EXCEPT ![c] = state]
  /\ UNCHANGED <<state, waiters, next, pc, head, cur, host, rounds, hist>>

Take(c) ==
  /\ pc[c] = "cas" /\ state = old[c] /\ state = NotLocked
  /\ state' = Null
  /\ Goto(c, "critical")
  /\ UNCHANGED <<waiters, next, locals, host, rounds, hist>>

\* Mutant: the compare-exchange is a plain store.
Push_store(c) ==
  /\ pc[c] = "cas" /\ old[c] # NotLocked
  /\ next' = [next EXCEPT ![c] = old[c]]
  /\ state' = c
  /\ stacked' = Append(stacked, c)
  /\ Goto(c, "suspended")
  /\ Leave(c)
  /\ UNCHANGED <<waiters, locals, rounds, listed>>

Push(c) ==
  /\ pc[c] = "cas" /\ state = old[c] /\ state # NotLocked
  /\ next' = [next EXCEPT ![c] = state]
  /\ state' = c
  /\ stacked' = Append(stacked, c)
  /\ Goto(c, "suspended")
  /\ Leave(c)
  /\ UNCHANGED <<waiters, locals, rounds, listed>>

lock(c) == Load(c) \/ Retry(c) \/ Take(c) \/ Push(c)

-----------------------------------------------------------------------------
(* The critical section *)

\* It suspends on something else and goes on on a thread of the executor ...
Migrate(c) ==
  /\ pc[c] = "critical" /\ host[c] # NoOne
  /\ Leave(c)
  /\ UNCHANGED <<state, waiters, next, pc, locals, rounds, hist>>

\* ... and ends with a call of unlock().
Finish(c) ==
  /\ pc[c] = "critical"
  /\ Goto(c, "unlock")
  /\ UNCHANGED <<state, waiters, next, locals, host, rounds, hist>>

-----------------------------------------------------------------------------
(* unlock() *)

\* What the coroutine does after unlock(): lock again, or end.
Continue(c) ==
  IF rounds[c] < NumLocks
  THEN Goto(c, "idle") /\ UNCHANGED host
  ELSE Goto(c, "done") /\ Leave(c)

UnlockFree(c) ==
  /\ pc[c] = "unlock" /\ waiters = Null
  /\ state = Null
  /\ state' = NotLocked
  /\ Continue(c)
  /\ UNCHANGED <<waiters, next, locals, rounds, hist>>

UnlockContended(c) ==
  /\ pc[c] = "unlock" /\ waiters = Null
  /\ state # Null
  /\ Goto(c, "exchange")
  /\ UNCHANGED <<state, waiters, next, locals, host, rounds, hist>>

UnlockListed(c) ==
  /\ pc[c] = "unlock" /\ waiters # Null
  /\ head' = [head EXCEPT ![c] = waiters]
  /\ Goto(c, "pop")
  /\ UNCHANGED <<state, waiters, next, old, cur, host, rounds, hist>>

\* Mutant: the word is set to NOT_LOCKED while the waiters are served.
Exchange_free(c) ==
  /\ pc[c] = "exchange"
  /\ cur' = [cur EXCEPT ![c] = state]
  /\ head' = [head EXCEPT ![c] = Null]
  /\ state' = NotLocked
  /\ listed' = stacked
  /\ stacked' = <<>>
  /\ Goto(c, "reverse")
  /\ UNCHANGED <<waiters, next, old, host, rounds>>

Exchange(c) ==
  /\ pc[c] = "exchange"
  /\ cur' = [cur EXCEPT ![c] = state]
  /\ head' = [head EXCEPT ![c] = Null]
  /\ state' = Null
  /\ listed' = stacked
  /\ stacked' = <<>>
  /\ Goto(c, "reverse")
  /\ UNCHANGED <<waiters, next, old, host, rounds>>

\* Mutant: the loop ends one node early.
Reverse_short(c) ==
  /\ pc[c] = "reverse"
  /\ next' = [next EXCEPT ![cur[c]] = head[c]]
  /\ head' = [head EXCEPT ![c] = cur[c]]
  /\ cur' = [cur EXCEPT ![c] = next[cur[c]]]
  /\ Goto(c, IF next[cur[c]] = Null \/ next[next[cur[c]]] = Null
             THEN "pop" ELSE "reverse")
  /\ UNCHANGED <<state, waiters, old, host, rounds, hist>>

\* One iteration of the loop that turns the stack round.
Reverse(c) ==
  /\ pc[c] = "reverse"
  /\ next' = [next EXCEPT ![cur[c]] = head[c]]
  /\ head' = [head EXCEPT ![c] = cur[c]]
  /\ cur' = [cur EXCEPT ![c] = next[cur[c]]]
  /\ Goto(c, IF next[cur[c]] = Null THEN "pop" ELSE "reverse")
  /\ UNCHANGED <<state, waiters, old, host, rounds, hist>>

\* Mutant: waiters_ is not advanced.
Pop_stay(c) ==
  /\ pc[c] = "pop"
  /\ waiters' = head[c]
  /\ pc' = [pc EXCEPT ![c] = "resuming", ![head[c]] = "critical"]
  /\ host' = [host EXCEPT ![head[c]] = c]
  /\ listed' = Tail(listed)
  /\ UNCHANGED <<state, next, locals, rounds, stacked>>

\* Hand the mutex over and call resume().
Pop(c) ==
  /\ pc[c] = "pop"
  /\ waiters' = next[head[c]]
  /\ pc' = [pc EXCEPT ![c] = "resuming", ![head[c]] = "critical"]
  /\ host' = [host EXCEPT ![head[c]] = c]
  /\ listed' = Tail(listed)
  /\ UNCHANGED <<state, next, locals, rounds, stacked>>

\* resume() has returned.
Return(c) ==
  /\ pc[c] = "resuming" /\ \A d \in Coros : host[d] # c
  /\ Continue(c)
  /\ UNCHANGED <<state, waiters, next, locals, rounds, hist>>

unlock(c) ==
  \/ UnlockFree(c) \/ UnlockContended(c) \/ UnlockListed(c)
  \/ Exchange(c) \/ Reverse(c) \/ Pop(c) \/ Return(c)

-----------------------------------------------------------------------------
Progress(c) == lock(c) \/ Finish(c) \/ unlock(c)

Terminating == (\A c \in Coros : pc[c] = "done") /\ UNCHANGED vars

Next == (\E c \in Coros : Progress(c) \/ Migrate(c)) \/ Terminating

\* Every coroutine that a thread runs makes progress, and every critical
\* section ends.  Nothing has to migrate.
Fairness == \A c \in Coros : WF_vars(Progress(c))

Spec     == Init /\ [][Next]_vars
FairSpec == Spec /\ Fairness

-----------------------------------------------------------------------------
(* Properties *)

Labels == {"idle", "cas", "suspended", "critical", "unlock", "exchange",
           "reverse", "pop", "resuming", "done"}

\* Every variable has its type.
TypeOK ==
  /\ state \in Nodes \union {NotLocked}
  /\ waiters \in Nodes
  /\ next \in [Coros -> Nodes]
  /\ pc \in [Coros -> Labels]
  /\ old \in [Coros -> Nodes \union {NotLocked}]
  /\ head \in [Coros -> Nodes]
  /\ cur \in [Coros -> Nodes]
  /\ host \in [Coros -> Coros \union {NoOne}]
  /\ rounds \in [Coros -> Nat]
  /\ listed \in Seq(Coros) /\ stacked \in Seq(Coros)

Holding(c) == pc[c] \in {"critical", "unlock", "exchange", "reverse", "pop"}

\* Two coroutines never own the mutex at once, and none does while it reads
\* NOT_LOCKED.
MutualExclusion ==
  /\ \A c, d \in Coros : Holding(c) /\ Holding(d) => c = d
  /\ state = NotLocked => \A c \in Coros : ~Holding(c)

\* The asserts of unlock(): the mutex is locked, the detached stack is not
\* empty, and the coroutine about to be resumed is suspended in lock().
Asserts ==
  \A c \in Coros :
    /\ pc[c] = "unlock" => state # NotLocked
    /\ pc[c] = "exchange" => state \in Coros
    /\ pc[c] = "reverse" => cur[c] \in Coros
    /\ pc[c] = "pop" => head[c] \in Coros /\ pc[head[c]] = "suspended"

\* The mutex is free and its lists are empty when everybody is done: no
\* waiter is lost on the way from the stack to the list (~AsyncMutex).
NobodyLost ==
  (\A c \in Coros : pc[c] \in {"idle", "suspended", "done"}) =>
    state = NotLocked /\ waiters = Null /\ \A c \in Coros : pc[c] # "suspended"

owner == IF \E c \in Coros : Holding(c) THEN CHOOSE c \in Coros : Holding(c)
         ELSE NoOne
queue == listed \o stacked

Lock == INSTANCE FifoLock WITH owner <- owner, queue <- queue

\* The word, the pointers and the reversal implement a lock with one owner,
\* no barging and first-come first-served hand-over.
ImplementsFifoLock == Lock!Spec

\* Who asks for the mutex gets it.
LockIsGranted ==
  \A c \in Coros : pc[c] \in {"cas", "suspended"} ~> pc[c] = "critical"
=============================================================================
