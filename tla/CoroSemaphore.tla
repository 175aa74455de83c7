--------------------------- MODULE CoroSemaphore ---------------------------
(***************************************************************************)
(* The counting semaphore with permits of any size                         *)
(* (include/dftracer/utils/core/coro/async_semaphore.h): what acquire()    *)
(* and release() do under its lock.                                        *)
(***************************************************************************)
EXTENDS Integers, Sequences, FiniteSetsExt, Functions

Full(capacity) == [capacity |-> capacity, available |-> capacity, waiters |-> <<>>]

\* A request above the capacity is clamped; what is released is not.
Need(sem, n) == IF n > sem.capacity THEN sem.capacity ELSE n

\* Nobody overtakes those who wait.
Acquire(sem, who, n) ==
  IF sem.waiters = <<>> /\ sem.available >= Need(sem, n)
  THEN [sem EXCEPT !.available = @ - Need(sem, n)]
  ELSE [sem EXCEPT !.waiters = Append(@, [who |-> who, need |-> Need(sem, n)])]

Waits(sem, who) == \E i \in DOMAIN sem.waiters : sem.waiters[i].who = who

NeedOfFirst(sem, k) == SumFunction([i \in 1..k |-> sem.waiters[i].need])

\* Whoever is first in line is woken as long as the permits last.
Release(sem, n) ==
  LET free  == sem.available + n
      woken == Max({k \in 0..Len(sem.waiters) : NeedOfFirst(sem, k) <= free})
  IN [sem EXCEPT !.available = free - NeedOfFirst(sem, woken),
                 !.waiters = SubSeq(@, woken + 1, Len(@))]
=============================================================================
