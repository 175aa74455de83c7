\* Two producers that register one by one, one of which uses try_send, send
\* two items each through a one-slot channel to two coroutines, and a lock-
\* free dequeue may fail beside a queued item: nothing is lost or duplicated,
\* and nobody is parked beside an item without a wake-up, although the stream
\* may end early.
SPECIFICATION Spec
CONSTANTS
  Senders = {s1, s2}
  Registered = {s1, s2}
  Trying = {s2}
  Receivers = {r1, r2}
  Blockers = {}
  Closers = {}
  Capacity = 1
  NumItems = 2
  Upfront = FALSE
  Exact = FALSE
  NoItem = NoItem
INVARIANTS ExactlyOnce ParkedIsListed NobodyForgotten
\* The system may stop.
CHECK_DEADLOCK FALSE
