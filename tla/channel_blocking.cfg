\* Two registered producers, one of which uses try_send, a coroutine and a
\* thread that waits on the condition variable, and close() at any moment: the
\* end is told at the end only, nothing is accepted after close(), no wake-up
\* is lost, and everybody returns.
SPECIFICATION FairSpec
CONSTANTS
  Senders = {s1, s2}
  Registered = {s1, s2}
  Trying = {s2}
  Receivers = {r1}
  Blockers = {b1}
  Closers = {x1}
  Capacity = 1
  NumItems = 1
  Upfront = TRUE
  Exact = TRUE
  NoItem = NoItem
INVARIANTS EndIsFinal
PROPERTIES NoSendAfterClose EverybodyReturns
