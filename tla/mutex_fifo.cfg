\* Three coroutines with two critical sections each pile up on the mutex in
\* every order, nodes are reused and CAS loops retry: the pointer algorithm
\* implements a first-come first-served lock, and every request is granted.
SPECIFICATION FairSpec
CONSTANTS
  Coros = {c1, c2, c3}
  NumLocks = 2
  Null = Null
  NotLocked = NotLocked
  NoOne = NoOne
INVARIANTS MutualExclusion Asserts NobodyLost
PROPERTIES ImplementsFifoLock LockIsGranted
