---------------------------- MODULE MCAsyncMutex ----------------------------
(* The instance of AsyncMutex that TLC checks: three coroutines with two    *)
(* critical sections each.                                                  *)
EXTENDS AsyncMutex
=============================================================================
