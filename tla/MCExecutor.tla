---------------------------- MODULE MCExecutor ----------------------------
(* Small pools for TLC. *)
EXTENDS Executor, TLC

CONSTANTS w1, w2, w3, a, b, c, d, e

\* Who waits for whom.
Pair == (a :> <<b>> @@ b :> <<>>)
Nested == (a :> <<c, e>> @@ b :> <<d>> @@ c :> <<>> @@ d :> <<>>
           @@ e :> <<>>)
Chain == (a :> <<b>> @@ b :> <<c>> @@ c :> <<>>)
=============================================================================
