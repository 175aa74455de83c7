---- MODULE MCIndexStore ----
(* An instance of IndexStore for TLC: the files are alike. *)
EXTENDS IndexStore, TLC

Alike == Permutations(Files)
====
