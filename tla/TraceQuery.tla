----------------------------- MODULE TraceQuery -----------------------------
(***************************************************************************)
(* A query over a trace is answered from the chunks that the pruner leaves *)
(* or, instead, from a view of the trace whose predicate subsumes it.      *)
(***************************************************************************)
EXTENDS ChunkPruner, Subsumption

\* A view that is said to answer a query has every event of the query that is
\* in the trace, also events that lack fields or have them with another type.
SubsumptionIsSound == rows \intersect Lost = {}
=============================================================================
