--------------------------- MODULE MCStreamScan ---------------------------
(* A small trace for the scan, and who asks for what. *)
EXTENDS StreamScan, TLC

CONSTANTS c1, f

\* Three units; the second one is larger than the
\* decoding budget, the last one is not kept.
Trace == << <<{1, 2}>>, <<{3}, {4}>>, <<{5}>> >>
Sizes == <<1, 3, 1>>
Left == 1..4
Asked == c1 :> {1, 2, 3, 5} @@ f :> {2, 3, 5}
=============================================================================
