---------------------------- MODULE MCScheduler ----------------------------
(***************************************************************************)
(* Task graphs for the scheduler.                                          *)
(***************************************************************************)
EXTENDS Scheduler

CONSTANTS s, a, b, c, d, e, x

Edges(E) == [t \in Tasks |-> {p \in Tasks : <<p, t>> \in E}]
Nothing == [t \in Tasks |-> {}]

\* A task that depends on the source and on another child of it, which
\* submits a dynamic task.
Triangle == Edges({<<s, a>>, <<s, b>>, <<a, b>>})
TriangleGuest == [t \in Tasks |-> IF t = a THEN {x} ELSE {}]

\* Two branches that may both fail, and a task that depends on both; beside
\* them e, the graph of a second call.
Lopsided == Edges({<<s, a>>, <<s, b>>, <<a, c>>, <<b, d>>, <<c, d>>})

\* Two chains for two calls of schedule().
Chains == Edges({<<s, a>>, <<s, b>>, <<c, d>>})

\* The sources of the calls, and the tasks whose results execute() reads.
OneSource == <<s>>
LopsidedSources == <<s, e>>
ChainsSources == <<s, c>>
TriangleOutput == <<{b}>>
ChainsOutputs == <<{a, b}, {d}>>
LopsidedOutputs == <<{}, {}>>
=============================================================================
