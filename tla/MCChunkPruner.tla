--------------------------- MODULE MCChunkPruner ---------------------------
(* Small traces and many queries for the pruner, and for query_subsumes(). *)
EXTENDS TraceQuery

Event(n, p, d, a, t) == [name |-> n, pid |-> p, dur |-> d, arg |-> a, tag |-> t]

Lines == { Event(Str(1), Num(1), Num(1), Num(1), Str(1)),
           Event(Str(1), Num(2), Num(3), Str(2), Str(3)),
           Event(Str(2), Num(1), Absent, Num(2), Absent),
           Event(Str(2), Num(3), Num(2), Absent, Num(2)),
           Event(Str(3), Num(2), Num(2), Str(1), Str(2)) }

Literal(f) == CASE f = "name" -> {Str(n) : n \in 1..4}
                [] f = "pid"  -> {Num(n) : n \in 1..3}
                [] f = "dur"  -> {Num(n) : n \in 0..3}
                [] OTHER      -> {Num(1), Num(2), Str(1), Str(2)}

Leaves ==
  UNION {{Compare(f, c, x) : c \in {"EQ", "NE", "GT", "GE", "LT", "LE"}, x \in Literal(f)}
           : f \in Fields}
  \union UNION {{In(f, {x, y}) : x, y \in Literal(f)} : f \in Fields}

\* A negation is about fields that every event has, and values of their type.
Negatable == {q \in Leaves : q.field \in {"name", "pid"}}
Negations ==
  {Not(q) : q \in Negatable}
  \union {NotIn(f, {x, y}) : f \in {"name"}, x, y \in Literal("name")}
  \union {Not(NotIn("pid", {x})) : x \in Literal("pid")}

\* A few leaves of every kind to connect.
Some == { Compare("name", "EQ", Str(1)), Compare("pid", "NE", Num(1)),
          Compare("pid", "GE", Num(2)), In("name", {Str(2), Str(4)}),
          Match("name", {Str(1), Str(3)}, TRUE) }
Ranges == { Compare("dur", "LT", Num(2)), Compare("arg", "EQ", Num(2)) }

Connected ==
  UNION {{And(p, q), Or(p, q), Not(And(p, q)), Not(Or(p, q)), Not(And(p, Not(q)))}
           : p, q \in Some}
  \union UNION {{And(p, q), Or(p, q), And(Not(p), q)} : p \in Some, q \in Ranges}

SafeQueries == Leaves \union Negations \union Connected

-----------------------------------------------------------------------------
(* Views of these traces *)

Alternative == Or(Compare("tag", "EQ", Str(1)), Compare("tag", "EQ", Num(2)))
Lower == {Compare("dur", "GT", Num(2)), Compare("dur", "GE", Num(2)), Compare("dur", "GE", Num(1))}
Upper == {Compare("dur", "LT", Num(2)), Compare("dur", "LE", Num(3))}
Point == {Compare("dur", "EQ", Num(2)), Compare("dur", "NE", Num(2))}
Tests == Lower \union Upper \union Point \union Some
           \union { In("dur", {Num(2), Num(3)}), In("dur", {Num(2), Str(2)}),
                    In("tag", {Str(1), Num(2), Str(3)}), Alternative }
Predicates == Tests \union {And(p, q) : p \in Lower, q \in Lower \union Upper}
                    \union {Or(p, q) : p \in Point, q \in Some}

\* With a predicate, its operands.
Operands(q) ==
  CASE q.op \in {"and", "or"} -> {q.left, q.right}
    [] q.op = "not"           -> {q.operand}
    [] OTHER                  -> {}
WithOperands(Q) == Q \union UNION {Operands(q) : q \in Q}

Bottom == -100
MCValues == UNION {Literal(f) : f \in Fields} \union {Str(n) : n \in 1..4}

\* TLC evaluates a definition once, but what a cfg puts for a constant again
\* and again: hence the two names.
Nodes == WithOperands(WithOperands(WithOperands(SafeQueries \union Predicates)))
MCQueries == Nodes

-----------------------------------------------------------------------------
(* These queries are trees such as the pruner may be asked *)

Higher(m, n) == IF m > n THEN m ELSE n
Height[q \in Nodes] ==
  CASE q.op \in {"and", "or"} -> 1 + Higher(Height[q.left], Height[q.right])
    [] q.op = "not"           -> 1 + Height[q.operand]
    [] OTHER                  -> 0

Negated == {q.operand : q \in {p \in Nodes : p.op = "not"}}
Junctions(N) == {q \in N : q.op \in {"and", "or"}}
Joined(N) == N \union UNION {{q.left, q.right} : q \in Junctions(N)}

ASSUME QueriesAreFit ==
  IsHeight(Height) /\ LiteralsFit /\ ListsFit /\ AreFirm(Joined(Joined(Negated)))
=============================================================================
