----------------------------- MODULE Subsumption -----------------------------
(***************************************************************************)
(* query_subsumes (src/dftracer/utils/query/subsumption.cpp): the proof    *)
(* that every event of `query` is an event of `mv`, which lets a           *)
(* materialized view answer a query.  Both predicates are flattened to     *)
(* numeric intervals, value sets and opaque residuals per field.           *)
(***************************************************************************)
EXTENDS Query

CONSTANTS
  NoLo,  \* below and
  NoHi   \*   above every bound

ASSUME BoundsAssumption ==
  /\ NoLo \in Int /\ NoHi \in Int
  /\ \A x \in Values : NoLo < 2 * x.v - 1 /\ 2 * x.v + 1 < NoHi

\* A bound is twice its value, and one further inside if it is strict: the
\* tighter lower bound is the greater one.
Line == [lo |-> NoLo, hi |-> NoHi]

LoWithin(q, mv) == q.lo >= mv.lo
HiWithin(q, mv) == q.hi <= mv.hi
PointIn(n, iv)  == iv.lo <= 2 * n /\ 2 * n <= iv.hi
IsPoint(iv)     == iv.lo = iv.hi /\ iv.lo % 2 = 0

\* A conjunction: no entry for a field is Line, or the empty set of values.
Nothing == [intervals |-> [f \in Fields |-> Line],
            sets      |-> [f \in Fields |-> {}],
            residual  |-> {}]

\* flatten() of both sides of an `and` into the same buckets.
Larger(m, n)  == IF m > n THEN m ELSE n
Smaller(m, n) == IF m < n THEN m ELSE n

\* Mutant: of two bounds the looser one is kept.
Both_loose(b, c) ==
  [intervals |-> [f \in Fields |->
     [lo |-> Smaller(b.intervals[f].lo, c.intervals[f].lo),
      hi |-> Larger(b.intervals[f].hi, c.intervals[f].hi)]],
   sets      |-> [f \in Fields |-> b.sets[f] \union c.sets[f]],
   residual  |-> b.residual \union c.residual]

Both(b, c) ==
  [intervals |-> [f \in Fields |->
     [lo |-> Larger(b.intervals[f].lo, c.intervals[f].lo),
      hi |-> Smaller(b.intervals[f].hi, c.intervals[f].hi)]],
   sets      |-> [f \in Fields |-> b.sets[f] \union c.sets[f]],
   residual  |-> b.residual \union c.residual]

WithInterval(f, lo, hi) == [Nothing EXCEPT !.intervals[f] = [lo |-> lo, hi |-> hi]]
WithSet(f, lits)        == [Nothing EXCEPT !.sets[f] = lits]
Opaque(q)               == [Nothing EXCEPT !.residual = {q}]

FlattenCompare(q) ==
  LET n == 2 * q.value.v IN
  CASE q.cmp = "EQ" /\ q.value.kind = "num" -> WithInterval(q.field, n, n)
    [] q.cmp = "EQ" /\ q.value.kind = "str" -> WithSet(q.field, {q.value})
    [] q.cmp = "GT" /\ q.value.kind = "num" -> WithInterval(q.field, n + 1, NoHi)
    [] q.cmp = "GE" /\ q.value.kind = "num" -> WithInterval(q.field, n, NoHi)
    [] q.cmp = "LT" /\ q.value.kind = "num" -> WithInterval(q.field, NoLo, n - 1)
    [] q.cmp = "LE" /\ q.value.kind = "num" -> WithInterval(q.field, NoLo, n)
    [] OTHER -> Opaque(q)

\* A predicate, and what the `or`s at its top connect.
OrParts[q \in Queries] ==
  {q} \union IF q.op = "or" THEN OrParts[q.left] \union OrParts[q.right] ELSE {}
Disjuncts(q) == {p \in OrParts[q] : p.op # "or"}

\* An `or` that has nothing but equality tests, and of one field.
OnlyEqualities(q) ==
  \A p \in Disjuncts(q) : p.op = "in" \/ (p.op = "compare" /\ p.cmp = "EQ")
Alternatives(q) ==
  UNION {IF p.op = "compare" THEN {p.value} ELSE p.values : p \in Disjuncts(q)}
TestsOnly(q, f) ==
  OnlyEqualities(q) /\ \A p \in Disjuncts(q) : p.field = f

FlattenOr(q) ==
  IF \E f \in Fields : TestsOnly(q, f)
  THEN WithSet(CHOOSE f \in Fields : TestsOnly(q, f), Alternatives(q))
  ELSE Opaque(q)

Flatten[q \in Queries] ==
  CASE q.op = "and"     -> Both(Flatten[q.left], Flatten[q.right])
    [] q.op = "compare" -> FlattenCompare(q)
    [] q.op = "in"      -> WithSet(q.field, q.values)
    [] q.op = "or"      -> FlattenOr(q)
    [] OTHER            -> Opaque(q)

\* The query is as tight as the view's interval on this field ...
KeepsInterval(m, q, f) ==
  \/ m.intervals[f] = Line
  \/ LoWithin(q.intervals[f], m.intervals[f]) /\ HiWithin(q.intervals[f], m.intervals[f])
  \/ /\ q.sets[f] # {}
     /\ \A lit \in q.sets[f] : lit.kind = "num" /\ PointIn(lit.v, m.intervals[f])

\* ... and stays within its value set.
KeepsSet(m, q, f) ==
  \/ m.sets[f] = {}
  \/ q.sets[f] # {} /\ q.sets[f] \subseteq m.sets[f]
  \/ /\ IsPoint(q.intervals[f])
     /\ Num(q.intervals[f].lo \div 2) \in m.sets[f]

\* Mutant: the residuals of the view are taken for granted.
ConjSubsumes_lax(mv, query) ==
  LET m == Flatten[mv]  q == Flatten[query] IN
  \A f \in Fields : KeepsInterval(m, q, f) /\ KeepsSet(m, q, f)

ConjSubsumes(mv, query) ==
  LET m == Flatten[mv]  q == Flatten[query] IN
  /\ \A f \in Fields : KeepsInterval(m, q, f) /\ KeepsSet(m, q, f)
  /\ m.residual \subseteq q.residual

\* Every branch of the query is proved of some part of the view's predicate.
Subsumes(mv, query) ==
  \A q \in Disjuncts(query) : \E m \in OrParts[mv] : ConjSubsumes(m, q)

-----------------------------------------------------------------------------
(* What it claims *)

\* One value set per field, and none of them empty: conj_subsumes reads the
\* value sets of a field as one set.
Conjuncts[q \in Queries] ==
  IF q.op = "and" THEN Conjuncts[q.left] \union Conjuncts[q.right] ELSE {q}

Lists(q, f) ==
  \/ q.op = "in" /\ q.field = f
  \/ q.op = "or" /\ TestsOnly(q, f)
  \/ q.op = "compare" /\ q.field = f /\ q.cmp = "EQ" /\ q.value.kind = "str"

OneSetPerField(q) ==
  \A p \in OrParts[q] : \A c, d \in Conjuncts[p] : \A f \in Fields :
    Lists(c, f) /\ Lists(d, f) =>
      Flatten[c].sets[f] # {} /\ Flatten[c].sets[f] = Flatten[d].sets[f]

\* What is claimed: that a view with the first predicate answers the second.
Claims ==
  {c \in {q \in Queries : OneSetPerField(q)} \X {q \in Queries : OneSetPerField(q)} :
     Subsumes(c[1], c[2])}

\* The events of a query that a view lacks although it is to answer it.
Lost == {e \in Events : \E c \in Claims : Eval(c[2], e) /\ ~Eval(c[1], e)}
=============================================================================
