-------------------------------- MODULE Query --------------------------------
(***************************************************************************)
(* The query language (include/dftracer/utils/query/ast.h) and what a      *)
(* predicate means (src/dftracer/utils/query/evaluator.cpp).               *)
(*                                                                         *)
(* A value is its type and its rank: strings are ordered bytewise, and the *)
(* string of rank n is the text of the number n, so that what the index    *)
(* stores as text can be told from what the evaluator compares.  An event  *)
(* maps every field to a value or to Absent.                               *)
(***************************************************************************)
EXTENDS Integers, FiniteSets

CONSTANTS
  Fields,
  Absent,   \* a field the event does not have
  Values,   \* of fields and in predicates
  Events,   \* what a line of a trace may be
  Queries   \* the nodes of every AST: with a node, its operands

Num(n) == [kind |-> "num", v |-> n]
Str(n) == [kind |-> "str", v |-> n]

\* The nodes of the AST.  A pattern is the set of strings it matches.
Compare(f, c, lit) == [op |-> "compare", field |-> f, cmp |-> c, value |-> lit]
In(f, lits)        == [op |-> "in", field |-> f, values |-> lits]
NotIn(f, lits)     == [op |-> "notin", field |-> f, values |-> lits]
Match(f, pat, neg) == [op |-> "match", field |-> f, pattern |-> pat, negated |-> neg]
And(p, q)          == [op |-> "and", left |-> p, right |-> q]
Or(p, q)           == [op |-> "or", left |-> p, right |-> q]
Not(p)             == [op |-> "not", operand |-> p]

Comparisons == {"EQ", "NE", "GT", "GE", "LT", "LE"}

ASSUME ValuesAssumption ==
  /\ Absent \notin Values
  /\ Values \subseteq [kind : {"num", "str"}, v : Int]
  /\ Events \subseteq [Fields -> Values \union {Absent}]

ASSUME QueriesAssumption ==
  Queries \subseteq
         [op : {"compare"}, field : Fields, cmp : Comparisons, value : Values]
  \union [op : {"in", "notin"}, field : Fields, values : SUBSET Values]
  \union [op : {"match"}, field : Fields, pattern : SUBSET Values, negated : BOOLEAN]
  \union [op : {"and", "or"}, left : Queries, right : Queries]
  \union [op : {"not"}, operand : Queries]

\* apply_compare on the order of two ranks.
Holds(a, c, b) ==
  CASE c = "EQ" -> a = b [] c = "NE" -> a # b
    [] c = "GT" -> a > b [] c = "GE" -> a >= b
    [] c = "LT" -> a < b [] OTHER    -> a <= b

\* Values of different types do not compare: neither == nor != holds.
Compares(x, c, lit) == x.kind = lit.kind /\ Holds(x.v, c, lit.v)

\* The events that match.  Every test of an absent field is false, and `not`
\* is plain negation: it holds of an event without the field.
Meaning[q \in Queries] ==
  CASE q.op = "compare" -> {e \in Events : /\ e[q.field] # Absent
                                           /\ Compares(e[q.field], q.cmp, q.value)}
    [] q.op = "in"      -> {e \in Events : e[q.field] \in q.values}
    [] q.op = "notin"   -> {e \in Events : /\ e[q.field] # Absent
                                           /\ e[q.field] \notin q.values}
    [] q.op = "match"   -> {e \in Events : /\ e[q.field] # Absent
                                           /\ e[q.field].kind = "str"
                                           /\ (e[q.field] \in q.pattern) # q.negated}
    [] q.op = "and"     -> Meaning[q.left] \intersect Meaning[q.right]
    [] q.op = "or"      -> Meaning[q.left] \union Meaning[q.right]
    [] OTHER            -> Events \ Meaning[q.operand]

Eval(q, e) == e \in Meaning[q]

\* A predicate is higher than its operands: it is a tree, and a finite one.
IsHeight(h) ==
  /\ h \in [Queries -> Nat]
  /\ \A q \in Queries :
       /\ q.op \in {"and", "or"} => h[q.left] < h[q] /\ h[q.right] < h[q]
       /\ q.op = "not" => h[q.operand] < h[q]
=============================================================================
