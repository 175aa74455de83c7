---------------------------- MODULE MCViewStore ----------------------------
(***************************************************************************)
(* A view store over the query language: the predicates, the rows and what *)
(* query_subsumes makes of them are those of Query and Subsumption.        *)
(***************************************************************************)
EXTENDS ViewStore, Subsumption, TLC

CONSTANTS b1, b2, r1, r2

Row(n, d) == [name |-> n, dur |-> d]

\* Events with a name and, most of them, a duration.
Trace == << {Row(Str(1), Num(3)), Row(Str(1), Num(1)), Row(Str(2), Num(5)), Row(Str(1), Absent)},
            {Row(Str(1), Num(5)), Row(Str(2), Num(3))} >>

Long  == Compare("dur", "GE", Num(3))
Other == Not(Compare("name", "EQ", Str(2)))

\* A plan, a question it answers, and one that it does not.
Predicate ==
  [kept   |-> And(Long, Other),
   point  |-> And(Compare("dur", "EQ", Num(3)), Other),
   listed |-> In("dur", {Num(3), Num(5)})]

Names == DOMAIN Predicate

Kept == [b \in {b1, b2} |-> "kept"]
Asked == [r \in {r1, r2} |-> IF r = r1 THEN {"listed"} ELSE {"point"}]

Bottom == -100
AllEvents == UNION {Trace[i] : i \in 1..Len(Trace)}
MCValues  == {Str(1), Str(2), Num(1), Num(3), Num(5)}
MCQueries == {Predicate[q] : q \in Names}
               \union {Long, Other, Other.operand, Predicate["point"].left}

MCMatching == [q \in Names |-> Meaning[Predicate[q]]]
MCSubsumed == [p \in Names |-> {q \in Names : Subsumes(Predicate[p], Predicate[q])}]
=============================================================================
