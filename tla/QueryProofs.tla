----------------------------- MODULE QueryProofs -----------------------------
(***************************************************************************)
(* For every set of predicates that are finite trees, every trace and      *)
(* every way to cut its chunks into slices: the statistics of a chunk are  *)
(* those of the set of its events, no chunk that is ruled out has an event *)
(* of the query, and a view that is said to answer a query has its events. *)
(***************************************************************************)
EXTENDS TraceQuery, SequenceTheorems, FiniteSetTheorems, WellFoundedInduction, TLAPS

FiniteTrees == \E h : IsHeight(h)
NegationsAreFirm == \E N \in SUBSET Queries : AreFirm(N)

-----------------------------------------------------------------------------
(* Induction and recursion.  An induction is stated of a set: one without  *)
(* a least element, by some measure, is empty.                             *)

LEMMA Least ==
  ASSUME NEW T \in SUBSET Nat, T # {}
  PROVE  \E n \in T : \A m \in T : n <= m
<1>1. IsWellFoundedOn(OpToRel(<,Nat), Nat)
  BY NatLessThanWellFounded
<1>2. \E n \in T : \A m \in T : ~(<<m, n>> \in OpToRel(<,Nat))
  BY <1>1, WFMin
<1>3. \A m, n \in Nat : <<m, n>> \in OpToRel(<,Nat) <=> m < n
  BY DEF OpToRel
<1>4. PICK n \in T : \A m \in T : ~(<<m, n>> \in OpToRel(<,Nat))
  BY <1>2
<1>5. ASSUME NEW m \in T PROVE n <= m
  <2>1. m \in Nat /\ n \in Nat
    OBVIOUS
  <2>2. ~(m < n)
    BY <1>3, <1>4, <2>1
  <2> QED BY <2>1, <2>2
<1> QED BY <1>5

LEMMA NoneBad ==
  ASSUME NEW S, NEW depth \in [S -> Nat], NEW B \in SUBSET S,
         \A q \in B : \E p \in B : depth[p] < depth[q]
  PROVE  B = {}
<1> SUFFICES ASSUME B # {} PROVE FALSE
  OBVIOUS
<1> DEFINE D == {depth[q] : q \in B}
<1>1. D \in SUBSET Nat /\ D # {}
  OBVIOUS
<1> HIDE DEF D
<1>2. PICK k \in D : \A j \in D : k <= j
  BY <1>1, Least
<1>3. PICK q \in B : depth[q] = k
  BY <1>2 DEF D
<1>4. PICK p \in B : depth[p] < depth[q]
  BY <1>3
<1>5. depth[p] \in D /\ depth[p] \in Nat /\ depth[q] \in Nat
  BY DEF D
<1> QED BY <1>2, <1>3, <1>4, <1>5

Recurs(F, S, V, depth) ==
  /\ depth \in [S -> Nat] /\ F \in [S \X [S -> V] -> V] /\ [S -> V] # {}
  /\ \A q \in S : \A g, h \in [S -> V] :
       (\A p \in S : depth[p] < depth[q] => g[p] = h[p]) => F[<<q, g>>] = F[<<q, h>>]
Solves(g, F, S, V) == g \in [S -> V] /\ \A q \in S : g[q] = F[<<q, g>>]
LEMMA Recursion ==
  ASSUME NEW S, NEW V, NEW depth, NEW F, Recurs(F, S, V, depth)
  PROVE  \E g : Solves(g, F, S, V)
<1> USE DEF Recurs, Solves
<1> DEFINE A(g, n) == g \in [S -> V] /\ \A q \in S : depth[q] < n => g[q] = F[<<q, g>>]
<1>1. ASSUME NEW n \in Nat, NEW g, A(g, n)
      PROVE  A([q \in S |-> F[<<q, g>>]], n + 1)
  <2> DEFINE h == [q \in S |-> F[<<q, g>>]]
  <2>1. h \in [S -> V]
    BY <1>1
  <2>2. \A q \in S : depth[q] < n => h[q] = g[q]
    BY <1>1
  <2>3. ASSUME NEW q \in S, depth[q] < n + 1 PROVE h[q] = F[<<q, h>>]
    <3>1. ASSUME NEW p \in S, depth[p] < depth[q] PROVE h[p] = g[p]
      <4>1. depth[p] \in Nat /\ depth[q] \in Nat
        OBVIOUS
      <4>2. depth[p] < n
        BY <4>1, <3>1, <2>3
      <4> HIDE DEF h
      <4> QED BY <4>2, <2>2
    <3>2. F[<<q, h>>] = F[<<q, g>>]
      BY <2>1, <3>1, <1>1
    <3> QED BY <3>2
  <2> QED BY <2>1, <2>3
<1>2. \A n \in Nat : \E g : A(g, n)
  <2> DEFINE Bad == {n \in Nat : ~\E g : A(g, n)}
  <2> SUFFICES ASSUME Bad # {} PROVE FALSE
    OBVIOUS
  <2> HIDE DEF A
  <2>1. PICK n \in Bad : \A m \in Bad : n <= m
    BY Least
  <2>2. n # 0
    BY <2>1 DEF A
  <2>3. n - 1 \in Nat /\ n - 1 \notin Bad
    BY <2>1, <2>2
  <2>4. PICK g : A(g, n - 1)
    BY <2>3
  <2>5. A([q \in S |-> F[<<q, g>>]], n - 1 + 1)
    BY <2>3, <2>4, <1>1
  <2> QED BY <2>1, <2>5
<1>3. ASSUME NEW m \in Nat, NEW g, A(g, m), NEW n \in Nat, NEW h, A(h, n), m <= n
      PROVE  \A q \in S : depth[q] < m => g[q] = h[q]
  <2> DEFINE Bad == {q \in S : depth[q] < m /\ g[q] # h[q]}
  <2>1. ASSUME NEW q \in Bad PROVE \E p \in Bad : depth[p] < depth[q]
    <3>1. SUFFICES ASSUME \A p \in S : depth[p] < depth[q] => g[p] = h[p]
                   PROVE  FALSE
      <4>1. ASSUME NEW p \in S, depth[p] < depth[q] PROVE depth[p] < m
        <5>1. depth[p] \in Nat /\ depth[q] \in Nat
          OBVIOUS
        <5> QED BY <5>1, <4>1
      <4> QED BY <4>1
    <3>2. F[<<q, g>>] = F[<<q, h>>]
      BY <3>1, <1>3
    <3>3. depth[q] < m /\ depth[q] < n
      <4>1. depth[q] \in Nat
        OBVIOUS
      <4> QED BY <4>1, <1>3
    <3>4. g[q] = F[<<q, g>>] /\ h[q] = F[<<q, h>>]
      BY <3>3, <1>3
    <3> QED BY <3>2, <3>4
  <2>2. Bad = {}
    <3> HIDE DEF Bad
    <3>1. Bad \in SUBSET S
      BY DEF Bad
    <3> QED BY <3>1, <2>1, NoneBad
  <2> QED BY <2>2
<1> DEFINE Upto(n) == CHOOSE g : A(g, n)
           f == [q \in S |-> Upto(depth[q] + 1)[q]]
<1>4. \A n \in Nat : A(Upto(n), n)
  <2> HIDE DEF A
  <2> QED BY <1>2
<1> HIDE DEF A, Upto
<1>5. \A q \in S : A(Upto(depth[q] + 1), depth[q] + 1)
  <2> SUFFICES ASSUME NEW q \in S PROVE A(Upto(depth[q] + 1), depth[q] + 1)
    OBVIOUS
  <2>1. depth[q] + 1 \in Nat
    OBVIOUS
  <2> QED BY <1>4, <2>1
<1>6. f \in [S -> V]
  <2> SUFFICES ASSUME NEW q \in S PROVE Upto(depth[q] + 1)[q] \in V
    OBVIOUS
  <2> QED BY <1>5 DEF A
<1>7. ASSUME NEW q \in S PROVE f[q] = F[<<q, f>>]
  <2> DEFINE g == Upto(depth[q] + 1)
  <2>1. A(g, depth[q] + 1)
    BY <1>5
  <2>2. ASSUME NEW p \in S, depth[p] < depth[q] PROVE f[p] = g[p]
    <3>1. A(Upto(depth[p] + 1), depth[p] + 1)
      BY <1>5
    <3>2. depth[p] + 1 \in Nat /\ depth[q] + 1 \in Nat /\ depth[p] + 1 <= depth[q] + 1
          /\ depth[p] < depth[p] + 1
      BY <2>2
    <3>3. Upto(depth[p] + 1)[p] = Upto(depth[q] + 1)[p]
      BY <1>3, <1>5, <3>2
    <3> QED BY <3>3
  <2>3. g \in [S -> V] /\ g[q] = F[<<q, g>>]
    <3>1. depth[q] < depth[q] + 1
      OBVIOUS
    <3> HIDE DEF g
    <3> QED BY <2>1, <3>1 DEF A
  <2>4. f[q] = g[q]
    OBVIOUS
  <2>5. F[<<q, f>>] = F[<<q, g>>]
    <3> HIDE DEF f, g
    <3> QED BY <2>2, <2>3, <1>6
  <2> HIDE DEF f, g
  <2> QED BY <2>3, <2>4, <2>5
<1> HIDE DEF f
<1> QED BY <1>6, <1>7

-----------------------------------------------------------------------------
(* Predicates *)

LEMMA NodeTypes ==
  ASSUME NEW q \in Queries
  PROVE  /\ q.op \in {"compare", "in", "notin", "match", "and", "or", "not"}
         /\ q.op \in {"and", "or"} => q.left \in Queries /\ q.right \in Queries
         /\ q.op = "not" => q.operand \in Queries
         /\ q.op \notin {"and", "or", "not"} => q.field \in Fields
         /\ q.op = "compare" => q.cmp \in Comparisons /\ q.value \in Values
         /\ q.op \in {"in", "notin"} => q.values \subseteq Values
         /\ q.op = "match" => q.pattern \subseteq Values /\ q.negated \in BOOLEAN
  BY QueriesAssumption

\* What holds of a predicate if it holds of its operands holds of all.
LEMMA NoBadQuery ==
  ASSUME FiniteTrees, NEW B \in SUBSET Queries,
         \A q \in B : \/ q.op \in {"and", "or"} /\ (q.left \in B \/ q.right \in B)
                      \/ q.op = "not" /\ q.operand \in B
  PROVE  B = {}
<1>1. PICK h : IsHeight(h)
  BY DEF FiniteTrees
<1>2. \A q \in B : \E p \in B : h[p] < h[q]
  BY <1>1 DEF IsHeight
<1>3. h \in [Queries -> Nat]
  BY <1>1 DEF IsHeight
<1> QED BY <1>2, <1>3, NoneBad

\* A value of a predicate is computed from those of its operands.
ByOperands(F, V) ==
  /\ V # {} /\ F \in [Queries \X [Queries -> V] -> V]
  /\ \A q \in Queries : \A g, h \in [Queries -> V] :
       /\ q.op \in {"and", "or"} => g[q.left] = h[q.left] /\ g[q.right] = h[q.right]
       /\ q.op = "not" => g[q.operand] = h[q.operand]
       => F[<<q, g>>] = F[<<q, h>>]

LEMMA TreeRecursion ==
  ASSUME FiniteTrees, NEW V, NEW F, ByOperands(F, V)
  PROVE  \E g : Solves(g, F, Queries, V)
<1>1. PICK h : IsHeight(h)
  BY DEF FiniteTrees
<1>2. [Queries -> V] # {}
  <2>1. PICK v \in V : TRUE
    BY DEF ByOperands
  <2>2. [q \in Queries |-> v] \in [Queries -> V]
    OBVIOUS
  <2> QED BY <2>2
<1>3. ASSUME NEW q \in Queries, NEW f \in [Queries -> V], NEW g \in [Queries -> V],
             \A p \in Queries : h[p] < h[q] => f[p] = g[p]
      PROVE  F[<<q, f>>] = F[<<q, g>>]
  <2>1. q.op \in {"and", "or"} => f[q.left] = g[q.left] /\ f[q.right] = g[q.right]
    BY <1>1, <1>3, NodeTypes DEF IsHeight
  <2>2. q.op = "not" => f[q.operand] = g[q.operand]
    BY <1>1, <1>3, NodeTypes DEF IsHeight
  <2> QED BY <2>1, <2>2 DEF ByOperands
<1>4. Recurs(F, Queries, V, h)
  BY <1>1, <1>2, <1>3 DEF Recurs, IsHeight, ByOperands
<1> QED BY <1>4, Recursion

MeaningOf(q, g) ==
  CASE q.op = "compare" -> {e \in Events : /\ e[q.field] # Absent
                                           /\ Compares(e[q.field], q.cmp, q.value)}
    [] q.op = "in"      -> {e \in Events : e[q.field] \in q.values}
    [] q.op = "notin"   -> {e \in Events : /\ e[q.field] # Absent
                                           /\ e[q.field] \notin q.values}
    [] q.op = "match"   -> {e \in Events : /\ e[q.field] # Absent
                                           /\ e[q.field].kind = "str"
                                           /\ (e[q.field] \in q.pattern) # q.negated}
    [] q.op = "and"     -> g[q.left] \intersect g[q.right]
    [] q.op = "or"      -> g[q.left] \union g[q.right]
    [] OTHER            -> Events \ g[q.operand]

LEMMA MeaningExists ==
  ASSUME FiniteTrees
  PROVE  \A q \in Queries : Meaning[q] = MeaningOf(q, Meaning)
<1> DEFINE V == SUBSET Events
           F == [p \in Queries \X [Queries -> V] |-> MeaningOf(p[1], p[2])]
<1>1. ASSUME NEW q \in Queries, NEW g \in [Queries -> V]
      PROVE  F[<<q, g>>] = MeaningOf(q, g) /\ MeaningOf(q, g) \in V
  <2>1. <<q, g>> \in Queries \X [Queries -> V]
    OBVIOUS
  <2>2. MeaningOf(q, g) \in SUBSET Events
    BY NodeTypes DEF MeaningOf
  <2> QED BY <2>1, <2>2
<1>2. ByOperands(F, V)
  <2>1. F \in [Queries \X [Queries -> V] -> V]
    BY <1>1
  <2>2. ASSUME NEW q \in Queries, NEW g \in [Queries -> V], NEW h \in [Queries -> V],
               q.op \in {"and", "or"} => g[q.left] = h[q.left] /\ g[q.right] = h[q.right],
               q.op = "not" => g[q.operand] = h[q.operand]
        PROVE  F[<<q, g>>] = F[<<q, h>>]
    <3>1. MeaningOf(q, g) = MeaningOf(q, h)
      BY <2>2, NodeTypes DEF MeaningOf
    <3> HIDE DEF F
    <3> QED BY <3>1, <1>1
  <2> HIDE DEF F
  <2> QED BY <2>1, <2>2 DEF ByOperands
<1>3. PICK g : Solves(g, F, Queries, V)
  <2> HIDE DEF F, V
  <2> QED BY <1>2, TreeRecursion
<1> DEFINE Eqn(f) == f = [q \in Queries |-> MeaningOf(q, f)]
<1>4. Eqn(g)
  <2>1. g \in [Queries -> V] /\ \A q \in Queries : g[q] = F[<<q, g>>]
    BY <1>3 DEF Solves
  <2> HIDE DEF F, V
  <2>2. \A q \in Queries : g[q] = MeaningOf(q, g)
    BY <1>1, <2>1
  <2> QED BY <2>1, <2>2
<1>5. Meaning = CHOOSE f : Eqn(f)
  BY DEF Meaning, MeaningOf
<1>6. Eqn(Meaning)
  <2> HIDE DEF Eqn
  <2> QED BY <1>4, <1>5
<1> QED BY <1>6

LEMMA MeaningInEvents ==
  ASSUME FiniteTrees
  PROVE  \A q \in Queries : Meaning[q] \subseteq Events
<1> DEFINE B == {q \in Queries : ~(Meaning[q] \subseteq Events)}
<1>1. ASSUME NEW q \in B PROVE q.op \in {"and", "or"} /\ (q.left \in B \/ q.right \in B)
  <2>1. Meaning[q] = MeaningOf(q, Meaning)
    BY MeaningExists
  <2>2. CASE q.op \in {"and", "or"}
    BY <2>1, <2>2, NodeTypes DEF MeaningOf
  <2>3. CASE q.op \notin {"and", "or"}
    BY <2>1, <2>3, NodeTypes DEF MeaningOf
  <2> QED BY <2>2, <2>3
<1>2. B = {}
  <2> HIDE DEF B
  <2>1. B \in SUBSET Queries
    BY DEF B
  <2> QED BY <1>1, <2>1, NoBadQuery
<1> QED BY <1>2

-----------------------------------------------------------------------------
(* The parts of a predicate *)

OrPartsOf(q, g) ==
  {q} \union IF q.op = "or" THEN g[q.left] \union g[q.right] ELSE {}

LEMMA OrPartsExist ==
  ASSUME FiniteTrees
  PROVE  \A q \in Queries : OrParts[q] = OrPartsOf(q, OrParts)
<1> DEFINE V == SUBSET Queries
           F == [p \in Queries \X [Queries -> V] |-> OrPartsOf(p[1], p[2])]
<1>1. ASSUME NEW q \in Queries, NEW g \in [Queries -> V]
      PROVE  F[<<q, g>>] = OrPartsOf(q, g) /\ OrPartsOf(q, g) \in V
  <2>1. <<q, g>> \in Queries \X [Queries -> V]
    OBVIOUS
  <2>2. OrPartsOf(q, g) \in SUBSET Queries
    BY NodeTypes DEF OrPartsOf
  <2> QED BY <2>1, <2>2
<1>2. ByOperands(F, V)
  <2>1. F \in [Queries \X [Queries -> V] -> V]
    BY <1>1
  <2>2. ASSUME NEW q \in Queries, NEW g \in [Queries -> V], NEW h \in [Queries -> V],
               q.op \in {"and", "or"} => g[q.left] = h[q.left] /\ g[q.right] = h[q.right],
               q.op = "not" => g[q.operand] = h[q.operand]
        PROVE  F[<<q, g>>] = F[<<q, h>>]
    <3>1. OrPartsOf(q, g) = OrPartsOf(q, h)
      BY <2>2, NodeTypes DEF OrPartsOf
    <3> HIDE DEF F
    <3> QED BY <3>1, <1>1
  <2> HIDE DEF F
  <2> QED BY <2>1, <2>2 DEF ByOperands
<1>3. PICK g : Solves(g, F, Queries, V)
  <2> HIDE DEF F, V
  <2> QED BY <1>2, TreeRecursion
<1> DEFINE Eqn(f) == f = [q \in Queries |-> OrPartsOf(q, f)]
<1>4. Eqn(g)
  <2>1. g \in [Queries -> V] /\ \A q \in Queries : g[q] = F[<<q, g>>]
    BY <1>3 DEF Solves
  <2> HIDE DEF F, V
  <2>2. \A q \in Queries : g[q] = OrPartsOf(q, g)
    BY <1>1, <2>1
  <2> QED BY <2>1, <2>2
<1>5. OrParts = CHOOSE f : Eqn(f)
  BY DEF OrParts, OrPartsOf
<1>6. Eqn(OrParts)
  <2> HIDE DEF Eqn
  <2> QED BY <1>4, <1>5
<1> QED BY <1>6

ConjunctsOf(q, g) ==
  IF q.op = "and" THEN g[q.left] \union g[q.right] ELSE {q}

LEMMA ConjunctsExist ==
  ASSUME FiniteTrees
  PROVE  \A q \in Queries : Conjuncts[q] = ConjunctsOf(q, Conjuncts)
<1> DEFINE V == SUBSET Queries
           F == [p \in Queries \X [Queries -> V] |-> ConjunctsOf(p[1], p[2])]
<1>1. ASSUME NEW q \in Queries, NEW g \in [Queries -> V]
      PROVE  F[<<q, g>>] = ConjunctsOf(q, g) /\ ConjunctsOf(q, g) \in V
  <2>1. <<q, g>> \in Queries \X [Queries -> V]
    OBVIOUS
  <2>2. ConjunctsOf(q, g) \in SUBSET Queries
    BY NodeTypes DEF ConjunctsOf
  <2> QED BY <2>1, <2>2
<1>2. ByOperands(F, V)
  <2>1. F \in [Queries \X [Queries -> V] -> V]
    BY <1>1
  <2>2. ASSUME NEW q \in Queries, NEW g \in [Queries -> V], NEW h \in [Queries -> V],
               q.op \in {"and", "or"} => g[q.left] = h[q.left] /\ g[q.right] = h[q.right],
               q.op = "not" => g[q.operand] = h[q.operand]
        PROVE  F[<<q, g>>] = F[<<q, h>>]
    <3>1. ConjunctsOf(q, g) = ConjunctsOf(q, h)
      BY <2>2, NodeTypes DEF ConjunctsOf
    <3> HIDE DEF F
    <3> QED BY <3>1, <1>1
  <2> HIDE DEF F
  <2> QED BY <2>1, <2>2 DEF ByOperands
<1>3. PICK g : Solves(g, F, Queries, V)
  <2> HIDE DEF F, V
  <2> QED BY <1>2, TreeRecursion
<1> DEFINE Eqn(f) == f = [q \in Queries |-> ConjunctsOf(q, f)]
<1>4. Eqn(g)
  <2>1. g \in [Queries -> V] /\ \A q \in Queries : g[q] = F[<<q, g>>]
    BY <1>3 DEF Solves
  <2> HIDE DEF F, V
  <2>2. \A q \in Queries : g[q] = ConjunctsOf(q, g)
    BY <1>1, <2>1
  <2> QED BY <2>1, <2>2
<1>5. Conjuncts = CHOOSE f : Eqn(f)
  BY DEF Conjuncts, ConjunctsOf
<1>6. Eqn(Conjuncts)
  <2> HIDE DEF Eqn
  <2> QED BY <1>4, <1>5
<1> QED BY <1>6

LEMMA PartsTypes ==
  ASSUME FiniteTrees
  PROVE  \A q \in Queries :
           /\ OrParts[q] \subseteq Queries /\ Disjuncts(q) # {}
           /\ Conjuncts[q] \subseteq {c \in Queries : c.op # "and"}
<1> DEFINE B == {q \in Queries : ~(/\ OrParts[q] \subseteq Queries /\ Disjuncts(q) # {}
                                   /\ Conjuncts[q] \subseteq {c \in Queries : c.op # "and"})}
<1>1. ASSUME NEW q \in B
      PROVE  \/ q.op \in {"and", "or"} /\ (q.left \in B \/ q.right \in B)
             \/ q.op = "not" /\ q.operand \in B
  <2>1. CASE q.op = "or"
    <3>1. q.left \in Queries /\ q.right \in Queries
      BY <2>1, NodeTypes
    <3>2. /\ OrParts[q] = {q} \union OrParts[q.left] \union OrParts[q.right]
          /\ Conjuncts[q] = {q}
      BY <2>1, OrPartsExist, ConjunctsExist DEF OrPartsOf, ConjunctsOf
    <3> QED BY <2>1, <3>1, <3>2 DEF Disjuncts
  <2>2. CASE q.op # "or"
    <3>1. OrParts[q] = {q} /\ Disjuncts(q) = {q}
      BY <2>2, OrPartsExist DEF OrPartsOf, Disjuncts
    <3>2. CASE q.op = "and"
      <4>1. q.left \in Queries /\ q.right \in Queries
        BY <3>2, NodeTypes
      <4>2. Conjuncts[q] = Conjuncts[q.left] \union Conjuncts[q.right]
        BY <3>2, ConjunctsExist DEF ConjunctsOf
      <4> QED BY <3>1, <3>2, <4>1, <4>2
    <3>3. CASE q.op # "and"
      BY <3>1, <3>3, ConjunctsExist DEF ConjunctsOf
    <3> QED BY <3>2, <3>3
  <2> QED BY <2>1, <2>2
<1>2. B = {}
  <2> HIDE DEF B
  <2>1. B \in SUBSET Queries
    BY DEF B
  <2> QED BY <1>1, <2>1, NoBadQuery
<1> QED BY <1>2

\* A predicate means any of its disjuncts, and all of its conjuncts.
LEMMA AnyDisjunct ==
  ASSUME FiniteTrees, NEW e \in Events
  PROVE  \A q \in Queries :
           /\ e \in Meaning[q] <=> \E p \in Disjuncts(q) : e \in Meaning[p]
           /\ \A p \in OrParts[q] : e \in Meaning[p] => e \in Meaning[q]
<1> DEFINE B == {q \in Queries : ~(/\ e \in Meaning[q] <=> \E p \in Disjuncts(q) : e \in Meaning[p]
                                   /\ \A p \in OrParts[q] : e \in Meaning[p] => e \in Meaning[q])}
<1>1. ASSUME NEW q \in B
      PROVE  q.op = "or" /\ (q.left \in B \/ q.right \in B)
  <2>1. CASE q.op = "or"
    <3>1. q.left \in Queries /\ q.right \in Queries
      BY <2>1, NodeTypes
    <3>2. OrParts[q] = {q} \union OrParts[q.left] \union OrParts[q.right]
      BY <2>1, OrPartsExist DEF OrPartsOf
    <3>3. Disjuncts(q) = Disjuncts(q.left) \union Disjuncts(q.right)
      BY <2>1, <3>2 DEF Disjuncts
    <3>4. Meaning[q] = Meaning[q.left] \union Meaning[q.right]
      BY <2>1, MeaningExists DEF MeaningOf
    <3> QED BY <2>1, <3>1, <3>2, <3>3, <3>4
  <2>2. CASE q.op # "or"
    <3>1. OrParts[q] = {q} /\ Disjuncts(q) = {q}
      BY <2>2, OrPartsExist DEF OrPartsOf, Disjuncts
    <3> QED BY <3>1
  <2> QED BY <2>1, <2>2
<1>2. B = {}
  <2> HIDE DEF B
  <2>1. B \in SUBSET Queries
    BY DEF B
  <2> QED BY <1>1, <2>1, NoBadQuery
<1> QED BY <1>2

LEMMA AllConjuncts ==
  ASSUME FiniteTrees, NEW e \in Events
  PROVE  \A q \in Queries : e \in Meaning[q] <=> \A c \in Conjuncts[q] : e \in Meaning[c]
<1> DEFINE B == {q \in Queries : ~(e \in Meaning[q] <=> \A c \in Conjuncts[q] : e \in Meaning[c])}
<1>1. ASSUME NEW q \in B
      PROVE  q.op = "and" /\ (q.left \in B \/ q.right \in B)
  <2>1. CASE q.op = "and"
    <3>1. q.left \in Queries /\ q.right \in Queries
      BY <2>1, NodeTypes
    <3>2. Conjuncts[q] = Conjuncts[q.left] \union Conjuncts[q.right]
      BY <2>1, ConjunctsExist DEF ConjunctsOf
    <3>3. Meaning[q] = Meaning[q.left] \intersect Meaning[q.right]
      BY <2>1, MeaningExists DEF MeaningOf
    <3> QED BY <2>1, <3>1, <3>2, <3>3
  <2>2. CASE q.op # "and"
    BY <2>2, ConjunctsExist DEF ConjunctsOf
  <2> QED BY <2>1, <2>2
<1>2. B = {}
  <2> HIDE DEF B
  <2>1. B \in SUBSET Queries
    BY DEF B
  <2> QED BY <1>1, <2>1, NoBadQuery
<1> QED BY <1>2

\* A disjunction of equality tests is a set of values.
LEMMA OneField ==
  ASSUME FiniteTrees, NEW q \in Queries, NEW f \in Fields, TestsOnly(q, f)
  PROVE  /\ (CHOOSE g \in Fields : TestsOnly(q, g)) = f
         /\ Alternatives(q) \subseteq Values
<1>1. Disjuncts(q) # {} /\ Disjuncts(q) \subseteq Queries
  BY PartsTypes DEF Disjuncts
<1>2. \A g \in Fields : TestsOnly(q, g) => g = f
  BY <1>1 DEF TestsOnly
<1>3. \A p \in Disjuncts(q) : IF p.op = "compare" THEN {p.value} \subseteq Values
                                                  ELSE p.values \subseteq Values
  BY <1>1, NodeTypes DEF TestsOnly, OnlyEqualities
<1>4. Alternatives(q) \subseteq Values
  BY <1>3 DEF Alternatives
<1> QED BY <1>2, <1>4

LEMMA FieldTypes ==
  ASSUME NEW e \in Events, NEW f \in Fields, e[f] # Absent
  PROVE  e[f] \in Values /\ e[f].kind \in {"num", "str"} /\ e[f].v \in Int
  BY ValuesAssumption

LEMMA SameValue ==
  ASSUME NEW x \in Values, NEW y \in Values
  PROVE  /\ x = y <=> x.kind = y.kind /\ x.v = y.v
         /\ x.v \in Int /\ x.kind \in {"num", "str"}
         /\ x.kind = "num" => x = Num(x.v)
         /\ x # Absent
<1>1. x \in [kind : {"num", "str"}, v : Int] /\ y \in [kind : {"num", "str"}, v : Int]
  BY ValuesAssumption
<1>2. x = [kind |-> x.kind, v |-> x.v] /\ y = [kind |-> y.kind, v |-> y.v]
  BY <1>1
<1> QED BY <1>1, <1>2, ValuesAssumption DEF Num

LEMMA AnyAlternative ==
  ASSUME FiniteTrees, NEW q \in Queries, NEW f \in Fields, TestsOnly(q, f), NEW e \in Events
  PROVE  e \in Meaning[q] <=> e[f] \in Alternatives(q)
<1>1. ASSUME NEW p \in Disjuncts(q)
      PROVE  e \in Meaning[p] <=> e[f] \in IF p.op = "compare" THEN {p.value} ELSE p.values
  <2>1. p \in Queries /\ p.field = f
    BY PartsTypes DEF Disjuncts, TestsOnly
  <2>2. CASE p.op = "in"
    BY <2>1, <2>2, MeaningExists DEF MeaningOf
  <2>3. CASE p.op = "compare" /\ p.cmp = "EQ"
    <3>0. Meaning[p] = {d \in Events : d[p.field] # Absent
                                         /\ Compares(d[p.field], p.cmp, p.value)}
      BY <2>1, <2>3, MeaningExists DEF MeaningOf
    <3>1. e \in Meaning[p] <=> e[f] # Absent /\ Compares(e[f], "EQ", p.value)
      BY <2>1, <2>3, <3>0
    <3>2. Compares(e[f], "EQ", p.value) <=> e[f].kind = p.value.kind /\ e[f].v = p.value.v
      BY DEF Compares, Holds
    <3>3. p.value \in Values
      BY <2>1, <2>3, NodeTypes
    <3> QED BY <2>3, <3>1, <3>2, <3>3, FieldTypes, SameValue
  <2> QED BY <2>2, <2>3 DEF TestsOnly, OnlyEqualities
<1> DEFINE A(p) == IF p.op = "compare" THEN {p.value} ELSE p.values
<1>2. Alternatives(q) = UNION {A(p) : p \in Disjuncts(q)}
  BY DEF Alternatives
<1>3. e[f] \in Alternatives(q) <=> \E p \in Disjuncts(q) : e[f] \in A(p)
  <2> HIDE DEF A
  <2> QED BY <1>2
<1>4. e \in Meaning[q] <=> \E p \in Disjuncts(q) : e \in Meaning[p]
  BY AnyDisjunct
<1> QED BY <1>1, <1>3, <1>4

-----------------------------------------------------------------------------
(* What a predicate is flattened to *)

Bounds  == [lo : {n \in Int : NoLo <= n}, hi : {n \in Int : n <= NoHi}]
Buckets == [intervals : [Fields -> Bounds], sets : [Fields -> SUBSET Values],
            residual : SUBSET Queries]

LEMMA BothType ==
  ASSUME NEW b \in Buckets, NEW c \in Buckets
  PROVE  /\ Both(b, c) \in Buckets
         /\ \A f \in Fields :
              /\ Both(b, c).intervals[f] =
                   [lo |-> Larger(b.intervals[f].lo, c.intervals[f].lo),
                    hi |-> Smaller(b.intervals[f].hi, c.intervals[f].hi)]
              /\ Both(b, c).sets[f] = b.sets[f] \union c.sets[f]
         /\ Both(b, c).residual = b.residual \union c.residual
<1>1. \A f \in Fields : b.intervals[f] \in Bounds /\ c.intervals[f] \in Bounds
  BY DEF Buckets
<1>2. \A f \in Fields :
        [lo |-> Larger(b.intervals[f].lo, c.intervals[f].lo),
         hi |-> Smaller(b.intervals[f].hi, c.intervals[f].hi)] \in Bounds
  BY <1>1 DEF Bounds, Larger, Smaller
<1>3. \A f \in Fields : b.sets[f] \union c.sets[f] \in SUBSET Values
  BY DEF Buckets
<1>4. b.residual \union c.residual \in SUBSET Queries
  BY DEF Buckets
<1> QED BY <1>2, <1>3, <1>4 DEF Both, Buckets

\* What a node that is not an `and` says: bounds of one field, a value set of
\* one field, or nothing but itself.
LEMMA Elementary ==
  /\ Line \in Bounds /\ Nothing \in Buckets
  /\ \A f \in Fields : Nothing.intervals[f] = Line /\ Nothing.sets[f] = {}
  /\ Nothing.residual = {}
<1>1. Line \in Bounds
  BY BoundsAssumption DEF Line, Bounds
<1> QED BY <1>1 DEF Nothing, Buckets

LEMMA WithIntervalType ==
  ASSUME NEW f \in Fields, NEW lo, NEW hi, [lo |-> lo, hi |-> hi] \in Bounds
  PROVE  LET b == WithInterval(f, lo, hi) IN
         /\ b \in Buckets /\ b.residual = {}
         /\ \A g \in Fields : /\ b.sets[g] = {}
                              /\ b.intervals[g] = IF g = f THEN [lo |-> lo, hi |-> hi] ELSE Line
<1> DEFINE b == WithInterval(f, lo, hi)
<1>1. b = [intervals |-> [g \in Fields |-> IF g = f THEN [lo |-> lo, hi |-> hi] ELSE Line],
           sets |-> [g \in Fields |-> {}], residual |-> {}]
  BY DEF WithInterval, Nothing
<1> HIDE DEF b
<1>2. Line \in Bounds
  BY Elementary
<1>3. b \in Buckets
  BY <1>1, <1>2 DEF Buckets
<1>4. b.residual = {} /\ \A g \in Fields :
        b.sets[g] = {} /\ b.intervals[g] = IF g = f THEN [lo |-> lo, hi |-> hi] ELSE Line
  BY <1>1
<1> QED BY <1>3, <1>4 DEF b

LEMMA WithSetType ==
  ASSUME NEW f \in Fields, NEW X \in SUBSET Values
  PROVE  LET b == WithSet(f, X) IN
         /\ b \in Buckets /\ b.residual = {}
         /\ \A g \in Fields : /\ b.intervals[g] = Line
                              /\ b.sets[g] = IF g = f THEN X ELSE {}
<1> DEFINE b == WithSet(f, X)
<1>1. b = [intervals |-> [g \in Fields |-> Line],
           sets |-> [g \in Fields |-> IF g = f THEN X ELSE {}], residual |-> {}]
  <2>1. WithSet(f, X) = [Nothing EXCEPT !.sets = [Nothing.sets EXCEPT ![f] = X]]
    BY DEF WithSet
  <2>2. [Nothing.sets EXCEPT ![f] = X] = [g \in Fields |-> IF g = f THEN X ELSE {}]
    BY DEF Nothing
  <2>3. b = [Nothing EXCEPT !.sets = [g \in Fields |-> IF g = f THEN X ELSE {}]]
    BY <2>1, <2>2
  <2> QED BY <2>3 DEF Nothing
<1> HIDE DEF b
<1>2. Line \in Bounds
  BY Elementary
<1>3. b \in Buckets
  BY <1>1, <1>2 DEF Buckets
<1>4. b.residual = {} /\ \A g \in Fields :
        b.intervals[g] = Line /\ b.sets[g] = IF g = f THEN X ELSE {}
  BY <1>1
<1> QED BY <1>3, <1>4 DEF b

LEMMA OpaqueType ==
  ASSUME NEW q \in Queries
  PROVE  /\ Opaque(q) \in Buckets /\ Opaque(q).residual = {q}
         /\ \A g \in Fields : Opaque(q).intervals[g] = Line /\ Opaque(q).sets[g] = {}
<1>1. Opaque(q) = [intervals |-> [g \in Fields |-> Line],
                   sets |-> [g \in Fields |-> {}], residual |-> {q}]
  <2>1. Opaque(q) = [Nothing EXCEPT !.residual = {q}]
    BY DEF Opaque
  <2> QED BY <2>1 DEF Nothing
<1>2. Line \in Bounds
  BY Elementary
<1> QED BY <1>1, <1>2 DEF Buckets

FlattenOf(q, g) ==
  CASE q.op = "and"     -> Both(g[q.left], g[q.right])
    [] q.op = "compare" -> FlattenCompare(q)
    [] q.op = "in"      -> WithSet(q.field, q.values)
    [] q.op = "or"      -> FlattenOr(q)
    [] OTHER            -> Opaque(q)

\* The numbers between which a comparison leaves the doubled value.
IsBound(q) == q.cmp \in {"EQ", "GT", "GE", "LT", "LE"} /\ q.value.kind = "num"
LoOf(q) == CASE q.cmp = "GT" -> 2 * q.value.v + 1
             [] q.cmp \in {"GE", "EQ"} -> 2 * q.value.v
             [] OTHER -> NoLo
HiOf(q) == CASE q.cmp = "LT" -> 2 * q.value.v - 1
             [] q.cmp \in {"LE", "EQ"} -> 2 * q.value.v
             [] OTHER -> NoHi

LEMMA CompareForms ==
  ASSUME NEW q \in Queries, q.op = "compare"
  PROVE  /\ IsBound(q) => /\ FlattenCompare(q) = WithInterval(q.field, LoOf(q), HiOf(q))
                          /\ [lo |-> LoOf(q), hi |-> HiOf(q)] \in Bounds
         /\ q.cmp = "EQ" /\ q.value.kind = "str" =>
              FlattenCompare(q) = WithSet(q.field, {q.value})
         /\ ~IsBound(q) /\ ~(q.cmp = "EQ" /\ q.value.kind = "str") =>
              FlattenCompare(q) = Opaque(q)
<1>1. q.value \in Values /\ q.cmp \in Comparisons
  BY NodeTypes
<1>2. q.value.v \in Int /\ q.value.kind \in {"num", "str"}
  BY <1>1, SameValue
<1>3. NoLo < 2 * q.value.v - 1 /\ 2 * q.value.v + 1 < NoHi /\ NoLo \in Int /\ NoHi \in Int
  BY <1>1, BoundsAssumption
<1>4. [lo |-> LoOf(q), hi |-> HiOf(q)] \in Bounds
  BY <1>2, <1>3 DEF Bounds, LoOf, HiOf
<1>5. IsBound(q) => FlattenCompare(q) = WithInterval(q.field, LoOf(q), HiOf(q))
  <2> SUFFICES ASSUME IsBound(q)
               PROVE  FlattenCompare(q) = WithInterval(q.field, LoOf(q), HiOf(q))
    OBVIOUS
  <2>1. CASE q.cmp = "EQ"
    BY <2>1 DEF IsBound, FlattenCompare, LoOf, HiOf
  <2>2. CASE q.cmp = "GT"
    BY <2>2 DEF IsBound, FlattenCompare, LoOf, HiOf
  <2>3. CASE q.cmp = "GE"
    BY <2>3 DEF IsBound, FlattenCompare, LoOf, HiOf
  <2>4. CASE q.cmp = "LT"
    BY <2>4 DEF IsBound, FlattenCompare, LoOf, HiOf
  <2>5. CASE q.cmp = "LE"
    BY <2>5 DEF IsBound, FlattenCompare, LoOf, HiOf
  <2> QED BY <2>1, <2>2, <2>3, <2>4, <2>5 DEF IsBound
<1>6. q.cmp = "EQ" /\ q.value.kind = "str" => FlattenCompare(q) = WithSet(q.field, {q.value})
  BY DEF FlattenCompare
<1>7. ~IsBound(q) /\ ~(q.cmp = "EQ" /\ q.value.kind = "str") => FlattenCompare(q) = Opaque(q)
  BY <1>1, <1>2 DEF FlattenCompare, IsBound, Comparisons
<1> QED BY <1>4, <1>5, <1>6, <1>7

LEMMA OrForms ==
  ASSUME FiniteTrees, NEW q \in Queries
  PROVE  /\ \A f \in Fields : TestsOnly(q, f) =>
              FlattenOr(q) = WithSet(f, Alternatives(q)) /\ Alternatives(q) \subseteq Values
         /\ (\A f \in Fields : ~TestsOnly(q, f)) => FlattenOr(q) = Opaque(q)
<1>1. ASSUME NEW f \in Fields, TestsOnly(q, f)
      PROVE  FlattenOr(q) = WithSet(f, Alternatives(q)) /\ Alternatives(q) \subseteq Values
  <2>1. (CHOOSE g \in Fields : TestsOnly(q, g)) = f /\ Alternatives(q) \subseteq Values
    BY <1>1, OneField
  <2> QED BY <1>1, <2>1 DEF FlattenOr
<1>2. (\A f \in Fields : ~TestsOnly(q, f)) => FlattenOr(q) = Opaque(q)
  BY DEF FlattenOr
<1> QED BY <1>1, <1>2

LEMMA FlattenOfType ==
  ASSUME FiniteTrees, NEW q \in Queries, NEW g \in [Queries -> Buckets]
  PROVE  FlattenOf(q, g) \in Buckets
<1>1. CASE q.op = "and"
  BY <1>1, NodeTypes, BothType DEF FlattenOf
<1>2. CASE q.op = "compare"
  <2>1. q.field \in Fields /\ q.value \in Values
    BY <1>2, NodeTypes
  <2>2. FlattenCompare(q) \in Buckets
    <3>1. CASE IsBound(q)
      <4>1. /\ FlattenCompare(q) = WithInterval(q.field, LoOf(q), HiOf(q))
            /\ [lo |-> LoOf(q), hi |-> HiOf(q)] \in Bounds
        BY <1>2, <3>1, CompareForms
      <4>2. WithInterval(q.field, LoOf(q), HiOf(q)) \in Buckets
        BY <2>1, <4>1, WithIntervalType
      <4> QED BY <4>1, <4>2
    <3>2. CASE q.cmp = "EQ" /\ q.value.kind = "str"
      <4>1. {q.value} \in SUBSET Values /\ FlattenCompare(q) = WithSet(q.field, {q.value})
        BY <1>2, <2>1, <3>2, CompareForms
      <4> QED BY <2>1, <4>1, WithSetType
    <3>3. CASE ~IsBound(q) /\ ~(q.cmp = "EQ" /\ q.value.kind = "str")
      BY <1>2, <3>3, CompareForms, OpaqueType
    <3> QED BY <3>1, <3>2, <3>3
  <2> QED BY <1>2, <2>2 DEF FlattenOf
<1>3. CASE q.op = "in"
  BY <1>3, NodeTypes, WithSetType DEF FlattenOf
<1>4. CASE q.op = "or"
  <2>1. FlattenOr(q) \in Buckets
    BY OrForms, WithSetType, OpaqueType
  <2> QED BY <1>4, <2>1 DEF FlattenOf
<1>5. CASE q.op \in {"notin", "match", "not"}
  BY <1>5, OpaqueType DEF FlattenOf
<1> QED BY <1>1, <1>2, <1>3, <1>4, <1>5, NodeTypes

LEMMA FlattenExists ==
  ASSUME FiniteTrees
  PROVE  Flatten \in [Queries -> Buckets] /\ \A q \in Queries : Flatten[q] = FlattenOf(q, Flatten)
<1> DEFINE V == Buckets
           F == [p \in Queries \X [Queries -> V] |-> FlattenOf(p[1], p[2])]
<1>1. ASSUME NEW q \in Queries, NEW g \in [Queries -> V]
      PROVE  F[<<q, g>>] = FlattenOf(q, g) /\ FlattenOf(q, g) \in V
  <2>1. <<q, g>> \in Queries \X [Queries -> V]
    OBVIOUS
  <2>2. FlattenOf(q, g) \in V
    BY FlattenOfType
  <2> QED BY <2>1, <2>2
<1>2. ByOperands(F, V)
  <2>1. F \in [Queries \X [Queries -> V] -> V]
    BY <1>1
  <2>2. ASSUME NEW q \in Queries, NEW g \in [Queries -> V], NEW h \in [Queries -> V],
               q.op \in {"and", "or"} => g[q.left] = h[q.left] /\ g[q.right] = h[q.right],
               q.op = "not" => g[q.operand] = h[q.operand]
        PROVE  F[<<q, g>>] = F[<<q, h>>]
    <3>1. FlattenOf(q, g) = FlattenOf(q, h)
      BY <2>2, NodeTypes DEF FlattenOf
    <3> HIDE DEF F, V
    <3> QED BY <3>1, <1>1
  <2>3. V # {}
    BY Elementary
  <2> HIDE DEF F, V
  <2> QED BY <2>1, <2>2, <2>3 DEF ByOperands
<1>3. PICK g : Solves(g, F, Queries, V)
  <2> HIDE DEF F, V
  <2> QED BY <1>2, TreeRecursion
<1> DEFINE Eqn(f) == f = [q \in Queries |-> FlattenOf(q, f)]
<1>4. Eqn(g)
  <2>1. g \in [Queries -> V] /\ \A q \in Queries : g[q] = F[<<q, g>>]
    BY <1>3 DEF Solves
  <2> HIDE DEF F, V
  <2>2. \A q \in Queries : g[q] = FlattenOf(q, g)
    BY <1>1, <2>1
  <2> QED BY <2>1, <2>2
<1>5. Flatten = CHOOSE f : Eqn(f)
  BY DEF Flatten, FlattenOf
<1>6. Eqn(Flatten)
  <2> HIDE DEF Eqn
  <2> QED BY <1>4, <1>5
<1> DEFINE B == {q \in Queries : Flatten[q] \notin Buckets}
<1>7. ASSUME NEW q \in B PROVE q.op = "and" /\ (q.left \in B \/ q.right \in B)
  <2>1. Flatten[q] = FlattenOf(q, Flatten)
    BY <1>6
  <2>2. CASE q.op = "and"
    <3>1. q.left \in Queries /\ q.right \in Queries
      BY <2>2, NodeTypes
    <3>2. Flatten[q] = Both(Flatten[q.left], Flatten[q.right])
      BY <2>1, <2>2 DEF FlattenOf
    <3> QED BY <2>2, <3>1, <3>2, BothType
  <2>3. CASE q.op # "and"
    <3>1. FlattenOf(q, Flatten) = FlattenOf(q, [p \in Queries |-> Nothing])
      BY <2>3 DEF FlattenOf
    <3>2. [p \in Queries |-> Nothing] \in [Queries -> Buckets]
      BY Elementary
    <3> QED BY <2>1, <3>1, <3>2, FlattenOfType
  <2> QED BY <2>2, <2>3
<1>8. B = {}
  <2> HIDE DEF B
  <2>1. B \in SUBSET Queries
    BY DEF B
  <2> QED BY <1>7, <2>1, NoBadQuery
<1> QED BY <1>6, <1>8

-----------------------------------------------------------------------------
(* A predicate holds exactly of what its buckets admit *)

AdmitsRange(b, e, f) ==
  b.intervals[f] # Line =>
    /\ e[f] # Absent /\ e[f].kind = "num"
    /\ b.intervals[f].lo <= 2 * e[f].v /\ 2 * e[f].v <= b.intervals[f].hi
AdmitsSet(b, e, f) == b.sets[f] # {} => e[f] \in b.sets[f]
AdmitsRest(b, e)   == \A r \in b.residual : e \in Meaning[r]
Admits(b, e) ==
  /\ \A f \in Fields : AdmitsRange(b, e, f) /\ AdmitsSet(b, e, f)
  /\ AdmitsRest(b, e)

LEMMA NumbersInside ==
  ASSUME NEW e \in Events, NEW f \in Fields, e[f] # Absent
  PROVE  NoLo <= 2 * e[f].v /\ 2 * e[f].v <= NoHi /\ e[f].v \in Int
<1>1. e[f] \in Values /\ e[f].v \in Int
  BY FieldTypes
<1>2. NoLo < 2 * e[f].v - 1 /\ 2 * e[f].v + 1 < NoHi /\ NoLo \in Int /\ NoHi \in Int
  BY <1>1, BoundsAssumption
<1> QED BY <1>1, <1>2

\* A comparison with a number, as the bounds of the doubled value.
LEMMA BoundMeans ==
  ASSUME FiniteTrees, NEW q \in Queries, q.op = "compare", IsBound(q), NEW e \in Events
  PROVE  /\ [lo |-> LoOf(q), hi |-> HiOf(q)] # Line
         /\ e \in Meaning[q] <=>
              /\ e[q.field] # Absent /\ e[q.field].kind = "num"
              /\ LoOf(q) <= 2 * e[q.field].v /\ 2 * e[q.field].v <= HiOf(q)
<1>1. q.value \in Values /\ q.field \in Fields
  BY NodeTypes
<1>2. q.value.v \in Int /\ q.value.kind = "num"
  BY <1>1, SameValue DEF IsBound
<1>3. NoLo < 2 * q.value.v - 1 /\ 2 * q.value.v + 1 < NoHi /\ NoLo \in Int /\ NoHi \in Int
  BY <1>1, BoundsAssumption
<1>4. LoOf(q) # NoLo \/ HiOf(q) # NoHi
  BY <1>2, <1>3 DEF IsBound, LoOf, HiOf
<1>5. [lo |-> LoOf(q), hi |-> HiOf(q)] # Line
  BY <1>4 DEF Line
<1>6. Meaning[q] = {d \in Events : d[q.field] # Absent
                                     /\ Compares(d[q.field], q.cmp, q.value)}
  BY MeaningExists DEF MeaningOf
<1>7. ASSUME e[q.field] # Absent, e[q.field].kind = "num"
      PROVE  Holds(e[q.field].v, q.cmp, q.value.v) <=>
               LoOf(q) <= 2 * e[q.field].v /\ 2 * e[q.field].v <= HiOf(q)
  <2>1. NoLo <= 2 * e[q.field].v /\ 2 * e[q.field].v <= NoHi /\ e[q.field].v \in Int
    BY <1>1, <1>7, NumbersInside
  <2> DEFINE x == e[q.field].v
             n == q.value.v
  <2>2. x \in Int /\ n \in Int /\ NoLo <= 2 * x /\ 2 * x <= NoHi
    BY <1>2, <2>1
  <2> HIDE DEF x
  <2>3. Holds(x, q.cmp, n) <=> LoOf(q) <= 2 * x /\ 2 * x <= HiOf(q)
    <3>1. CASE q.cmp = "EQ"
      BY <2>2, <3>1 DEF LoOf, HiOf, Holds
    <3>2. CASE q.cmp = "GT"
      BY <2>2, <3>2 DEF LoOf, HiOf, Holds
    <3>3. CASE q.cmp = "GE"
      BY <2>2, <3>3 DEF LoOf, HiOf, Holds
    <3>4. CASE q.cmp = "LT"
      BY <2>2, <3>4 DEF LoOf, HiOf, Holds
    <3>5. CASE q.cmp = "LE"
      BY <2>2, <3>5 DEF LoOf, HiOf, Holds
    <3> QED BY <3>1, <3>2, <3>3, <3>4, <3>5 DEF IsBound
  <2> QED BY <2>3 DEF x
<1>8. e \in Meaning[q] <=> e[q.field] # Absent /\ e[q.field].kind = "num"
                             /\ Holds(e[q.field].v, q.cmp, q.value.v)
  BY <1>2, <1>6 DEF Compares
<1> QED BY <1>5, <1>7, <1>8

\* A node that is not an `and`.
LEMMA LeafAdmits ==
  ASSUME FiniteTrees, NEW q \in Queries, q.op # "and", NEW e \in Events
  PROVE  /\ \A f \in Fields : ~Lists(q, f) => Flatten[q].sets[f] = {}
         /\ e \in Meaning[q] => Admits(Flatten[q], e)
         /\ /\ Admits(Flatten[q], e)
            /\ \A f \in Fields : Lists(q, f) => Flatten[q].sets[f] # {}
            => e \in Meaning[q]
<1> DEFINE b == Flatten[q]
           Goal == /\ \A f \in Fields : ~Lists(q, f) => b.sets[f] = {}
                   /\ e \in Meaning[q] => Admits(b, e)
                   /\ /\ Admits(b, e)
                      /\ \A f \in Fields : Lists(q, f) => b.sets[f] # {}
                      => e \in Meaning[q]
<1>1. b = FlattenOf(q, Flatten)
  BY FlattenExists
<1> SUFFICES Goal
  OBVIOUS
<1> HIDE DEF b, Goal
<1>2. ASSUME b = Opaque(q), \A f \in Fields : ~Lists(q, f)
      PROVE  Goal
  BY <1>2, OpaqueType DEF Goal, Admits, AdmitsRange, AdmitsSet, AdmitsRest
<1>3. ASSUME NEW g \in Fields, NEW X \in SUBSET Values, b = WithSet(g, X), Lists(q, g),
             e \in Meaning[q] <=> e[g] \in X
      PROVE  Goal
  <2>1. /\ b.residual = {}
        /\ \A f \in Fields : b.intervals[f] = Line /\ b.sets[f] = IF f = g THEN X ELSE {}
    BY <1>3, WithSetType
  <2>2. Admits(b, e) <=> (X # {} => e[g] \in X)
    BY <2>1 DEF Admits, AdmitsRange, AdmitsSet, AdmitsRest
  <2> QED BY <1>3, <2>1, <2>2 DEF Goal
<1>4. CASE q.op = "compare"
  <2>1. q.field \in Fields /\ q.value \in Values /\ b = FlattenCompare(q)
    BY <1>1, <1>4, NodeTypes DEF FlattenOf
  <2>2. CASE IsBound(q)
    <3> DEFINE I == [lo |-> LoOf(q), hi |-> HiOf(q)]
    <3>1. b = WithInterval(q.field, LoOf(q), HiOf(q)) /\ I \in Bounds
      BY <1>4, <2>1, <2>2, CompareForms
    <3>2. /\ b.residual = {}
          /\ \A f \in Fields : b.sets[f] = {}
                               /\ b.intervals[f] = IF f = q.field THEN I ELSE Line
      BY <2>1, <3>1, WithIntervalType
    <3>3. I # Line /\ (e \in Meaning[q] <=>
              /\ e[q.field] # Absent /\ e[q.field].kind = "num"
              /\ I.lo <= 2 * e[q.field].v /\ 2 * e[q.field].v <= I.hi)
      BY <1>4, <2>2, BoundMeans
    <3> HIDE DEF I
    <3>4. Admits(b, e) <=> /\ e[q.field] # Absent /\ e[q.field].kind = "num"
                           /\ I.lo <= 2 * e[q.field].v /\ 2 * e[q.field].v <= I.hi
      BY <2>1, <3>2, <3>3 DEF Admits, AdmitsRange, AdmitsSet, AdmitsRest
    <3>5. \A f \in Fields : ~Lists(q, f)
      BY <1>4, <2>2 DEF Lists, IsBound
    <3> QED BY <3>2, <3>3, <3>4, <3>5 DEF Goal
  <2>3. CASE q.cmp = "EQ" /\ q.value.kind = "str"
    <3>1. b = WithSet(q.field, {q.value})
      BY <1>4, <2>1, <2>3, CompareForms
    <3>0. Meaning[q] = {d \in Events : d[q.field] # Absent
                                         /\ Compares(d[q.field], q.cmp, q.value)}
      BY <1>4, MeaningExists DEF MeaningOf
    <3>2. Meaning[q] = {d \in Events : d[q.field] # Absent
                                         /\ Compares(d[q.field], "EQ", q.value)}
      BY <2>3, <3>0
    <3>3. Compares(e[q.field], "EQ", q.value) <=>
            e[q.field].kind = q.value.kind /\ e[q.field].v = q.value.v
      BY DEF Compares, Holds
    <3>4. e \in Meaning[q] <=> e[q.field] = q.value
      BY <2>1, <3>2, <3>3, FieldTypes, SameValue
    <3>5. Lists(q, q.field) /\ {q.value} \in SUBSET Values
      BY <1>4, <2>1, <2>3 DEF Lists
    <3>6. e \in Meaning[q] <=> e[q.field] \in {q.value}
      BY <3>4
    <3> QED BY <1>3, <2>1, <3>1, <3>5, <3>6
  <2>4. CASE ~IsBound(q) /\ ~(q.cmp = "EQ" /\ q.value.kind = "str")
    <3>1. b = Opaque(q)
      BY <1>4, <2>1, <2>4, CompareForms
    <3>2. \A f \in Fields : ~Lists(q, f)
      BY <1>4, <2>4 DEF Lists
    <3> QED BY <1>2, <3>1, <3>2
  <2> QED BY <2>2, <2>3, <2>4
<1>5. CASE q.op = "in"
  <2>1. q.field \in Fields /\ q.values \in SUBSET Values /\ b = WithSet(q.field, q.values)
    BY <1>1, <1>5, NodeTypes DEF FlattenOf
  <2>2. Lists(q, q.field) /\ (e \in Meaning[q] <=> e[q.field] \in q.values)
    BY <1>5, MeaningExists DEF MeaningOf, Lists
  <2> QED BY <1>3, <2>1, <2>2
<1>6. CASE q.op = "or"
  <2>1. b = FlattenOr(q)
    BY <1>1, <1>6 DEF FlattenOf
  <2>2. CASE \A f \in Fields : ~TestsOnly(q, f)
    BY <1>2, <1>6, <2>1, <2>2, OrForms DEF Lists
  <2>3. ASSUME NEW f \in Fields, TestsOnly(q, f) PROVE Goal
    <3>1. b = WithSet(f, Alternatives(q)) /\ Alternatives(q) \in SUBSET Values
      BY <2>1, <2>3, OrForms
    <3>2. Lists(q, f) /\ (e \in Meaning[q] <=> e[f] \in Alternatives(q))
      BY <1>6, <2>3, AnyAlternative DEF Lists
    <3> QED BY <1>3, <3>1, <3>2
  <2> QED BY <2>2, <2>3
<1>7. CASE q.op \in {"notin", "match", "not"}
  <2>1. b = Opaque(q)
    BY <1>1, <1>7 DEF FlattenOf
  <2> QED BY <1>2, <1>7, <2>1 DEF Lists
<1> QED BY <1>4, <1>5, <1>6, <1>7, NodeTypes

\* Of a conjunction: the bounds of all conjuncts together, and what is listed.
LEMMA BothRanges ==
  ASSUME NEW b \in Buckets, NEW c \in Buckets, NEW e \in Events, NEW f \in Fields
  PROVE  AdmitsRange(Both(b, c), e, f) <=> AdmitsRange(b, e, f) /\ AdmitsRange(c, e, f)
<1>1. b.intervals[f] \in Bounds /\ c.intervals[f] \in Bounds
  BY DEF Buckets
<1> DEFINE i == b.intervals[f]
           j == c.intervals[f]
           k == Both(b, c).intervals[f]
<1>2. i \in Bounds /\ j \in Bounds
      /\ k = [lo |-> Larger(i.lo, j.lo), hi |-> Smaller(i.hi, j.hi)]
  BY <1>1, BothType
<1>3. AdmitsRange(Both(b, c), e, f) <=>
        (k # Line => /\ e[f] # Absent /\ e[f].kind = "num"
                     /\ k.lo <= 2 * e[f].v /\ 2 * e[f].v <= k.hi)
  BY DEF AdmitsRange
<1>4. AdmitsRange(b, e, f) <=>
        (i # Line => /\ e[f] # Absent /\ e[f].kind = "num"
                     /\ i.lo <= 2 * e[f].v /\ 2 * e[f].v <= i.hi)
  BY DEF AdmitsRange
<1>5. AdmitsRange(c, e, f) <=>
        (j # Line => /\ e[f] # Absent /\ e[f].kind = "num"
                     /\ j.lo <= 2 * e[f].v /\ 2 * e[f].v <= j.hi)
  BY DEF AdmitsRange
<1> HIDE DEF i, j, k
<1>6. i = [lo |-> i.lo, hi |-> i.hi] /\ j = [lo |-> j.lo, hi |-> j.hi]
      /\ i.lo \in Int /\ i.hi \in Int /\ NoLo <= i.lo /\ i.hi <= NoHi
      /\ j.lo \in Int /\ j.hi \in Int /\ NoLo <= j.lo /\ j.hi <= NoHi
      /\ NoLo \in Int /\ NoHi \in Int
  BY <1>2, BoundsAssumption DEF Bounds
<1>7. /\ i = Line <=> i.lo = NoLo /\ i.hi = NoHi
      /\ j = Line <=> j.lo = NoLo /\ j.hi = NoHi
  BY <1>6 DEF Line
<1>8. k = Line <=> i = Line /\ j = Line
  <2>1. k = Line <=> Larger(i.lo, j.lo) = NoLo /\ Smaller(i.hi, j.hi) = NoHi
    BY <1>2 DEF Line
  <2> QED BY <1>6, <1>7, <2>1 DEF Larger, Smaller
<1>9. ASSUME e[f] # Absent
      PROVE  k.lo <= 2 * e[f].v /\ 2 * e[f].v <= k.hi <=>
               /\ i.lo <= 2 * e[f].v /\ 2 * e[f].v <= i.hi
               /\ j.lo <= 2 * e[f].v /\ 2 * e[f].v <= j.hi
  <2> DEFINE x == e[f].v
  <2>1. x \in Int
    BY <1>9, NumbersInside
  <2> HIDE DEF x
  <2>2. k.lo = Larger(i.lo, j.lo) /\ k.hi = Smaller(i.hi, j.hi)
    BY <1>2
  <2>3. k.lo <= 2 * x /\ 2 * x <= k.hi <=>
               i.lo <= 2 * x /\ 2 * x <= i.hi /\ j.lo <= 2 * x /\ 2 * x <= j.hi
    BY <1>6, <2>1, <2>2 DEF Larger, Smaller
  <2> QED BY <2>3 DEF x
<1>10. ASSUME e[f] # Absent
       PROVE  /\ i = Line => i.lo <= 2 * e[f].v /\ 2 * e[f].v <= i.hi
              /\ j = Line => j.lo <= 2 * e[f].v /\ 2 * e[f].v <= j.hi
  <2>1. NoLo <= 2 * e[f].v /\ 2 * e[f].v <= NoHi
    BY <1>10, NumbersInside
  <2> QED BY <1>7, <2>1
<1> QED BY <1>3, <1>4, <1>5, <1>8, <1>9, <1>10

AdmitsElse(b, e) == AdmitsRest(b, e) /\ \A f \in Fields : AdmitsRange(b, e, f)

LEMMA AllConjunctsAdmit ==
  ASSUME FiniteTrees, NEW e \in Events
  PROVE  \A q \in Queries :
           /\ AdmitsElse(Flatten[q], e) <=> \A c \in Conjuncts[q] : AdmitsElse(Flatten[c], e)
           /\ \A f \in Fields :
                Flatten[q].sets[f] = UNION {Flatten[c].sets[f] : c \in Conjuncts[q]}
<1> DEFINE Good(q) ==
             /\ AdmitsElse(Flatten[q], e) <=> \A c \in Conjuncts[q] : AdmitsElse(Flatten[c], e)
             /\ \A f \in Fields :
                  Flatten[q].sets[f] = UNION {Flatten[c].sets[f] : c \in Conjuncts[q]}
           B == {q \in Queries : ~Good(q)}
<1>1. ASSUME NEW q \in Queries, q.op = "and", Good(q.left), Good(q.right) PROVE Good(q)
  <2>1. q.left \in Queries /\ q.right \in Queries
    BY <1>1, NodeTypes
  <2>2. Conjuncts[q] = Conjuncts[q.left] \union Conjuncts[q.right]
    BY <1>1, ConjunctsExist DEF ConjunctsOf
  <2> DEFINE l == Flatten[q.left]
             r == Flatten[q.right]
             b == Flatten[q]
  <2>3. l \in Buckets /\ r \in Buckets /\ b = Both(l, r)
    BY <1>1, <2>1, FlattenExists DEF FlattenOf
  <2>4. AdmitsElse(b, e) <=> AdmitsElse(l, e) /\ AdmitsElse(r, e)
    <3> HIDE DEF b, l, r
    <3>1. b.residual = l.residual \union r.residual
      BY <2>3, BothType
    <3>2. \A f \in Fields : AdmitsRange(b, e, f) <=> AdmitsRange(l, e, f) /\ AdmitsRange(r, e, f)
      BY <2>3, BothRanges
    <3> QED BY <3>1, <3>2 DEF AdmitsElse, AdmitsRest
  <2>5. \A f \in Fields : b.sets[f] = l.sets[f] \union r.sets[f]
    <3> HIDE DEF b, l, r
    <3>1. b.sets = [f \in Fields |-> l.sets[f] \union r.sets[f]]
      BY <2>3 DEF Both
    <3> QED BY <3>1
  <2>6. ASSUME NEW f \in Fields
        PROVE  b.sets[f] = UNION {Flatten[c].sets[f] : c \in Conjuncts[q]}
    <3>1. l.sets[f] = UNION {Flatten[c].sets[f] : c \in Conjuncts[q.left]}
          /\ r.sets[f] = UNION {Flatten[c].sets[f] : c \in Conjuncts[q.right]}
      BY <1>1
    <3> HIDE DEF b, l, r
    <3> QED BY <2>2, <2>5, <3>1
  <2> QED BY <1>1, <2>2, <2>4, <2>6
<1>2. ASSUME NEW q \in Queries, q.op # "and" PROVE Good(q)
  <2>1. Conjuncts[q] = {q}
    BY <1>2, ConjunctsExist DEF ConjunctsOf
  <2> QED BY <2>1
<1>3. ASSUME NEW q \in B PROVE q.op = "and" /\ (q.left \in B \/ q.right \in B)
  <2>1. q.op = "and"
    BY <1>2
  <2>2. q.left \in Queries /\ q.right \in Queries
    BY <2>1, NodeTypes
  <2> HIDE DEF Good
  <2> QED BY <1>1, <2>1, <2>2
<1>4. B = {}
  <2> HIDE DEF B
  <2>1. B \in SUBSET Queries
    BY DEF B
  <2> QED BY <1>3, <2>1, NoBadQuery
<1> QED BY <1>4

\* Every conjunct that lists values of a field lists the same, and some.
OneSet(q) ==
  \A c, d \in Conjuncts[q] : \A f \in Fields :
    Lists(c, f) /\ Lists(d, f) =>
      Flatten[c].sets[f] # {} /\ Flatten[c].sets[f] = Flatten[d].sets[f]

LEMMA BucketsMean ==
  ASSUME FiniteTrees, NEW q \in Queries, OneSet(q), NEW e \in Events
  PROVE  e \in Meaning[q] <=> Admits(Flatten[q], e)
<1>1. Conjuncts[q] \subseteq {c \in Queries : c.op # "and"}
  BY PartsTypes
<1>2. /\ AdmitsElse(Flatten[q], e) <=> \A c \in Conjuncts[q] : AdmitsElse(Flatten[c], e)
      /\ \A f \in Fields : Flatten[q].sets[f] = UNION {Flatten[c].sets[f] : c \in Conjuncts[q]}
  BY AllConjunctsAdmit
<1>3. \A c \in Conjuncts[q] : e \in Meaning[c] <=> Admits(Flatten[c], e)
  <2> TAKE c \in Conjuncts[q]
  <2>1. c \in Queries /\ c.op # "and"
    BY <1>1
  <2>2. \A f \in Fields : Lists(c, f) => Flatten[c].sets[f] # {}
    BY DEF OneSet
  <2> QED BY <2>1, <2>2, LeafAdmits
<1>4. ASSUME NEW f \in Fields
      PROVE  AdmitsSet(Flatten[q], e, f) <=> \A c \in Conjuncts[q] : AdmitsSet(Flatten[c], e, f)
  <2>1. ASSUME NEW c \in Conjuncts[q], ~Lists(c, f) PROVE Flatten[c].sets[f] = {}
    BY <1>1, <2>1, LeafAdmits
  <2>2. CASE \E c \in Conjuncts[q] : Lists(c, f)
    <3>1. PICK c \in Conjuncts[q] : Lists(c, f)
      BY <2>2
    <3>2. \A d \in Conjuncts[q] : Flatten[d].sets[f] \in {{}, Flatten[c].sets[f]}
      BY <2>1, <3>1 DEF OneSet
    <3>3. Flatten[q].sets[f] = Flatten[c].sets[f]
      <4> DEFINE x == Flatten[c].sets[f]
                 S == {Flatten[d].sets[f] : d \in Conjuncts[q]}
      <4>1. x \in S /\ \A s \in S : s = {} \/ s = x
        BY <3>1, <3>2
      <4>2. UNION S = x
        <5> HIDE DEF x, S
        <5> QED BY <4>1
      <4> QED BY <1>2, <4>2
    <3> QED BY <3>2, <3>3 DEF AdmitsSet
  <2>3. CASE \A c \in Conjuncts[q] : ~Lists(c, f)
    <3>1. Flatten[q].sets[f] = {}
      BY <1>2, <2>1, <2>3
    <3> QED BY <2>1, <2>3, <3>1 DEF AdmitsSet
  <2> QED BY <2>2, <2>3
<1>5. Admits(Flatten[q], e) <=> \A c \in Conjuncts[q] : Admits(Flatten[c], e)
  BY <1>2, <1>4 DEF Admits, AdmitsElse
<1>6. e \in Meaning[q] <=> \A c \in Conjuncts[q] : e \in Meaning[c]
  BY AllConjuncts
<1> QED BY <1>3, <1>5, <1>6

\* The proof of one conjunction from another is one.
LEMMA Kept ==
  ASSUME NEW m \in Buckets, NEW q \in Buckets, NEW e \in Events,
         \A f \in Fields : KeepsInterval(m, q, f) /\ KeepsSet(m, q, f),
         m.residual \subseteq q.residual, Admits(q, e)
  PROVE  Admits(m, e)
<1>1. AdmitsRest(m, e)
  BY DEF Admits, AdmitsRest
<1>2. ASSUME NEW f \in Fields PROVE AdmitsRange(m, e, f)
  <2>1. KeepsInterval(m, q, f) /\ AdmitsRange(q, e, f) /\ AdmitsSet(q, e, f)
    BY DEF Admits
  <2>2. m.intervals[f] \in Bounds /\ q.intervals[f] \in Bounds /\ q.sets[f] \subseteq Values
    BY DEF Buckets
  <2> DEFINE i == m.intervals[f]
             j == q.intervals[f]
  <2>3. /\ i.lo \in Int /\ i.hi \in Int /\ NoLo <= i.lo /\ i.hi <= NoHi
        /\ j.lo \in Int /\ j.hi \in Int /\ NoLo <= j.lo /\ j.hi <= NoHi
        /\ i = [lo |-> i.lo, hi |-> i.hi]
        /\ NoLo \in Int /\ NoHi \in Int
    BY <2>2, BoundsAssumption DEF Bounds
  <2> HIDE DEF i, j
  <2>4. CASE i = Line
    BY <2>4 DEF AdmitsRange, i
  <2>5. CASE i # Line /\ LoWithin(j, i) /\ HiWithin(j, i)
    <3>1. j.lo >= i.lo /\ j.hi <= i.hi
      BY <2>5 DEF LoWithin, HiWithin
    <3>2. j # Line
      <4>1. j = Line => i.lo = NoLo /\ i.hi = NoHi
        BY <2>3, <3>1 DEF Line
      <4> QED BY <2>3, <2>5, <4>1 DEF Line
    <3>3. /\ e[f] # Absent /\ e[f].kind = "num"
          /\ j.lo <= 2 * e[f].v /\ 2 * e[f].v <= j.hi
      BY <2>1, <3>2 DEF AdmitsRange, j
    <3> DEFINE x == 2 * e[f].v
    <3>4. x \in Int
      BY <3>3, NumbersInside
    <3> HIDE DEF x
    <3>5. j.lo <= x /\ x <= j.hi
      BY <3>3 DEF x
    <3>6. i.lo <= x /\ x <= i.hi
      BY <2>3, <3>1, <3>4, <3>5
    <3> QED BY <3>3, <3>6 DEF AdmitsRange, i, x
  <2>6. CASE q.sets[f] # {} /\ \A lit \in q.sets[f] : lit.kind = "num" /\ PointIn(lit.v, i)
    <3>1. e[f] \in q.sets[f]
      BY <2>1, <2>6 DEF AdmitsSet
    <3>2. e[f] # Absent
      BY <2>2, <3>1, ValuesAssumption
    <3>3. e[f].kind = "num" /\ PointIn(e[f].v, i)
      BY <2>6, <3>1
    <3> QED BY <3>2, <3>3 DEF PointIn, AdmitsRange, i
  <2> QED BY <2>1, <2>4, <2>5, <2>6 DEF KeepsInterval, i, j
<1>3. ASSUME NEW f \in Fields PROVE AdmitsSet(m, e, f)
  <2>1. KeepsSet(m, q, f) /\ AdmitsRange(q, e, f) /\ AdmitsSet(q, e, f)
    BY DEF Admits
  <2>2. CASE m.sets[f] = {}
    BY <2>2 DEF AdmitsSet
  <2>3. CASE q.sets[f] # {} /\ q.sets[f] \subseteq m.sets[f]
    BY <2>1, <2>3 DEF AdmitsSet
  <2>4. CASE IsPoint(q.intervals[f]) /\ Num(q.intervals[f].lo \div 2) \in m.sets[f]
    <3> DEFINE j == q.intervals[f]
    <3>1. j \in Bounds
      BY DEF Buckets
    <3>2. j.lo \in Int /\ j.hi = j.lo /\ j.lo % 2 = 0 /\ NoLo <= j.lo /\ j.hi <= NoHi
      BY <2>4, <3>1 DEF Bounds, IsPoint
    <3>3. j # Line
      <4>1. Num(j.lo \div 2) \in Values
        BY <2>4 DEF Buckets
      <4>2. NoLo < 2 * (j.lo \div 2) - 1
        BY <4>1, BoundsAssumption DEF Num
      <4> HIDE DEF j
      <4>3. j.lo \div 2 \in Int /\ 2 * (j.lo \div 2) = j.lo
        BY <3>2
      <4>4. NoLo # j.lo
        BY <3>2, <4>2, <4>3, BoundsAssumption
      <4> QED BY <4>4 DEF Line
    <3>4. /\ e[f] # Absent /\ e[f].kind = "num"
          /\ j.lo <= 2 * e[f].v /\ 2 * e[f].v <= j.hi
      BY <2>1, <3>3 DEF AdmitsRange
    <3> DEFINE x == e[f].v
    <3>5. x \in Int
      BY <3>4, NumbersInside
    <3>6. x = j.lo \div 2
      <4>1. j.lo <= 2 * x /\ 2 * x <= j.hi
        BY <3>4
      <4> HIDE DEF j, x
      <4> QED BY <3>2, <3>5, <4>1
    <3>7. e[f] = Num(x)
      BY <3>4, FieldTypes, SameValue
    <3> QED BY <2>4, <3>6, <3>7 DEF AdmitsSet
  <2> QED BY <2>1, <2>2, <2>3, <2>4 DEF KeepsSet
<1> QED BY <1>1, <1>2, <1>3 DEF Admits

\* No view that is said to answer a query lacks an event of it: what
\* query_subsumes() claims of two predicates of which no conjunction lists two
\* value sets for a field.
THEOREM ClaimsAreTrue == FiniteTrees => \A c \in Claims : Meaning[c[2]] \subseteq Meaning[c[1]]
<1> SUFFICES ASSUME FiniteTrees, NEW c \in Claims, NEW e \in Meaning[c[2]]
             PROVE  e \in Meaning[c[1]]
  OBVIOUS
<1>1. PICK mv, query \in Queries :
        /\ c[1] = mv /\ c[2] = query
        /\ OneSetPerField(mv) /\ OneSetPerField(query) /\ Subsumes(mv, query)
  BY DEF Claims
<1>2. e \in Events
  BY <1>1, MeaningInEvents
<1>3. PICK q \in Disjuncts(query) : e \in Meaning[q]
  BY <1>1, <1>2, AnyDisjunct
<1>4. PICK m \in OrParts[mv] : ConjSubsumes(m, q)
  BY <1>1 DEF Subsumes
<1>5. m \in Queries /\ q \in Queries /\ OneSet(m) /\ OneSet(q)
  BY <1>1, PartsTypes DEF OneSetPerField, OneSet, Disjuncts
<1>6. Admits(Flatten[q], e)
  BY <1>2, <1>3, <1>5, BucketsMean
<1>7. Flatten[m] \in Buckets /\ Flatten[q] \in Buckets
  BY <1>5, FlattenExists
<1>8. Admits(Flatten[m], e)
  BY <1>2, <1>4, <1>6, <1>7, Kept DEF ConjSubsumes
<1>9. e \in Meaning[m]
  BY <1>2, <1>5, <1>8, BucketsMean
<1> QED BY <1>1, <1>2, <1>4, <1>9, AnyDisjunct

\* So no event of a trace is lost, whatever it lacks or has of another type.
THEOREM NoEventLost == FiniteTrees => (Spec => []SubsumptionIsSound)
<1> SUFFICES ASSUME FiniteTrees PROVE Spec => []SubsumptionIsSound
  OBVIOUS
<1>1. Lost = {}
  BY ClaimsAreTrue DEF Lost, Eval
<1>2. SubsumptionIsSound
  BY <1>1 DEF SubsumptionIsSound
<1> QED BY <1>2, PTL

-----------------------------------------------------------------------------
(* The statistics of a chunk *)

Types == {"string", "uint", "int", "mixed", ""}
Stats == [type : Types, lo : Int \union {None}, hi : Int \union {None},
          values : SUBSET Int, bloom : SUBSET Int]
Kinds(E, f) == {x.kind : x \in Found(E, f)}
Summary(s, E) == \A f \in Fields : Describes(s[f], E, f)

LEMMA FoundTypes ==
  ASSUME NEW E \in SUBSET Events, NEW f \in Fields
  PROVE  /\ Found(E, f) \subseteq Values /\ Absent \notin Found(E, f)
         /\ Ranks(E, f) \subseteq Int
         /\ Kinds(E, f) \subseteq {"num", "str"}
<1>1. Found(E, f) \subseteq Values
  BY FieldTypes DEF Found
<1>2. \A x \in Found(E, f) : x.kind \in {"num", "str"} /\ x.v \in Int
  BY <1>1, SameValue
<1>3. Ranks(E, f) \subseteq Int
  BY <1>2 DEF Ranks
<1> QED BY <1>1, <1>2, <1>3 DEF Found, Kinds

IsUnion(G, E, F) == G = E \union F

LEMMA UnionOfParts ==
  ASSUME NEW E, NEW F, NEW G, IsUnion(G, E, F), NEW f
  PROVE  /\ Found(G, f) = Found(E, f) \union Found(F, f)
         /\ Ranks(G, f) = Ranks(E, f) \union Ranks(F, f)
         /\ Kinds(G, f) = Kinds(E, f) \union Kinds(F, f)
<1>1. Found(G, f) = Found(E, f) \union Found(F, f)
  BY DEF Found, IsUnion
<1>2. Kinds(G, f) = Kinds(E, f) \union Kinds(F, f)
  BY <1>1 DEF Kinds
<1>3. {x.v : x \in Found(G, f)} = {x.v : x \in Found(E, f)} \union {x.v : x \in Found(F, f)}
  BY <1>1
<1>4. Ranks(G, f) = Ranks(E, f) \union Ranks(F, f)
  BY <1>3 DEF Ranks, IsUnion
<1> QED BY <1>1, <1>2, <1>4

LEMMA TypesJoin ==
  ASSUME NEW f \in Fields, NEW K \in SUBSET {"num", "str"}, NEW L \in SUBSET {"num", "str"}
  PROVE  /\ TypeOfAll(f, K) \in Types
         /\ JoinTypes(TypeOfAll(f, K), TypeOfAll(f, L)) = TypeOfAll(f, K \union L)
         /\ TypeOfAll(f, K) = "mixed" => TypeOfAll(f, K \union L) = "mixed"
         /\ TypeOfAll(f, L) = "mixed" => TypeOfAll(f, K \union L) = "mixed"
<1>1. TypeOfAll(f, K) \in Types
  BY DEF TypeOfAll, Types
<1>2. CASE f \notin Extra
  <2>1. \A X \in SUBSET {"num", "str"} :
          TypeOfAll(f, X) = IF f = "name" THEN "string" ELSE "uint"
    BY <1>2 DEF TypeOfAll
  <2>2. K \union L \in SUBSET {"num", "str"}
    OBVIOUS
  <2> QED BY <1>1, <2>1, <2>2 DEF JoinTypes
<1>3. CASE f \in Extra
  <2>1. /\ TypeOfAll(f, {}) = ""
        /\ TypeOfAll(f, {"num"}) = "int"
        /\ TypeOfAll(f, {"str"}) = "string"
        /\ TypeOfAll(f, {"num", "str"}) = "mixed"
    BY <1>3 DEF TypeOfAll
  <2>2. /\ K = {} \/ K = {"num"} \/ K = {"str"} \/ K = {"num", "str"}
        /\ L = {} \/ L = {"num"} \/ L = {"str"} \/ L = {"num", "str"}
    OBVIOUS
  <2>3. CASE K = {}
    <3>1. K \union L = L
      BY <2>3
    <3> QED BY <1>1, <2>1, <2>2, <2>3, <3>1 DEF JoinTypes
  <2>4. CASE K = {"num"}
    <3>1. K \union L = IF L = {} \/ L = {"num"} THEN {"num"} ELSE {"num", "str"}
      BY <2>2, <2>4
    <3> QED BY <1>1, <2>1, <2>2, <2>4, <3>1 DEF JoinTypes
  <2>5. CASE K = {"str"}
    <3>1. K \union L = IF L = {} \/ L = {"str"} THEN {"str"} ELSE {"num", "str"}
      BY <2>2, <2>5
    <3> QED BY <1>1, <2>1, <2>2, <2>5, <3>1 DEF JoinTypes
  <2>6. CASE K = {"num", "str"}
    <3>1. K \union L = {"num", "str"}
      BY <2>6
    <3> QED BY <1>1, <2>1, <2>2, <2>6, <3>1 DEF JoinTypes
  <2> QED BY <2>2, <2>3, <2>4, <2>5, <2>6
<1> QED BY <1>2, <1>3

\* Of two ranges, which may be empty, the least that holds both.
LowerOf(a, b) == IF a = None \/ (b # None /\ b < a) THEN b ELSE a
UpperOf(a, b) == IF a = None \/ (b # None /\ b > a) THEN b ELSE a

LEMMA RangeOfUnion ==
  ASSUME NEW N \in SUBSET Int, NEW M \in SUBSET Int, NEW a, NEW b, NEW lo, NEW hi,
         IsRange(a, b, N), IsRange(lo, hi, M)
  PROVE  IsRange(LowerOf(a, lo), UpperOf(b, hi), N \union M)
<1>0. None \notin Int
  BY PrunerAssumption
<1>1. CASE N = {}
  BY <1>0, <1>1 DEF IsRange, LowerOf, UpperOf
<1>2. CASE N # {} /\ M = {}
  BY <1>0, <1>2 DEF IsRange, LowerOf, UpperOf
<1>3. CASE N # {} /\ M # {}
  <2>1. a \in N /\ b \in N /\ lo \in M /\ hi \in M
    BY <1>3 DEF IsRange
  <2>2. (\A n \in N : a <= n /\ n <= b) /\ (\A n \in M : lo <= n /\ n <= hi)
    BY <1>3 DEF IsRange
  <2>3. a \in Int /\ b \in Int /\ lo \in Int /\ hi \in Int
    BY <2>1
  <2> DEFINE l == LowerOf(a, lo)
             h == UpperOf(b, hi)
  <2>4. l = (IF lo < a THEN lo ELSE a) /\ h = (IF hi > b THEN hi ELSE b)
    BY <1>0, <2>3 DEF LowerOf, UpperOf
  <2>5. l \in N \union M /\ h \in N \union M
    BY <2>1, <2>4
  <2>6. l \in Int /\ h \in Int /\ l <= a /\ l <= lo /\ b <= h /\ hi <= h
    BY <2>3, <2>4
  <2> HIDE DEF l, h
  <2>7. ASSUME NEW n \in N PROVE l <= n /\ n <= h
    <3>1. n \in Int /\ a <= n /\ n <= b
      BY <2>2
    <3> QED BY <2>3, <2>6, <3>1
  <2>8. ASSUME NEW n \in M PROVE l <= n /\ n <= h
    <3>1. n \in Int /\ lo <= n /\ n <= hi
      BY <2>2
    <3> QED BY <2>3, <2>6, <3>1
  <2>9. IsRange(l, h, N \union M)
    BY <1>3, <2>5, <2>7, <2>8 DEF IsRange
  <2> QED BY <2>9 DEF l, h
<1> QED BY <1>1, <1>2, <1>3

\* The statistics w are those of d but for the type and the range.
Differ(w, d, t, N) ==
  /\ w \in Stats /\ w.type = t /\ w.values = d.values /\ w.bloom = d.bloom
  /\ IsRange(w.lo, w.hi, N)

LEMMA WidenRange ==
  ASSUME NEW d \in Stats, NEW N \in SUBSET Int, NEW M \in SUBSET Int, NEW lo, NEW hi,
         IsRange(d.lo, d.hi, N), IsRange(lo, hi, M)
  PROVE  Differ(Widen(d, lo, hi), d, d.type, N \union M)
<1> DEFINE l == LowerOf(d.lo, lo)
           h == UpperOf(d.hi, hi)
<1>1. Widen(d, lo, hi) = [d EXCEPT !.lo = l, !.hi = h]
  BY DEF Widen, LowerOf, UpperOf
<1>2. IsRange(l, h, N \union M)
  BY RangeOfUnion
<1>3. l \in Int \union {None} /\ h \in Int \union {None}
  <2>1. lo \in Int \union {None} /\ hi \in Int \union {None}
    BY DEF IsRange
  <2>2. d.lo \in Int \union {None} /\ d.hi \in Int \union {None}
    BY DEF Stats
  <2> QED BY <2>1, <2>2 DEF LowerOf, UpperOf
<1> HIDE DEF l, h
<1> QED BY <1>1, <1>2, <1>3 DEF Stats, Differ

\* Statistics of two sets, put together.
LEMMA Together ==
  ASSUME NEW E \in SUBSET Events, NEW F \in SUBSET Events, NEW f \in Fields, NEW r,
         r.type = TypeOfAll(f, Kinds(E, f) \union Kinds(F, f)),
         r.values = IF f \in Extra \union {"dur"} THEN {} ELSE Ranks(E, f) \union Ranks(F, f),
         r.bloom = IF f = "dur" THEN {} ELSE Ranks(E, f) \union Ranks(F, f),
         IsRange(r.lo, r.hi, IF r.type = "mixed" THEN {} ELSE Ranks(E, f) \union Ranks(F, f))
  PROVE  Describes(r, E \union F, f)
<1> DEFINE G == E \union F
<1>0. IsUnion(G, E, F)
  BY DEF IsUnion
<1> HIDE DEF G
<1>1. Ranks(G, f) = Ranks(E, f) \union Ranks(F, f)
  BY <1>0, UnionOfParts
<1>2. Kinds(G, f) = Kinds(E, f) \union Kinds(F, f)
  BY <1>0, UnionOfParts
<1>3. r.type = TypeOfAll(f, {x.kind : x \in Found(G, f)})
  BY <1>2 DEF Kinds
<1>4. Describes(r, G, f)
  BY <1>1, <1>3 DEF Describes
<1> QED BY <1>4 DEF G

LEMMA TypedRange ==
  ASSUME NEW d \in Stats, NEW t \in Types, NEW N \in SUBSET Int, NEW M \in SUBSET Int,
         NEW lo, NEW hi, t # "mixed" => IsRange(d.lo, d.hi, N) /\ IsRange(lo, hi, M)
  PROVE  Differ(Typed(d, t, lo, hi), d, t, IF t = "mixed" THEN {} ELSE N \union M)
<1>1. CASE t = "mixed"
  <2>1. Typed(d, t, lo, hi) = [d EXCEPT !.type = t, !.lo = None, !.hi = None]
    BY <1>1 DEF Typed
  <2> QED BY <1>1, <2>1 DEF Stats, IsRange, Differ
<1>2. CASE t # "mixed"
  <2> DEFINE c == [d EXCEPT !.type = t]
  <2>1. Typed(d, t, lo, hi) = Widen(c, lo, hi)
    BY <1>2 DEF Typed
  <2>2. c \in Stats /\ c.type = t /\ c.lo = d.lo /\ c.hi = d.hi
        /\ c.values = d.values /\ c.bloom = d.bloom
    BY DEF Stats
  <2> HIDE DEF c
  <2>3. IsRange(c.lo, c.hi, N) /\ IsRange(lo, hi, M)
    BY <1>2, <2>2
  <2>4. Differ(Widen(c, lo, hi), c, c.type, N \union M)
    BY <2>2, <2>3, WidenRange
  <2> QED BY <1>2, <2>1, <2>2, <2>4 DEF Differ
<1> QED BY <1>1, <1>2

LEMMA MergedIs ==
  ASSUME NEW f \in Fields, NEW d \in Stats, NEW c \in Stats,
         NEW E \in SUBSET Events, NEW F \in SUBSET Events,
         Describes(d, E, f), Describes(c, F, f)
  PROVE  MergeDimension(d, c) \in Stats /\ Describes(MergeDimension(d, c), E \union F, f)
<1> DEFINE b == [d EXCEPT !.values = d.values \union c.values, !.bloom = d.bloom \union c.bloom]
           t == JoinTypes(d.type, c.type)
<1>1. MergeDimension(d, c) = Typed(b, t, c.lo, c.hi)
  BY DEF MergeDimension
<1>2. /\ b \in Stats /\ b.lo = d.lo /\ b.hi = d.hi
      /\ b.values = d.values \union c.values /\ b.bloom = d.bloom \union c.bloom
  BY DEF Stats
<1>3. /\ Ranks(E, f) \subseteq Int /\ Ranks(F, f) \subseteq Int
      /\ Kinds(E, f) \subseteq {"num", "str"} /\ Kinds(F, f) \subseteq {"num", "str"}
  BY FoundTypes
<1>4. /\ d.type = TypeOfAll(f, Kinds(E, f)) /\ c.type = TypeOfAll(f, Kinds(F, f))
  BY DEF Describes, Kinds
<1>5. /\ t = TypeOfAll(f, Kinds(E, f) \union Kinds(F, f)) /\ t \in Types
      /\ t # "mixed" => d.type # "mixed" /\ c.type # "mixed"
  BY <1>3, <1>4, TypesJoin
<1>6. t # "mixed" => IsRange(b.lo, b.hi, Ranks(E, f)) /\ IsRange(c.lo, c.hi, Ranks(F, f))
  BY <1>2, <1>5 DEF Describes
<1> HIDE DEF b, t
<1> DEFINE r == Typed(b, t, c.lo, c.hi)
<1> DEFINE A == Ranks(E, f)
           B == Ranks(F, f)
<1>a. A \in SUBSET Int /\ B \in SUBSET Int
  BY <1>3
<1> HIDE DEF A, B
<1>b. t # "mixed" => IsRange(b.lo, b.hi, A) /\ IsRange(c.lo, c.hi, B)
  BY <1>6 DEF A, B
<1>c. Differ(r, b, t, IF t = "mixed" THEN {} ELSE A \union B)
  BY <1>2, <1>5, <1>a, <1>b, TypedRange
<1> HIDE DEF r
<1>7. /\ r \in Stats /\ r.type = t /\ r.values = b.values /\ r.bloom = b.bloom
      /\ IsRange(r.lo, r.hi, IF t = "mixed" THEN {} ELSE Ranks(E, f) \union Ranks(F, f))
  BY <1>c DEF Differ, A, B
<1>8. r.values = IF f \in Extra \union {"dur"} THEN {} ELSE Ranks(E, f) \union Ranks(F, f)
  BY <1>2, <1>7 DEF Describes
<1>9. r.bloom = IF f = "dur" THEN {} ELSE Ranks(E, f) \union Ranks(F, f)
  BY <1>2, <1>7 DEF Describes
<1>10. Describes(r, E \union F, f)
  BY <1>5, <1>7, <1>8, <1>9, Together
<1> QED BY <1>1, <1>7, <1>10 DEF r

\* What one event adds.
LEMMA OfOne ==
  ASSUME NEW e \in Events, NEW f \in Fields
  PROVE  /\ e[f] = Absent => /\ Kinds({e}, f) = {}
                             /\ Ranks({e}, f) = IF f = "dur" THEN {0} ELSE {}
         /\ e[f] # Absent => /\ Kinds({e}, f) = {e[f].kind}
                             /\ Ranks({e}, f) = {e[f].v}
<1>1. CASE e[f] = Absent
  <2>1. Found({e}, f) = {}
    BY <1>1 DEF Found
  <2>2. \E x \in {e} : x[f] = Absent
    BY <1>1
  <2> QED BY <1>1, <2>1, <2>2 DEF Kinds, Ranks
<1>2. CASE e[f] # Absent
  <2>1. Found({e}, f) = {e[f]}
    BY <1>2 DEF Found
  <2>2. ~ \E x \in {e} : x[f] = Absent
    BY <1>2
  <2> QED BY <1>2, <2>1, <2>2 DEF Kinds, Ranks
<1> QED BY <1>1, <1>2

LEMMA PointRange ==
  ASSUME NEW n \in Int
  PROVE  IsRange(n, n, {n})
BY DEF IsRange

\* The type of a fixed dimension says nothing of its events.
LEMMA FixedType ==
  ASSUME NEW f \in Fields, f \notin Extra, NEW K, NEW L
  PROVE  TypeOfAll(f, K) = TypeOfAll(f, L) /\ TypeOfAll(f, K) # "mixed"
BY DEF TypeOfAll

\* d are the statistics of E, of one dimension.
Describing(d, E, f) == d \in Stats /\ Describes(d, E, f)

LEMMA ObservedDuration ==
  ASSUME NEW f \in Fields, f = "dur", NEW E \in SUBSET Events, NEW e \in Events,
         NEW d, Describing(d, E, f)
  PROVE  Describing(ObserveRangeOnly(d, e[f]), E \union {e}, f)
<1> DEFINE n == IF e[f] = Absent THEN 0 ELSE e[f].v
           A == Ranks(E, f)
           B == Ranks({e}, f)
           r == Widen(d, n, n)
<1>1. f \notin Extra
  BY PrunerAssumption
<1>2. A \in SUBSET Int /\ B \in SUBSET Int
  BY FoundTypes
<1>3. B = {n}
  BY OfOne
<1>4. d \in Stats /\ d.type # "mixed" /\ d.values = {} /\ d.bloom = {}
      /\ d.type = TypeOfAll(f, Kinds(E, f) \union Kinds({e}, f))
  BY <1>1, FixedType DEF Describing, Describes
<1>5. IsRange(d.lo, d.hi, A)
  BY <1>4 DEF Describing, Describes
<1>6. IsRange(n, n, B)
  BY <1>2, <1>3, PointRange
<1>7. ObserveRangeOnly(d, e[f]) = r
  BY DEF ObserveRangeOnly
<1> HIDE DEF n, A, B
<1>8. Differ(r, d, d.type, A \union B)
  BY <1>2, <1>4, <1>5, <1>6, WidenRange
<1> HIDE DEF r
<1>9. r.type = d.type /\ r.values = {} /\ r.bloom = {} /\ IsRange(r.lo, r.hi, A \union B)
      /\ r \in Stats
  BY <1>4, <1>8 DEF Differ
<1>10. IsRange(r.lo, r.hi, IF r.type = "mixed" THEN {} ELSE Ranks(E, f) \union Ranks({e}, f))
  BY <1>4, <1>9 DEF A, B
<1>11. Describes(r, E \union {e}, f)
  BY <1>1, <1>4, <1>9, <1>10, Together
<1> QED BY <1>7, <1>9, <1>11 DEF Describing

LEMMA NothingObserved ==
  ASSUME NEW f \in Fields, NEW E \in SUBSET Events, NEW F \in SUBSET Events,
         Ranks(F, f) = {}, Kinds(F, f) = {}, NEW d, Describing(d, E, f)
  PROVE  Describing(d, E \union F, f)
<1>1. Kinds(E, f) \union Kinds(F, f) = Kinds(E, f) /\ Ranks(E, f) \union Ranks(F, f) = Ranks(E, f)
  OBVIOUS
<1>2. d.type = TypeOfAll(f, Kinds(E, f) \union Kinds(F, f))
  BY <1>1 DEF Describing, Describes, Kinds
<1>3. d.values = IF f \in Extra \union {"dur"} THEN {} ELSE Ranks(E, f) \union Ranks(F, f)
  BY <1>1 DEF Describing, Describes
<1>4. d.bloom = IF f = "dur" THEN {} ELSE Ranks(E, f) \union Ranks(F, f)
  BY <1>1 DEF Describing, Describes
<1>5. IsRange(d.lo, d.hi, IF d.type = "mixed" THEN {} ELSE Ranks(E, f) \union Ranks(F, f))
  BY <1>1 DEF Describing, Describes
<1>6. Describes(d, E \union F, f)
  BY <1>2, <1>3, <1>4, <1>5, Together
<1> QED BY <1>6 DEF Describing

LEMMA ObservedExtraIs ==
  ASSUME NEW f \in Extra, f \in Fields, NEW E \in SUBSET Events, NEW e \in Events,
         e[f] # Absent, NEW d, Describing(d, E, f)
  PROVE  Describing(ObserveExtra(d, e[f]), E \union {e}, f)
<1> DEFINE n == e[f].v
           A == Ranks(E, f)
           B == Ranks({e}, f)
           b == [d EXCEPT !.bloom = d.bloom \union {n}]
           t == JoinTypes(d.type, TypeOf(e[f]))
           r == Typed(b, t, n, n)
<1>0. f # "dur" /\ d \in Stats
  BY PrunerAssumption DEF Describing
<1>1. A \in SUBSET Int /\ B \in SUBSET Int /\ B = {n} /\ Kinds({e}, f) = {e[f].kind}
  <2>1. B = {n} /\ Kinds({e}, f) = {e[f].kind}
    BY OfOne
  <2>2. A \in SUBSET Int /\ B \in SUBSET Int
    BY FoundTypes
  <2> QED BY <2>1, <2>2
<1>2. Kinds(E, f) \in SUBSET {"num", "str"} /\ Kinds({e}, f) \in SUBSET {"num", "str"}
  BY FoundTypes
<1>3. TypeOf(e[f]) = TypeOfAll(f, Kinds({e}, f))
  <2>1. e[f].kind \in {"num", "str"}
    BY <1>1, <1>2
  <2> QED BY <1>1, <2>1 DEF TypeOf, TypeOfAll
<1>4. d.type = TypeOfAll(f, Kinds(E, f))
  BY DEF Describing, Describes, Kinds
<1>5. t = TypeOfAll(f, Kinds(E, f) \union Kinds({e}, f))
  BY <1>2, <1>3, <1>4, TypesJoin
<1>t. t \in Types
  <2>1. \A K : TypeOfAll(f, K) \in Types
    BY DEF TypeOfAll, Types
  <2> QED BY <1>5, <2>1
<1>m. t # "mixed" => d.type # "mixed"
  BY <1>2, <1>4, <1>5, TypesJoin
<1> HIDE DEF t
<1>6. d.values = {} /\ d.bloom = A
  BY <1>0 DEF Describing, Describes
<1>7. b \in Stats /\ b.lo = d.lo /\ b.hi = d.hi /\ b.values = {} /\ b.bloom = A \union B
  BY <1>0, <1>1, <1>6 DEF Stats
<1>8. t # "mixed" => IsRange(d.lo, d.hi, A)
  BY <1>m DEF Describing, Describes
<1>9. t # "mixed" => IsRange(b.lo, b.hi, A) /\ IsRange(n, n, B)
  <2>1. IsRange(n, n, B)
    BY <1>1, PointRange
  <2> HIDE DEF b, A, B, n, t
  <2> QED BY <2>1, <1>7, <1>8
<1>10. ObserveExtra(d, e[f]) = r
  BY DEF ObserveExtra, t
<1>i. n \in Int /\ A \in SUBSET Int /\ B \in SUBSET Int
  BY <1>1
<1> HIDE DEF n, A, B, b
<1>11. Differ(r, b, t, IF t = "mixed" THEN {} ELSE A \union B)
  BY <1>t, <1>i, <1>7, <1>9, TypedRange
<1> HIDE DEF r
<1>12. r \in Stats /\ r.type = t /\ r.values = {} /\ r.bloom = A \union B
       /\ IsRange(r.lo, r.hi, IF t = "mixed" THEN {} ELSE A \union B)
  BY <1>7, <1>11 DEF Differ
<1>13. IsRange(r.lo, r.hi, IF r.type = "mixed" THEN {} ELSE Ranks(E, f) \union Ranks({e}, f))
  BY <1>12 DEF A, B
<1>14. r.bloom = IF f = "dur" THEN {} ELSE Ranks(E, f) \union Ranks({e}, f)
  BY <1>0, <1>12 DEF A, B
<1>15. r.values = IF f \in Extra \union {"dur"} THEN {} ELSE Ranks(E, f) \union Ranks({e}, f)
  BY <1>12
<1>16. r.type = TypeOfAll(f, Kinds(E, f) \union Kinds({e}, f))
  BY <1>5, <1>12
<1>17. Describes(r, E \union {e}, f)
  BY <1>13, <1>14, <1>15, <1>16, Together
<1> QED BY <1>10, <1>12, <1>17 DEF Describing

LEMMA ObservedFixedIs ==
  ASSUME NEW f \in Fields, f \notin Extra \union {"dur"}, NEW E \in SUBSET Events,
         NEW e \in Events, e[f] # Absent, NEW d, Describing(d, E, f)
  PROVE  Describing(ObserveFixed(d, e[f]), E \union {e}, f)
<1> DEFINE n == e[f].v
           A == Ranks(E, f)
           B == Ranks({e}, f)
           b == [d EXCEPT !.values = d.values \union {n}, !.bloom = d.bloom \union {n}]
           r == Widen(b, n, n)
<1>1. A \in SUBSET Int /\ B \in SUBSET Int /\ B = {n}
  <2>1. B = {n}
    BY OfOne
  <2>2. A \in SUBSET Int /\ B \in SUBSET Int
    BY FoundTypes
  <2> QED BY <2>1, <2>2
<1>2. d \in Stats /\ d.type # "mixed" /\ d.values = A /\ d.bloom = A
      /\ d.type = TypeOfAll(f, Kinds(E, f) \union Kinds({e}, f))
  BY FixedType DEF Describing, Describes
<1>3. IsRange(d.lo, d.hi, A)
  BY <1>2 DEF Describing, Describes
<1>4. IsRange(n, n, B)
  BY <1>1, PointRange
<1>5. b \in Stats /\ b.lo = d.lo /\ b.hi = d.hi /\ b.type = d.type
      /\ b.values = A \union B /\ b.bloom = A \union B
  BY <1>1, <1>2 DEF Stats
<1>6. ObserveFixed(d, e[f]) = r
  BY DEF ObserveFixed
<1> HIDE DEF n, A, B, b
<1>7. IsRange(b.lo, b.hi, A)
  BY <1>3, <1>5
<1>8. Differ(r, b, b.type, A \union B)
  BY <1>1, <1>4, <1>5, <1>7, WidenRange
<1> HIDE DEF r
<1>9. r \in Stats /\ r.type = d.type /\ r.values = A \union B /\ r.bloom = A \union B
      /\ IsRange(r.lo, r.hi, A \union B)
  BY <1>5, <1>8 DEF Differ
<1>10. IsRange(r.lo, r.hi, IF r.type = "mixed" THEN {} ELSE Ranks(E, f) \union Ranks({e}, f))
  BY <1>2, <1>9 DEF A, B
<1>11. r.bloom = IF f = "dur" THEN {} ELSE Ranks(E, f) \union Ranks({e}, f)
  BY <1>9 DEF A, B
<1>12. r.values = IF f \in Extra \union {"dur"} THEN {} ELSE Ranks(E, f) \union Ranks({e}, f)
  BY <1>9 DEF A, B
<1>13. Describes(r, E \union {e}, f)
  BY <1>2, <1>9, <1>10, <1>11, <1>12, Together
<1> QED BY <1>6, <1>9, <1>13 DEF Describing

\* The statistics of a slice, event by event; of a chunk, slice by slice.
Summarises(s, E) ==
  /\ s \in [Fields -> Stats] /\ E \in SUBSET Events
  /\ \A f \in Fields : Describing(s[f], E, f)

LEMMA ObservedIs ==
  ASSUME NEW s, NEW E, Summarises(s, E), NEW e \in Events
  PROVE  Summarises(Observed(s, e), E \union {e})
<1>1. ASSUME NEW f \in Fields PROVE Describing(Observed(s, e)[f], E \union {e}, f)
  <2>1. Describing(s[f], E, f) /\ E \in SUBSET Events
    BY DEF Summarises
  <2>2. CASE f = "dur"
    <3>1. Observed(s, e)[f] = ObserveRangeOnly(s[f], e[f])
      BY <2>2, PrunerAssumption DEF Observed
    <3> QED BY <2>1, <2>2, <3>1, ObservedDuration
  <2>3. CASE f # "dur" /\ e[f] = Absent
    <3>1. Observed(s, e)[f] = s[f]
      BY <2>3 DEF Observed
    <3>2. Kinds({e}, f) = {} /\ Ranks({e}, f) = {}
      BY <2>3, OfOne
    <3> QED BY <2>1, <3>1, <3>2, NothingObserved
  <2>4. CASE f # "dur" /\ e[f] # Absent /\ f \in Extra
    <3>1. Observed(s, e)[f] = ObserveExtra(s[f], e[f])
      BY <2>4 DEF Observed
    <3> QED BY <2>1, <2>4, <3>1, ObservedExtraIs
  <2>5. CASE f # "dur" /\ e[f] # Absent /\ f \notin Extra
    <3>1. Observed(s, e)[f] = ObserveFixed(s[f], e[f])
      BY <2>5 DEF Observed
    <3>2. f \notin Extra \union {"dur"}
      BY <2>5
    <3> QED BY <2>1, <2>5, <3>1, <3>2, ObservedFixedIs
  <2> QED BY <2>2, <2>3, <2>4, <2>5
<1>2. Observed(s, e) \in [Fields -> Stats]
  <2>1. Observed(s, e) = [f \in Fields |-> Observed(s, e)[f]]
    BY DEF Observed
  <2>2. \A f \in Fields : Observed(s, e)[f] \in Stats
    BY <1>1 DEF Describing
  <2> QED BY <2>1, <2>2
<1>3. E \union {e} \in SUBSET Events
  BY DEF Summarises
<1> QED BY <1>1, <1>2, <1>3 DEF Summarises

LEMMA MergedAre ==
  ASSUME NEW s, NEW E, Summarises(s, E), NEW t, NEW F, Summarises(t, F)
  PROVE  Summarises(Merged(s, t), E \union F)
<1>1. ASSUME NEW f \in Fields PROVE Describing(Merged(s, t)[f], E \union F, f)
  <2>1. /\ s[f] \in Stats /\ Describes(s[f], E, f) /\ E \in SUBSET Events
        /\ t[f] \in Stats /\ Describes(t[f], F, f) /\ F \in SUBSET Events
    BY DEF Summarises, Describing
  <2>2. Merged(s, t)[f] = MergeDimension(s[f], t[f])
    BY DEF Merged
  <2>3. MergeDimension(s[f], t[f]) \in Stats /\ Describes(MergeDimension(s[f], t[f]), E \union F, f)
    BY <2>1, MergedIs
  <2> QED BY <2>2, <2>3 DEF Describing
<1>2. Merged(s, t) \in [Fields -> Stats]
  <2>1. Merged(s, t) = [f \in Fields |-> Merged(s, t)[f]]
    BY DEF Merged
  <2>2. \A f \in Fields : Merged(s, t)[f] \in Stats
    BY <1>1 DEF Describing
  <2> QED BY <2>1, <2>2
<1>3. E \union F \in SUBSET Events
  BY DEF Summarises
<1> QED BY <1>1, <1>2, <1>3 DEF Summarises

\* Statistics of nothing are those of no event, and of no event only.
LEMMA NoStatsAre ==
  Summarises(NoStats, {})
<1>1. ASSUME NEW f \in Fields PROVE Describing(NoStats[f], {}, f)
  <2>1. Found({}, f) = {} /\ Ranks({}, f) = {} /\ {x.kind : x \in Found({}, f)} = {}
    BY DEF Found, Ranks
  <2>2. /\ NoStats[f] \in Stats /\ NoStats[f].lo = None /\ NoStats[f].hi = None
        /\ NoStats[f].values = {} /\ NoStats[f].bloom = {}
    BY DEF NoStats, Dimension, Stats, Types
  <2>3. NoStats[f].type = TypeOfAll(f, {})
    <3>1. f \in Extra => f # "name"
      BY PrunerAssumption
    <3> QED BY <3>1 DEF NoStats, Dimension, TypeOfAll
  <2>4. IsRange(None, None, {})
    BY DEF IsRange
  <2> QED BY <2>1, <2>2, <2>3, <2>4 DEF Describing, Describes
<1>2. NoStats \in [Fields -> Stats]
  <2>1. NoStats = [f \in Fields |-> NoStats[f]]
    BY DEF NoStats
  <2> QED BY <1>1, <2>1 DEF Describing
<1> QED BY <1>1, <1>2 DEF Summarises

LEMMA NothingFound ==
  ASSUME NEW F, Summarises(NoStats, F), NEW f \in Fields
  PROVE  Ranks(F, f) = {} /\ Kinds(F, f) = {}
<1>1. Describes(NoStats[f], F, f) /\ F \in SUBSET Events
  BY DEF Summarises, Describing
<1>2. /\ NoStats[f].lo = None /\ NoStats[f].type # "mixed"
      /\ NoStats[f].bloom = {}
  BY DEF NoStats, Dimension
<1>3. Ranks(F, f) = {}
  <2>1. IsRange(None, NoStats[f].hi, Ranks(F, f))
    BY <1>1, <1>2 DEF Describes
  <2>2. Ranks(F, f) \subseteq Int /\ None \notin Int
    BY <1>1, FoundTypes, PrunerAssumption
  <2> QED BY <2>1, <2>2 DEF IsRange
<1>4. Found(F, f) = {}
  BY <1>3 DEF Ranks
<1> QED BY <1>3, <1>4 DEF Kinds

LEMMA SealedAre ==
  ASSUME NEW s, NEW E, Summarises(s, E), NEW F, Summarises(NoStats, F)
  PROVE  Summarises(s, E \union F)
<1>1. ASSUME NEW f \in Fields PROVE Describing(s[f], E \union F, f)
  <2>1. Describing(s[f], E, f) /\ E \in SUBSET Events /\ F \in SUBSET Events
    BY DEF Summarises
  <2>2. Ranks(F, f) = {} /\ Kinds(F, f) = {}
    BY NothingFound
  <2> QED BY <2>1, <2>2, NothingObserved
<1> QED BY <1>1 DEF Summarises

-----------------------------------------------------------------------------
(* Every chunk of the index, the open one included *)

OfChunk(E, F) == rows = E \union F /\ Summarises(chunk, E) /\ Summarises(slice, F)

Sliced ==
  /\ index \in Seq([Fields -> Stats]) /\ file \in Seq(SUBSET Events)
  /\ Len(file) = Len(index)
  /\ \A i \in All : Summarises(index[i], file[i])
  /\ \E E, F : OfChunk(E, F)

LEMMA InitSliced ==
  Init => Sliced
<1> SUFFICES ASSUME Init PROVE Sliced
  OBVIOUS
<1>1. OfChunk({}, {})
  BY NoStatsAre DEF Init, OfChunk
<1> QED BY <1>1 DEF Init, Sliced, All

LEMMA NextSliced ==
  Sliced /\ [Next]_vars => Sliced'
<1> SUFFICES ASSUME Sliced, [Next]_vars PROVE Sliced'
  OBVIOUS
<1>1. PICK E, F : OfChunk(E, F)
  BY DEF Sliced
<1>2. CASE MergeSlice
  <2>1. Summarises(chunk', E \union F)
    BY <1>1, <1>2, MergedAre DEF MergeSlice, OfChunk
  <2>2. Summarises(slice', {})
    BY <1>2, NoStatsAre DEF MergeSlice
  <2>3. OfChunk(E \union F, {})'
    BY <1>1, <1>2, <2>1, <2>2 DEF OfChunk, MergeSlice
  <2> QED BY <1>2, <2>3 DEF Sliced, MergeSlice, All
<1>3. CASE Seal
  <2>1. Summarises(chunk, rows) /\ chunk \in [Fields -> Stats] /\ rows \in SUBSET Events
    <3>1. Summarises(chunk, E \union F)
      BY <1>1, <1>3, SealedAre DEF OfChunk, Seal
    <3> QED BY <1>1, <3>1 DEF OfChunk, Summarises
  <2>2. index' = Append(index, chunk) /\ file' = Append(file, rows)
    BY <1>3 DEF Seal
  <2>3. /\ index' \in Seq([Fields -> Stats]) /\ file' \in Seq(SUBSET Events)
        /\ Len(index') = Len(index) + 1 /\ Len(file') = Len(index) + 1
    BY <2>1, <2>2 DEF Sliced
  <2>4. ASSUME NEW i \in 1..Len(index') PROVE Summarises(index'[i], file'[i])
    <3>1. CASE i \in 1..Len(index)
      <4>1. index'[i] = index[i] /\ file'[i] = file[i]
        BY <2>1, <2>2, <3>1 DEF Sliced
      <4> QED BY <3>1, <4>1 DEF Sliced, All
    <3>2. CASE i = Len(index) + 1
      <4>1. index'[i] = chunk /\ file'[i] = rows
        BY <2>1, <2>2, <3>2 DEF Sliced
      <4> QED BY <2>1, <4>1
    <3>3. Len(index) \in Nat
      BY DEF Sliced
    <3> QED BY <2>3, <3>1, <3>2, <3>3
  <2>5. OfChunk({}, {})'
    BY <1>3, NoStatsAre DEF Seal, OfChunk
  <2> QED BY <2>3, <2>4, <2>5 DEF Sliced, All
<1>4. ASSUME NEW e \in Events, Observe(e) PROVE Sliced'
  <2>1. Summarises(slice', F \union {e})
    BY <1>1, <1>4, ObservedIs DEF Observe, OfChunk
  <2>2. OfChunk(E, F \union {e})'
    BY <1>1, <1>4, <2>1 DEF OfChunk, Observe
  <2> QED BY <1>4, <2>2 DEF Sliced, Observe, All
<1>5. CASE UNCHANGED vars
  <2>1. OfChunk(E, F)'
    BY <1>1, <1>5 DEF OfChunk, vars
  <2> QED BY <1>5, <2>1 DEF Sliced, vars, All
<1> QED BY <1>2, <1>3, <1>4, <1>5 DEF Next

LEMMA AlwaysSliced ==
  Spec => []Sliced
BY InitSliced, NextSliced, PTL DEF Spec

\* How a chunk was cut into slices, and in which order its events came, never
\* shows in the index: merge_dimension and the observers of bloom_core.cpp
\* compute the statistics of the set of the events.
THEOREM SlicesDoNotShow == Spec => []SlicingIsInvisible
<1>1. Sliced => SlicingIsInvisible
  BY DEF Sliced, SlicingIsInvisible, Summarises, Describing
<1> QED BY <1>1, AlwaysSliced, PTL

-----------------------------------------------------------------------------
(* What an event of a chunk leaves in the statistics *)

HasValues(f) == f \notin Extra \union {"dur"}
Unsigned(f)  == f \notin Extra \union {"name"}
Fits(f, n)   == n \in Int /\ (Unsigned(f) => n \in 0..(Wide - 1))

Known(i, f, n) ==
  /\ Fits(f, n)
  /\ IF HasValues(f) THEN n \in index[i][f].values ELSE index[i][f].values = {}
  /\ f # "dur" => n \in index[i][f].bloom
  /\ index[i][f].lo # None =>
       /\ Fits(f, index[i][f].lo) /\ Fits(f, index[i][f].hi)
       /\ index[i][f].lo <= n /\ n <= index[i][f].hi
  /\ index[i][f].type = "uint" <=> Unsigned(f)

LEMMA FitsAll ==
  ASSUME NEW E \in SUBSET Events, NEW f \in Fields, NEW n \in Ranks(E, f)
  PROVE  Fits(f, n)
<1>1. n \in Int
  BY FoundTypes
<1>2. ASSUME Unsigned(f) PROVE n \in 0..(Wide - 1)
  <2>1. CASE n \in {x.v : x \in Found(E, f)}
    <3>1. PICK e \in E : e[f] # Absent /\ n = e[f].v
      BY <2>1 DEF Found
    <3>2. f \in Fields \ Extra /\ f # "name" /\ e \in Events
      BY <1>2 DEF Unsigned
    <3> QED BY <3>1, <3>2, EventsAssumption
  <2>2. CASE n = 0
    BY <2>2, PrunerAssumption
  <2> QED BY <2>1, <2>2 DEF Ranks
<1> QED BY <1>1, <1>2 DEF Fits

LEMMA EventIsKnown ==
  ASSUME Sliced, NEW i \in All, NEW f \in Fields, NEW e \in file[i], e[f] # Absent
  PROVE  Known(i, f, e[f].v)
<1> DEFINE E == file[i]
           d == index[i][f]
           n == e[f].v
           N == Ranks(E, f)
<1>1. Summarises(index[i], E)
  BY DEF Sliced
<1>2. Describes(d, E, f) /\ E \in SUBSET Events
  BY <1>1 DEF Summarises, Describing
<1>3. n \in N
  BY DEF Ranks, Found
<1>4. \A m \in N : Fits(f, m)
  BY <1>2, FitsAll
<1> HIDE DEF d, n, N
<1>5. d.values = (IF HasValues(f) THEN N ELSE {}) /\ (f # "dur" => d.bloom = N)
  BY <1>2 DEF Describes, HasValues, N
<1>6. d.lo # None => IsRange(d.lo, d.hi, N)
  <2>1. IsRange(d.lo, d.hi, IF d.type = "mixed" THEN {} ELSE N)
    BY <1>2 DEF Describes, N
  <2>2. CASE d.type = "mixed"
    BY <2>1, <2>2 DEF IsRange
  <2> QED BY <2>1, <2>2
<1>7. d.lo # None => /\ Fits(f, d.lo) /\ Fits(f, d.hi)
                     /\ d.lo <= n /\ n <= d.hi
  BY <1>3, <1>4, <1>6 DEF IsRange
<1>8. d.type = "uint" <=> Unsigned(f)
  <2>1. \A K : TypeOfAll(f, K) = "uint" <=> Unsigned(f)
    BY PrunerAssumption DEF TypeOfAll, Unsigned
  <2> QED BY <1>2, <2>1 DEF Describes
<1>9. n \in Int
  BY <1>3, <1>4 DEF Fits
<1> QED BY <1>3, <1>4, <1>5, <1>7, <1>8 DEF Known, d, n

LEMMA DictHas ==
  ASSUME NEW i, NEW f, NEW n, Known(i, f, n), HasDict(i, f)
  PROVE  HasValues(f) /\ n \in index[i][f].values
<1>1. index[i][f].values # {}
  <2>1. Cardinality({}) = 0
    BY FS_EmptySet
  <2>2. 0 \notin 1..ValueCountsCap
    BY PrunerAssumption
  <2> QED BY <2>1, <2>2 DEF HasDict
<1> QED BY <1>1 DEF Known

LEMMA EqualMayMatch ==
  ASSUME NEW i, NEW f, NEW n, Known(i, f, n)
  PROVE  MayEqual(i, f, n)
<1>1. CASE HasDict(i, f)
  BY <1>1, DictHas DEF MayEqual
<1>2. CASE ~HasDict(i, f)
  BY <1>2 DEF MayEqual, BloomMayContain, HasBloom, Known
<1> QED BY <1>1, <1>2

LEMMA RankIs ==
  ASSUME NEW i, NEW f, NEW n, Known(i, f, n), NEW m, Fits(f, m)
  PROVE  Rank(i, f, m) = m
<1>1. CASE Unsigned(f)
  <2>1. m \in 0..(Wide - 1) /\ Wide \in Nat \ {0}
    BY <1>1, PrunerAssumption DEF Fits
  <2>2. m % Wide = m
    BY <2>1
  <2> QED BY <2>2 DEF Rank
<1>2. CASE ~Unsigned(f)
  BY <1>2 DEF Rank, Known
<1> QED BY <1>1, <1>2

Ordered == {"GT", "GE", "LT", "LE"}

LEMMA RangeHolds ==
  ASSUME NEW i, NEW f, NEW n, Known(i, f, n), NEW m, Fits(f, m), NEW c \in Ordered
  PROVE  /\ Holds(n, c, m) => RangeMayMatch(i, f, c, m)
         /\ RangeAllMatch(i, f, c, m) => Holds(n, c, m)
<1> DEFINE d == index[i][f]
<1>1. CASE d.lo = None
  BY <1>1 DEF RangeMayMatch, RangeAllMatch
<1>2. CASE d.lo # None
  <2>1. Fits(f, d.lo) /\ Fits(f, d.hi) /\ d.lo <= n /\ n <= d.hi
    BY <1>2 DEF Known
  <2>2. Rank(i, f, d.lo) = d.lo /\ Rank(i, f, d.hi) = d.hi /\ Rank(i, f, m) = m
    BY <2>1, RankIs
  <2>3. d.lo \in Int /\ d.hi \in Int /\ n \in Int /\ m \in Int
    BY <2>1 DEF Fits, Known
  <2> DEFINE lo == d.lo
             hi == d.hi
  <2>4. /\ RangeMayMatch(i, f, c, m) <=> Holds(IF c \in {"GT", "GE"} THEN hi ELSE lo, c, m)
        /\ RangeAllMatch(i, f, c, m) <=> Holds(IF c \in {"GT", "GE"} THEN lo ELSE hi, c, m)
    BY <1>2, <2>2 DEF RangeMayMatch, RangeAllMatch
  <2>5. lo \in Int /\ hi \in Int /\ lo <= n /\ n <= hi
    BY <2>1, <2>3
  <2> HIDE DEF lo, hi
  <2> QED BY <2>3, <2>4, <2>5 DEF Ordered, Holds
<1> QED BY <1>1, <1>2

-----------------------------------------------------------------------------
(* The tests *)

LEMMA LeafMeaning ==
  ASSUME FiniteTrees, NEW q \in Queries, NEW e \in Events
  PROVE  /\ q.op = "compare" =>
              (e \in Meaning[q] <=> e[q.field] # Absent /\ Compares(e[q.field], q.cmp, q.value))
         /\ q.op = "in" => (e \in Meaning[q] <=> e[q.field] \in q.values)
         /\ q.op = "notin" =>
              (e \in Meaning[q] <=> e[q.field] # Absent /\ e[q.field] \notin q.values)
BY MeaningExists DEF MeaningOf

\* An event that passes a test keeps its chunk.
LEMMA CompareKeeps ==
  ASSUME Sliced, LiteralsFit, NEW i \in All, NEW e \in file[i], NEW q \in Queries,
         q.op = "compare", e[q.field] # Absent, Compares(e[q.field], q.cmp, q.value)
  PROVE  i \in EvalCompare(q)
<1> DEFINE f == q.field
           n == e[f].v
           m == q.value.v
<1>1. f \in Fields /\ q.value \in Values /\ q.cmp \in Comparisons
  BY NodeTypes
<1>2. Known(i, f, n)
  BY <1>1, EventIsKnown
<1>3. e \in Events
  BY DEF Sliced, Summarises
<1>4. m \in Int /\ n \in Int /\ e[f].kind = q.value.kind /\ Holds(n, q.cmp, m)
  BY <1>1, <1>3, FieldTypes, SameValue DEF Compares
<1>5. CASE q.cmp = "EQ"
  <2>1. n = m
    BY <1>4, <1>5 DEF Holds
  <2>2. MayEqual(i, f, m)
    BY <1>2, <2>1, EqualMayMatch
  <2>3. ASSUME f \in Extra PROVE RangeMayMatch(i, f, "GE", m) /\ RangeMayMatch(i, f, "LE", m)
    <3>1. Fits(f, m)
      BY <2>3, <1>4 DEF Fits, Unsigned
    <3>2. Holds(n, "GE", m) /\ Holds(n, "LE", m)
      BY <1>4, <2>1 DEF Holds
    <3> QED BY <1>2, <3>1, <3>2, RangeHolds DEF Ordered
  <2>4. MayMatchCompare(i, q)
    BY <1>5, <2>2, <2>3 DEF MayMatchCompare
  <2>5. f = "name" => i \in NameChunks(m)
    BY <1>2, <2>1, PrunerAssumption DEF Known, HasValues, NameChunks
  <2> QED BY <2>4, <2>5 DEF EvalCompare
<1>6. CASE q.cmp = "NE"
  <2>1. n # m
    BY <1>4, <1>6 DEF Holds
  <2>2. ~(HasDict(i, f) /\ index[i][f].values = {m})
    BY <1>2, <2>1, DictHas
  <2> QED BY <1>6, <2>2 DEF EvalCompare, MayMatchCompare
<1>7. CASE q.cmp \in Ordered
  <2>1. Fits(f, m)
    <3>1. CASE Unsigned(f)
      <4>1. q.value.kind = "num"
        <5>1. f \in Fields \ Extra /\ f # "name"
          BY <1>1, <3>1 DEF Unsigned
        <5>2. e[f].kind = "num"
          BY <1>3, <5>1, EventsAssumption
        <5> QED BY <1>4, <5>2
      <4>2. q.cmp \notin {"EQ", "NE"}
        BY <1>7 DEF Ordered
      <4>3. m \in 0..(Wide - 1)
        BY <3>1, <4>1, <4>2 DEF LiteralsFit, Unsigned
      <4> QED BY <1>4, <4>3 DEF Fits
    <3>2. CASE ~Unsigned(f)
      BY <1>4, <3>2 DEF Fits
    <3> QED BY <3>1, <3>2
  <2>2. RangeMayMatch(i, f, q.cmp, m)
    BY <1>2, <1>4, <1>7, <2>1, RangeHolds
  <2> QED BY <1>7, <2>2 DEF EvalCompare, MayMatchCompare, Ordered
<1> QED BY <1>1, <1>5, <1>6, <1>7 DEF Comparisons, Ordered

LEMMA InKeeps ==
  ASSUME Sliced, NEW i \in All, NEW e \in file[i], NEW q \in Queries,
         q.op = "in", e[q.field] \in q.values
  PROVE  i \in EvalIn(q)
<1> DEFINE f == q.field
           x == e[f]
           named == UNION {NameChunks(y.v) : y \in q.values}
<1>1. f \in Fields /\ q.values \subseteq Values
  BY NodeTypes
<1>2. x # Absent
  BY <1>1, ValuesAssumption
<1>3. Known(i, f, x.v)
  BY <1>1, <1>2, EventIsKnown
<1>4. MayEqual(i, f, x.v)
  BY <1>3, EqualMayMatch
<1>5. ASSUME f = "name" PROVE i \in named
  <2>1. i \in NameChunks(x.v)
    BY <1>3, <1>5, PrunerAssumption DEF Known, HasValues, NameChunks
  <2> HIDE DEF x
  <2>2. x \in q.values
    BY DEF x
  <2> QED BY <2>1, <2>2
<1>6. EvalIn(q) = IF f = "name" /\ named # {} THEN named
                  ELSE {j \in All : \E y \in q.values : MayEqual(j, f, y.v)}
  BY DEF EvalIn
<1> HIDE DEF named
<1> QED BY <1>4, <1>5, <1>6

LEMMA NotInKeeps ==
  ASSUME Sliced, ListsFit, NEW i \in All, NEW e \in file[i], NEW q \in Queries,
         q.op = "notin", e[q.field] # Absent, e[q.field] \notin q.values
  PROVE  i \in EvalNotIn(q)
<1> DEFINE f == q.field
           x == e[f]
<1>1. f \in Fields /\ q.values \subseteq Values
  BY NodeTypes
<1>2. Known(i, f, x.v)
  BY <1>1, EventIsKnown
<1>3. e \in Events
  BY DEF Sliced, Summarises
<1>4. ASSUME HasDict(i, f) PROVE x.v \notin {y.v : y \in q.values}
  <2>1. f \notin Extra \union {"dur"}
    BY <1>2, <1>4, DictHas DEF HasValues
  <2>2. \A y \in q.values : y.kind = IF f = "name" THEN "str" ELSE "num"
    BY <2>1 DEF ListsFit
  <2>3. x.kind = IF f = "name" THEN "str" ELSE "num"
    BY <1>1, <1>3, <2>1, EventsAssumption
  <2>4. x \in Values
    BY <1>1, <1>3, FieldTypes
  <2>5. ASSUME NEW y \in q.values PROVE x.v # y.v
    BY <1>1, <2>2, <2>3, <2>4, SameValue
  <2> QED BY <2>5
<1>5. HasDict(i, f) => x.v \in index[i][f].values
  BY <1>2, DictHas
<1> HIDE DEF x
<1> QED BY <1>4, <1>5 DEF EvalNotIn

\* A chunk of which every event is said to pass a firm test.
LEMMA CompareIsRight ==
  ASSUME Sliced, LiteralsFit, NEW i \in All, NEW e \in file[i], NEW q \in Queries,
         q.op = "compare", Firm(q), i \in AllMatchCompare(q)
  PROVE  e[q.field] # Absent /\ Compares(e[q.field], q.cmp, q.value)
<1> DEFINE f == q.field
           n == e[f].v
           m == q.value.v
<1>1. f \in Fields /\ q.value \in Values /\ q.cmp \in Comparisons
  BY NodeTypes
<1>2. e \in Events
  BY DEF Sliced, Summarises
<1>3. e[f] # Absent /\ e[f].kind = q.value.kind
  BY <1>2 DEF Firm
<1>4. Known(i, f, n)
  BY <1>1, <1>3, EventIsKnown
<1>5. m \in Int /\ n \in Int
  BY <1>1, <1>2, <1>3, FieldTypes, SameValue
<1>6. CASE q.cmp = "EQ"
  <2>1. HasDict(i, f) /\ index[i][f].values = {m}
    BY <1>6 DEF AllMatchCompare
  <2>2. n = m
    BY <1>4, <2>1, DictHas
  <2> QED BY <1>3, <1>6, <2>2 DEF Compares, Holds
<1>7. CASE q.cmp = "NE"
  <2>1. HasDict(i, f) /\ m \notin index[i][f].values
    BY <1>7 DEF AllMatchCompare
  <2>2. n # m
    BY <1>4, <2>1, DictHas
  <2> QED BY <1>3, <1>7, <2>2 DEF Compares, Holds
<1>8. CASE q.cmp \in Ordered
  <2>1. RangeAllMatch(i, f, q.cmp, m)
    BY <1>8 DEF AllMatchCompare, Ordered
  <2>2. Fits(f, m)
    <3>1. CASE Unsigned(f)
      <4>1. f \in Fields \ Extra /\ f # "name"
        BY <1>1, <3>1 DEF Unsigned
      <4>2. q.value.kind = "num"
        BY <1>2, <1>3, <4>1, EventsAssumption
      <4>3. q.cmp \notin {"EQ", "NE"}
        BY <1>8 DEF Ordered
      <4>4. m \in 0..(Wide - 1)
        BY <3>1, <4>2, <4>3 DEF LiteralsFit, Unsigned
      <4> QED BY <1>5, <4>4 DEF Fits
    <3>2. CASE ~Unsigned(f)
      BY <1>5, <3>2 DEF Fits
    <3> QED BY <3>1, <3>2
  <2>3. Holds(n, q.cmp, m)
    BY <1>4, <1>8, <2>1, <2>2, RangeHolds
  <2> QED BY <1>3, <2>3 DEF Compares
<1> QED BY <1>1, <1>6, <1>7, <1>8 DEF Comparisons, Ordered

LEMMA InIsRight ==
  ASSUME Sliced, NEW i \in All, NEW e \in file[i], NEW q \in Queries,
         q.op \in {"in", "notin"}, Firm(q), i \in AllMatchIn(q)
  PROVE  /\ e[q.field] # Absent
         /\ q.op = "in" => e[q.field] \in q.values
         /\ q.op = "notin" => e[q.field] \notin q.values
<1> DEFINE f == q.field
           x == e[f]
           wanted == {y.v : y \in q.values}
<1>1. f \in Fields /\ q.values \subseteq Values
  BY NodeTypes
<1>2. e \in Events
  BY DEF Sliced, Summarises
<1>3. x # Absent /\ (q.op = "in" => \A y \in q.values : y.kind = x.kind)
  BY <1>2 DEF Firm
<1>4. x \in Values
  BY <1>1, <1>2, <1>3, FieldTypes
<1>5. Known(i, f, x.v)
  BY <1>1, <1>3, EventIsKnown
<1>6. HasDict(i, f) /\ IF q.op = "in" THEN index[i][f].values \subseteq wanted
                                      ELSE index[i][f].values \intersect wanted = {}
  BY DEF AllMatchIn
<1>7. x.v \in index[i][f].values
  BY <1>5, <1>6, DictHas
<1>8. ASSUME q.op = "in" PROVE x \in q.values
  <2>1. PICK y \in q.values : x.v = y.v
    BY <1>6, <1>7, <1>8
  <2>2. x = y
    BY <1>1, <1>3, <1>4, <1>8, <2>1, SameValue
  <2> QED BY <2>2
<1>9. ASSUME q.op = "notin" PROVE x \notin q.values
  BY <1>6, <1>7, <1>9
<1> QED BY <1>3, <1>8, <1>9

-----------------------------------------------------------------------------
(* The pruner, by the structure of the query *)

Outcomes == [may : SUBSET All, all : SUBSET All]

LEMMA LeavesAreOutcomes ==
  ASSUME NEW q
  PROVE  /\ EvalCompare(q) \subseteq All /\ AllMatchCompare(q) \subseteq All
         /\ EvalIn(q) \subseteq All /\ EvalNotIn(q) \subseteq All /\ AllMatchIn(q) \subseteq All
<1>1. \A n : NameChunks(n) \subseteq All
  BY DEF NameChunks
<1>2. UNION {NameChunks(x.v) : x \in q.values} \subseteq All
  BY <1>1
<1> QED BY <1>1, <1>2 DEF EvalCompare, AllMatchCompare, EvalIn, EvalNotIn, AllMatchIn

LEMMA OutcomesClosed ==
  ASSUME NEW p \in Outcomes, NEW r \in Outcomes
  PROVE  InBoth(p, r) \in Outcomes /\ InEither(p, r) \in Outcomes /\ InNeither(p) \in Outcomes
BY DEF InBoth, InEither, InNeither, Outcomes

PruneOf(q, g) ==
  CASE q.op = "compare" -> [may |-> EvalCompare(q), all |-> AllMatchCompare(q)]
    [] q.op = "in"      -> [may |-> EvalIn(q), all |-> AllMatchIn(q)]
    [] q.op = "notin"   -> [may |-> EvalNotIn(q), all |-> AllMatchIn(q)]
    [] q.op = "match"   -> [may |-> All, all |-> {}]
    [] q.op = "and"     -> InBoth(g[q.left], g[q.right])
    [] q.op = "or"      -> InEither(g[q.left], g[q.right])
    [] OTHER            -> InNeither(g[q.operand])

LEMMA PruneExists ==
  ASSUME FiniteTrees
  PROVE  \A q \in Queries : Prune[q] = PruneOf(q, Prune)
<1> DEFINE V == Outcomes
           F == [p \in Queries \X [Queries -> V] |-> PruneOf(p[1], p[2])]
<1>1. ASSUME NEW q \in Queries, NEW g \in [Queries -> V]
      PROVE  F[<<q, g>>] = PruneOf(q, g) /\ PruneOf(q, g) \in V
  <2>1. <<q, g>> \in Queries \X [Queries -> V]
    OBVIOUS
  <2>2. PruneOf(q, g) \in V
    <3>1. CASE q.op \in {"compare", "in", "notin", "match"}
      BY <3>1, LeavesAreOutcomes DEF PruneOf, Outcomes
    <3>2. CASE q.op \in {"and", "or"}
      <4>1. g[q.left] \in Outcomes /\ g[q.right] \in Outcomes
        BY <3>2, NodeTypes
      <4> QED BY <3>2, <4>1, OutcomesClosed DEF PruneOf
    <3>3. CASE q.op = "not"
      <4>1. g[q.operand] \in Outcomes
        BY <3>3, NodeTypes
      <4> QED BY <3>3, <4>1, OutcomesClosed DEF PruneOf
    <3> QED BY <3>1, <3>2, <3>3, NodeTypes
  <2> QED BY <2>1, <2>2
<1>2. ByOperands(F, V)
  <2>1. F \in [Queries \X [Queries -> V] -> V]
    BY <1>1
  <2>2. ASSUME NEW q \in Queries, NEW g \in [Queries -> V], NEW h \in [Queries -> V],
               q.op \in {"and", "or"} => g[q.left] = h[q.left] /\ g[q.right] = h[q.right],
               q.op = "not" => g[q.operand] = h[q.operand]
        PROVE  F[<<q, g>>] = F[<<q, h>>]
    <3>1. PruneOf(q, g) = PruneOf(q, h)
      BY <2>2, NodeTypes DEF PruneOf
    <3> HIDE DEF F
    <3> QED BY <3>1, <1>1
  <2>3. \E v : v \in V
    <3>1. [may |-> {}, all |-> {}] \in Outcomes
      BY DEF Outcomes
    <3> QED BY <3>1
  <2> HIDE DEF F
  <2> QED BY <2>1, <2>2, <2>3 DEF ByOperands
<1>3. PICK g : Solves(g, F, Queries, V)
  <2> HIDE DEF F, V
  <2> QED BY <1>2, TreeRecursion
<1> DEFINE Eqn(f) == f = [q \in Queries |-> PruneOf(q, f)]
<1>4. Eqn(g)
  <2>1. g \in [Queries -> V] /\ \A q \in Queries : g[q] = F[<<q, g>>]
    BY <1>3 DEF Solves
  <2> HIDE DEF F, V
  <2>2. \A q \in Queries : g[q] = PruneOf(q, g)
    BY <1>1, <2>1
  <2> QED BY <2>1, <2>2
<1>5. Prune = CHOOSE f : Eqn(f)
  BY DEF Prune, PruneOf
<1>6. Eqn(Prune)
  <2> HIDE DEF Eqn
  <2> QED BY <1>4, <1>5
<1> QED BY <1>6

FileMayMatchOf(q, g) ==
  CASE q.op = "compare" -> FileCompare(q)
    [] q.op = "in"      -> FileIn(q)
    [] q.op = "and"     -> g[q.left] \intersect g[q.right]
    [] q.op \in {"notin", "match", "not"} -> All
    [] OTHER            -> g[q.left] \union g[q.right]

LEMMA FileMayMatchExists ==
  ASSUME FiniteTrees
  PROVE  \A q \in Queries : FileMayMatch[q] = FileMayMatchOf(q, FileMayMatch)
<1> DEFINE V == SUBSET All
           F == [p \in Queries \X [Queries -> V] |-> FileMayMatchOf(p[1], p[2])]
<1>1. ASSUME NEW q \in Queries, NEW g \in [Queries -> V]
      PROVE  F[<<q, g>>] = FileMayMatchOf(q, g) /\ FileMayMatchOf(q, g) \in V
  <2>1. <<q, g>> \in Queries \X [Queries -> V]
    OBVIOUS
  <2>2. FileMayMatchOf(q, g) \in V
    BY NodeTypes DEF FileMayMatchOf, FileCompare, FileIn
  <2> QED BY <2>1, <2>2
<1>2. ByOperands(F, V)
  <2>1. F \in [Queries \X [Queries -> V] -> V]
    BY <1>1
  <2>2. ASSUME NEW q \in Queries, NEW g \in [Queries -> V], NEW h \in [Queries -> V],
               q.op \in {"and", "or"} => g[q.left] = h[q.left] /\ g[q.right] = h[q.right],
               q.op = "not" => g[q.operand] = h[q.operand]
        PROVE  F[<<q, g>>] = F[<<q, h>>]
    <3>1. FileMayMatchOf(q, g) = FileMayMatchOf(q, h)
      BY <2>2, NodeTypes DEF FileMayMatchOf
    <3> HIDE DEF F
    <3> QED BY <3>1, <1>1
  <2>3. \E v : v \in V
    OBVIOUS
  <2> HIDE DEF F
  <2> QED BY <2>1, <2>2, <2>3 DEF ByOperands
<1>3. PICK g : Solves(g, F, Queries, V)
  <2> HIDE DEF F, V
  <2> QED BY <1>2, TreeRecursion
<1> DEFINE Eqn(f) == f = [q \in Queries |-> FileMayMatchOf(q, f)]
<1>4. Eqn(g)
  <2>1. g \in [Queries -> V] /\ \A q \in Queries : g[q] = F[<<q, g>>]
    BY <1>3 DEF Solves
  <2> HIDE DEF F, V
  <2>2. \A q \in Queries : g[q] = FileMayMatchOf(q, g)
    BY <1>1, <2>1
  <2> QED BY <2>1, <2>2
<1>5. FileMayMatch = CHOOSE f : Eqn(f)
  BY DEF FileMayMatch, FileMayMatchOf
<1>6. Eqn(FileMayMatch)
  <2> HIDE DEF Eqn
  <2> QED BY <1>4, <1>5
<1> QED BY <1>6

LEMMA PruneOfNode ==
  ASSUME FiniteTrees, NEW q \in Queries
  PROVE  /\ q.op = "compare" => /\ Prune[q].may = EvalCompare(q)
                                /\ Prune[q].all = AllMatchCompare(q)
         /\ q.op = "in" => Prune[q].may = EvalIn(q) /\ Prune[q].all = AllMatchIn(q)
         /\ q.op = "notin" => Prune[q].may = EvalNotIn(q) /\ Prune[q].all = AllMatchIn(q)
         /\ q.op = "match" => Prune[q].may = All /\ Prune[q].all = {}
         /\ q.op = "and" =>
              /\ Prune[q].may = Prune[q.left].may \intersect Prune[q.right].may
              /\ Prune[q].all = Prune[q.left].all \intersect Prune[q.right].all
         /\ q.op = "or" =>
              /\ Prune[q].may = Prune[q.left].may \union Prune[q.right].may
              /\ Prune[q].all = Prune[q.left].all \union Prune[q.right].all
         /\ q.op = "not" =>
              /\ Prune[q].may = All \ Prune[q.operand].all
              /\ Prune[q].all = All \ Prune[q.operand].may
<1>1. Prune[q] = PruneOf(q, Prune)
  BY PruneExists
<1> QED BY <1>1 DEF PruneOf, InBoth, InEither, InNeither

LEMMA MeaningOfNode ==
  ASSUME FiniteTrees, NEW q \in Queries
  PROVE  /\ q.op = "and" => Meaning[q] = Meaning[q.left] \intersect Meaning[q.right]
         /\ q.op = "or" => Meaning[q] = Meaning[q.left] \union Meaning[q.right]
         /\ q.op = "not" => Meaning[q] = Events \ Meaning[q.operand]
<1>1. Meaning[q] = MeaningOf(q, Meaning)
  BY MeaningExists
<1> QED BY <1>1 DEF MeaningOf

\* No event of the chunk that matches is lost, and if every event is said to
\* match, of a predicate under a negation, every event does.
LEMMA PruneIsRight ==
  ASSUME FiniteTrees, LiteralsFit, ListsFit, NEW N \in SUBSET Queries, AreFirm(N),
         Sliced, NEW i \in All, NEW e \in file[i]
  PROVE  \A q \in Queries :
           /\ e \in Meaning[q] => i \in Prune[q].may
           /\ q \in N /\ i \in Prune[q].all => e \in Meaning[q]
<1> DEFINE Right(q) == /\ e \in Meaning[q] => i \in Prune[q].may
                       /\ q \in N /\ i \in Prune[q].all => e \in Meaning[q]
           B == {q \in Queries : ~Right(q)}
<1>0. e \in Events
  BY DEF Sliced, Summarises
<1>1. ASSUME NEW q \in B
      PROVE  \/ q.op \in {"and", "or"} /\ (q.left \in B \/ q.right \in B)
             \/ q.op = "not" /\ q.operand \in B
  <2>0. q \in Queries /\ ~Right(q)
    OBVIOUS
  <2>1. CASE q.op = "compare"
    <3>1. e \in Meaning[q] <=> e[q.field] # Absent /\ Compares(e[q.field], q.cmp, q.value)
      BY <1>0, <2>1, LeafMeaning
    <3>2. Prune[q].may = EvalCompare(q) /\ Prune[q].all = AllMatchCompare(q)
      BY <2>1, PruneOfNode
    <3>3. q \in N => Firm(q)
      BY <2>1 DEF AreFirm
    <3>4. e \in Meaning[q] => i \in Prune[q].may
      BY <2>1, <3>1, <3>2, CompareKeeps
    <3>5. q \in N /\ i \in Prune[q].all => e \in Meaning[q]
      BY <2>1, <3>1, <3>2, <3>3, CompareIsRight
    <3> QED BY <2>0, <3>4, <3>5
  <2>2. CASE q.op = "in"
    <3>1. e \in Meaning[q] <=> e[q.field] \in q.values
      BY <1>0, <2>2, LeafMeaning
    <3>2. Prune[q].may = EvalIn(q) /\ Prune[q].all = AllMatchIn(q)
      BY <2>2, PruneOfNode
    <3>3. q \in N => Firm(q)
      BY <2>2 DEF AreFirm
    <3>4. e \in Meaning[q] => i \in Prune[q].may
      BY <2>2, <3>1, <3>2, InKeeps
    <3>5. q \in N /\ i \in Prune[q].all => e \in Meaning[q]
      BY <2>2, <3>1, <3>2, <3>3, InIsRight
    <3> QED BY <2>0, <3>4, <3>5
  <2>3. CASE q.op = "notin"
    <3>1. e \in Meaning[q] <=> e[q.field] # Absent /\ e[q.field] \notin q.values
      BY <1>0, <2>3, LeafMeaning
    <3>2. Prune[q].may = EvalNotIn(q) /\ Prune[q].all = AllMatchIn(q)
      BY <2>3, PruneOfNode
    <3>3. q \in N => Firm(q)
      BY <2>3 DEF AreFirm
    <3>4. e \in Meaning[q] => i \in Prune[q].may
      BY <2>3, <3>1, <3>2, NotInKeeps
    <3>5. q \in N /\ i \in Prune[q].all => e \in Meaning[q]
      BY <2>3, <3>1, <3>2, <3>3, InIsRight
    <3> QED BY <2>0, <3>4, <3>5
  <2>4. CASE q.op = "match"
    BY <2>0, <2>4, PruneOfNode
  <2>5. CASE q.op = "and"
    <3>1. q.left \in Queries /\ q.right \in Queries /\ (q \in N => q.left \in N /\ q.right \in N)
      BY <2>5, NodeTypes DEF AreFirm
    <3>2. /\ Meaning[q] = Meaning[q.left] \intersect Meaning[q.right]
          /\ Prune[q].may = Prune[q.left].may \intersect Prune[q.right].may
          /\ Prune[q].all = Prune[q.left].all \intersect Prune[q.right].all
      BY <2>5, PruneOfNode, MeaningOfNode
    <3>3. ~Right(q.left) \/ ~Right(q.right)
      BY <2>0, <3>1, <3>2
    <3> QED BY <2>5, <3>1, <3>3
  <2>6. CASE q.op = "or"
    <3>1. q.left \in Queries /\ q.right \in Queries /\ (q \in N => q.left \in N /\ q.right \in N)
      BY <2>6, NodeTypes DEF AreFirm
    <3>2. /\ Meaning[q] = Meaning[q.left] \union Meaning[q.right]
          /\ Prune[q].may = Prune[q.left].may \union Prune[q.right].may
          /\ Prune[q].all = Prune[q.left].all \union Prune[q.right].all
      BY <2>6, PruneOfNode, MeaningOfNode
    <3>3. ~Right(q.left) \/ ~Right(q.right)
      BY <2>0, <3>1, <3>2
    <3> QED BY <2>6, <3>1, <3>3
  <2>7. CASE q.op = "not"
    <3>1. q.operand \in Queries /\ q.operand \in N
      BY <2>7, NodeTypes DEF AreFirm
    <3>2. /\ Meaning[q] = Events \ Meaning[q.operand]
          /\ Prune[q].may = All \ Prune[q.operand].all
          /\ Prune[q].all = All \ Prune[q.operand].may
      BY <2>7, PruneOfNode, MeaningOfNode
    <3>3. ~Right(q.operand)
      BY <1>0, <2>0, <3>1, <3>2
    <3> QED BY <2>7, <3>1, <3>3
  <2> QED BY <2>0, <2>1, <2>2, <2>3, <2>4, <2>5, <2>6, <2>7, NodeTypes
<1>2. B = {}
  <2> HIDE DEF B
  <2>1. B \in SUBSET Queries
    BY DEF B
  <2> QED BY <1>1, <2>1, NoBadQuery
<1> QED BY <1>2

LEMMA FileIsRight ==
  ASSUME FiniteTrees, Sliced, NEW i \in All, NEW e \in file[i]
  PROVE  \A q \in Queries : e \in Meaning[q] => i \in FileMayMatch[q]
<1> DEFINE B == {q \in Queries : ~(e \in Meaning[q] => i \in FileMayMatch[q])}
<1>0. e \in Events
  BY DEF Sliced, Summarises
<1>1. ASSUME NEW f \in Fields, e[f] # Absent PROVE FileBloomMayContain(f, e[f].v)
  <2>1. Known(i, f, e[f].v)
    BY <1>1, EventIsKnown
  <2>2. HasBloom(i, f) => f # "dur"
    BY DEF HasBloom
  <2> QED BY <2>1, <2>2 DEF FileBloomMayContain, Known
<1>2. ASSUME NEW q \in B
      PROVE  q.op \in {"and", "or"} /\ (q.left \in B \/ q.right \in B)
  <2>0. FileMayMatch[q] = FileMayMatchOf(q, FileMayMatch)
    BY FileMayMatchExists
  <2>1. CASE q.op = "compare"
    <3>1. q.field \in Fields /\ q.value \in Values
      BY <2>1, NodeTypes
    <3>2. e[q.field] # Absent /\ Compares(e[q.field], q.cmp, q.value)
      BY <1>0, <2>1, LeafMeaning
    <3>3. q.cmp = "EQ" => e[q.field].v = q.value.v
      BY <3>2 DEF Compares, Holds
    <3>4. q.cmp = "EQ" => FileBloomMayContain(q.field, q.value.v)
      BY <1>1, <3>1, <3>2, <3>3
    <3>5. FileMayMatch[q] = FileCompare(q)
      BY <2>0, <2>1 DEF FileMayMatchOf
    <3> QED BY <3>4, <3>5 DEF FileCompare
  <2>2. CASE q.op = "in"
    <3>1. q.field \in Fields /\ q.values \subseteq Values
      BY <2>2, NodeTypes
    <3>2. e[q.field] \in q.values
      BY <1>0, <2>2, LeafMeaning
    <3>3. FileBloomMayContain(q.field, e[q.field].v)
      BY <1>1, <3>1, <3>2, ValuesAssumption
    <3>4. FileMayMatch[q] = FileIn(q)
      BY <2>0, <2>2 DEF FileMayMatchOf
    <3> QED BY <3>2, <3>3, <3>4 DEF FileIn
  <2>3. CASE q.op = "and"
    <3>1. q.left \in Queries /\ q.right \in Queries
      BY <2>3, NodeTypes
    <3>2. Meaning[q] = Meaning[q.left] \intersect Meaning[q.right]
      BY <2>3, MeaningOfNode
    <3>3. FileMayMatch[q] = FileMayMatch[q.left] \intersect FileMayMatch[q.right]
      BY <2>0, <2>3 DEF FileMayMatchOf
    <3> QED BY <2>3, <3>1, <3>2, <3>3
  <2>4. CASE q.op = "or"
    <3>1. q.left \in Queries /\ q.right \in Queries
      BY <2>4, NodeTypes
    <3>2. Meaning[q] = Meaning[q.left] \union Meaning[q.right]
      BY <2>4, MeaningOfNode
    <3>3. FileMayMatch[q] = FileMayMatch[q.left] \union FileMayMatch[q.right]
      BY <2>0, <2>4 DEF FileMayMatchOf
    <3> QED BY <2>4, <3>1, <3>2, <3>3
  <2>5. CASE q.op \in {"notin", "match", "not"}
    <3>1. FileMayMatch[q] = All
      BY <2>0, <2>5 DEF FileMayMatchOf
    <3> QED BY <3>1
  <2> QED BY <2>1, <2>2, <2>3, <2>4, <2>5, NodeTypes
<1>3. B = {}
  <2> HIDE DEF B
  <2>1. B \in SUBSET Queries
    BY DEF B
  <2> QED BY <1>2, <2>1, NoBadQuery
<1> QED BY <1>3

\* No query loses an event by the index: evaluate_node never rules out a chunk
\* with a match, nor does file_may_match the file, whatever was capped or
\* missing and however the chunks were cut into slices.  Negated are only tests
\* of fields that every event has, with values of their type.
THEOREM NoMatchLost ==
  FiniteTrees /\ LiteralsFit /\ ListsFit /\ NegationsAreFirm
    => (Spec => []PrunerKeepsMatches)
<1> SUFFICES ASSUME FiniteTrees, LiteralsFit, ListsFit, NegationsAreFirm
             PROVE  Spec => []PrunerKeepsMatches
  OBVIOUS
<1>1. ASSUME Sliced PROVE PrunerKeepsMatches
  <2> SUFFICES ASSUME NEW q \in Queries, NEW i \in All, NEW e \in file[i], Eval(q, e)
               PROVE  i \in Candidates(q)
    BY DEF PrunerKeepsMatches
  <2>1. e \in Meaning[q]
    BY DEF Eval
  <2>2. PICK N \in SUBSET Queries : AreFirm(N)
    BY DEF NegationsAreFirm
  <2>3. i \in Prune[q].may
    BY <1>1, <2>1, <2>2, PruneIsRight
  <2>4. i \in FileMayMatch[q]
    BY <1>1, <2>1, FileIsRight
  <2> QED BY <2>3, <2>4 DEF Candidates
<1> QED BY <1>1, AlwaysSliced, PTL

=============================================================================
