---------------------------- MODULE ChunkPruner ----------------------------
(***************************************************************************)
(* The index of the chunks of a trace file (visitors/bloom_core.cpp) and   *)
(* the pruner that decides from it which chunks a query has to read        *)
(* (indexing/chunk_pruner_utility.cpp).                                    *)
(*                                                                         *)
(* The events of a chunk are observed in slices, which are merged.  A text *)
(* in the index is the rank of the value it is the text of: the index does *)
(* not tell a number from the string that spells it.  A Bloom filter is    *)
(* the exact set of what was added; a false positive only keeps more.      *)
(***************************************************************************)
EXTENDS Query, Sequences

CONSTANTS
  NumChunks,
  MaxRows,         \* BOUND: events in a chunk
  Extra,           \* the dimensions beside the fixed ones: those configured
  AutoFields,      \*   and, of them, those found in the file
  AutoMaxDistinct, \* values in the filter of a found dimension
  OtherNames,      \* ranks of the names that other files of the index have
  ValueCountsCap,  \* the largest dictionary that is stored
  Wide,            \* 2^64
  None             \* no minimum, no maximum

ASSUME PrunerAssumption ==
  /\ AutoFields \subseteq Extra /\ Extra \subseteq Fields \ {"name", "dur"}
  /\ NumChunks \in Nat /\ MaxRows \in Nat
  /\ AutoMaxDistinct \in Nat /\ ValueCountsCap \in Nat
  /\ Wide \in Nat \ {0} /\ None \notin Int

\* A name is a string; the other fixed dimensions are unsigned numbers.
ASSUME EventsAssumption ==
  \A e \in Events : \A f \in Fields \ Extra :
    e[f] # Absent =>
      IF f = "name" THEN e[f].kind = "str"
                    ELSE e[f].kind = "num" /\ e[f].v \in 0..(Wide - 1)

VARIABLES
  index,   \* of each sealed chunk, of each dimension: its statistics
  file,    \* of each sealed chunk: its events
  chunk,   \* the chunk that is being read: what was merged,
  slice,   \*   the open slice,
  rows     \*   and their events

vars == <<index, file, chunk, slice, rows>>

-----------------------------------------------------------------------------
(* What is observed *)

\* init_chunk_state: the type of an extra dimension shows later.
Dimension(f) ==
  [type   |-> CASE f = "name" -> "string" [] f \in Extra -> "" [] OTHER -> "uint",
   lo     |-> None,
   hi     |-> None,
   values |-> {},
   bloom  |-> {}]

NoStats == [f \in Fields |-> Dimension(f)]

TypeOf(x) == IF x.kind = "num" THEN "int" ELSE "string"

JoinTypes(s, t) ==
  IF s = "" \/ s = t THEN t ELSE IF t = "" THEN s ELSE "mixed"

Widen(d, lo, hi) ==
  [d EXCEPT !.lo = IF @ = None \/ (lo # None /\ lo < @) THEN lo ELSE @,
            !.hi = IF @ = None \/ (hi # None /\ hi > @) THEN hi ELSE @]

\* Texts and numbers have no common order: a mixed dimension has no range.
Typed(d, t, lo, hi) ==
  IF t = "mixed" THEN [d EXCEPT !.type = t, !.lo = None, !.hi = None]
  ELSE Widen([d EXCEPT !.type = t], lo, hi)

ObserveFixed(d, x) ==
  Widen([d EXCEPT !.values = @ \union {x.v}, !.bloom = @ \union {x.v}], x.v, x.v)

ObserveExtra(d, x) ==
  Typed([d EXCEPT !.bloom = @ \union {x.v}], JoinTypes(d.type, TypeOf(x)), x.v, x.v)

\* An event without a duration counts as one of 0.
ObserveRangeOnly(d, x) ==
  LET n == IF x = Absent THEN 0 ELSE x.v IN Widen(d, n, n)

Observed(s, e) ==
  [f \in Fields |-> CASE f = "dur"                      -> ObserveRangeOnly(s[f], e[f])
                      [] f # "dur" /\ e[f] = Absent     -> s[f]
                      [] f \in Extra /\ e[f] # Absent   -> ObserveExtra(s[f], e[f])
                      [] OTHER                          -> ObserveFixed(s[f], e[f])]

\* Mutant: the range of a dimension that turns out mixed is kept.
MergeDimension_kept(d, c) ==
  Widen([d EXCEPT !.values = @ \union c.values, !.bloom = @ \union c.bloom,
                  !.type = JoinTypes(d.type, c.type)], c.lo, c.hi)

MergeDimension(d, c) ==
  Typed([d EXCEPT !.values = @ \union c.values, !.bloom = @ \union c.bloom],
        JoinTypes(d.type, c.type), c.lo, c.hi)

Merged(s, t) == [f \in Fields |-> MergeDimension(s[f], t[f])]

-----------------------------------------------------------------------------
(* Building the index *)

Init ==
  /\ index = <<>> /\ file = <<>>
  /\ chunk = NoStats /\ slice = NoStats /\ rows = {}

Observe(e) ==
  /\ Len(index) < NumChunks
  /\ Cardinality(rows \union {e}) <= MaxRows
  /\ slice' = Observed(slice, e)
  /\ rows' = rows \union {e}
  /\ UNCHANGED <<index, file, chunk>>

MergeSlice ==
  /\ chunk' = Merged(chunk, slice)
  /\ slice' = NoStats
  /\ UNCHANGED <<index, file, rows>>

Seal ==
  /\ slice = NoStats /\ rows # {}
  /\ index' = Append(index, chunk)
  /\ file' = Append(file, rows)
  /\ chunk' = NoStats /\ rows' = {}
  /\ UNCHANGED slice

Next == MergeSlice \/ Seal \/ \E e \in Events : Observe(e)

Spec == Init /\ [][Next]_vars

-----------------------------------------------------------------------------
(* What the statistics of a chunk prove *)

All == 1..Len(index)

\* A dictionary that is empty or too large is not stored.
HasDict(i, f) ==
  Cardinality(index[i][f].values) \in 1..ValueCountsCap

\* compare_values: stoull() takes any number modulo its width.
Rank(i, f, n) == IF index[i][f].type = "uint" THEN n % Wide ELSE n

RangeMayMatch(i, f, c, n) ==
  LET d == index[i][f] IN
  d.lo # None => Holds(Rank(i, f, IF c \in {"GT", "GE"} THEN d.hi ELSE d.lo), c, Rank(i, f, n))

RangeAllMatch(i, f, c, n) ==
  LET d == index[i][f] IN
  /\ d.lo # None
  /\ Holds(Rank(i, f, IF c \in {"GT", "GE"} THEN d.lo ELSE d.hi), c, Rank(i, f, n))

\* There is no filter of the durations, nor of a found dimension that is more
\* than a few strings; in a chunk without the field the filter is empty.
HasBloom(i, f) ==
  LET d == index[i][f] IN
  /\ f # "dur"
  /\ f \in AutoFields =>
       \/ d.type = ""
       \/ /\ d.type = "string"
          /\ Cardinality(d.bloom) <= AutoMaxDistinct

BloomMayContain(i, f, n) == HasBloom(i, f) => n \in index[i][f].bloom

\* One chunk without the filter is enough for the file to have none.
FileBloomMayContain(f, n) ==
  (\A i \in All : HasBloom(i, f)) => \E i \in All : n \in index[i][f].bloom

\* The name index: a name that no file has is not known to it.
NameChunks(n) == {i \in All : n \in index[i]["name"].values}
NameIsKnown(n) == n \in OtherNames \/ NameChunks(n) # {}

-----------------------------------------------------------------------------
(* The pruner *)

MayEqual(i, f, n) ==
  IF HasDict(i, f) THEN n \in index[i][f].values
  ELSE BloomMayContain(i, f, n)

\* eval_compare.  Only of an extra dimension the range bounds equality.
MayMatchCompare(i, q) ==
  LET n == q.value.v IN
  CASE q.cmp = "EQ" ->
         /\ MayEqual(i, q.field, n)
         /\ q.field \in Extra =>
              /\ RangeMayMatch(i, q.field, "GE", n)
              /\ RangeMayMatch(i, q.field, "LE", n)
    [] q.cmp = "NE" -> ~(HasDict(i, q.field) /\ index[i][q.field].values = {n})
    [] OTHER        -> RangeMayMatch(i, q.field, q.cmp, n)

EvalCompare(q) ==
  IF q.field = "name" /\ q.cmp = "EQ" /\ NameIsKnown(q.value.v)
  THEN NameChunks(q.value.v)
  ELSE {i \in All : MayMatchCompare(i, q)}

EvalIn(q) ==
  LET named == UNION {NameChunks(x.v) : x \in q.values} IN
  IF q.field = "name" /\ named # {} THEN named
  ELSE {i \in All : \E x \in q.values : MayEqual(i, q.field, x.v)}

EvalNotIn(q) ==
  {i \in All : HasDict(i, q.field) =>
                 ~(index[i][q.field].values \subseteq {x.v : x \in q.values})}

\* Mutant: some event matches instead of every event.
AllMatchCompare_some(q) == EvalCompare(q)

AllMatchCompare(q) ==
  LET n == q.value.v IN
  {i \in All :
     CASE q.cmp = "EQ" -> HasDict(i, q.field) /\ index[i][q.field].values = {n}
       [] q.cmp = "NE" -> HasDict(i, q.field) /\ n \notin index[i][q.field].values
       [] OTHER        -> RangeAllMatch(i, q.field, q.cmp, n)}

AllMatchIn(q) ==
  LET wanted == {x.v : x \in q.values} IN
  {i \in All :
     /\ HasDict(i, q.field)
     /\ IF q.op = "in" THEN index[i][q.field].values \subseteq wanted
                       ELSE index[i][q.field].values \intersect wanted = {}}

\* evaluate_node: the chunks where some event may match; evaluate_all_match:
\* chunks where every event does, which is what a negation needs.
InBoth(p, r) == [may |-> p.may \intersect r.may, all |-> p.all \intersect r.all]
InEither(p, r) == [may |-> p.may \union r.may, all |-> p.all \union r.all]
InNeither(p)   == [may |-> All \ p.all, all |-> All \ p.may]

Prune[q \in Queries] ==
  CASE q.op = "compare" -> [may |-> EvalCompare(q), all |-> AllMatchCompare(q)]
    [] q.op = "in"      -> [may |-> EvalIn(q), all |-> AllMatchIn(q)]
    [] q.op = "notin"   -> [may |-> EvalNotIn(q), all |-> AllMatchIn(q)]
    [] q.op = "match"   -> [may |-> All, all |-> {}]
    [] q.op = "and"     -> InBoth(Prune[q.left], Prune[q.right])
    [] q.op = "or"      -> InEither(Prune[q.left], Prune[q.right])
    [] OTHER            -> InNeither(Prune[q.operand])

\* The file, as all its chunks, if the blooms of the whole file let it match.
FileCompare(q) == {i \in All : q.cmp = "EQ" => FileBloomMayContain(q.field, q.value.v)}
FileIn(q) == {i \in All : \E x \in q.values : FileBloomMayContain(q.field, x.v)}

FileMayMatch[q \in Queries] ==
  CASE q.op = "compare" -> FileCompare(q)
    [] q.op = "in"      -> FileIn(q)
    [] q.op = "and"     -> FileMayMatch[q.left] \intersect FileMayMatch[q.right]
    [] q.op \in {"notin", "match", "not"} -> All
    [] OTHER            -> FileMayMatch[q.left] \union FileMayMatch[q.right]

Candidates(q) == FileMayMatch[q] \intersect Prune[q].may

-----------------------------------------------------------------------------
(* The queries of which the pruner may be asked *)

\* A number that is compared with an unsigned dimension does not wrap.
LiteralsFit ==
  \A q \in Queries :
    /\ q.op = "compare" /\ q.cmp \notin {"EQ", "NE"}
    /\ q.field \notin Extra \union {"name"} /\ q.value.kind = "num"
    => q.value.v \in 0..(Wide - 1)

\* What `not in` lists of a fixed dimension has the type of the dimension.
ListsFit ==
  \A q \in Queries : q.op = "notin" /\ q.field \notin Extra =>
    \A x \in q.values : x.kind = IF q.field = "name" THEN "str" ELSE "num"

\* Every event has the field, and with the type of what it is tested for.
Firm(q) ==
  \A e \in Events :
    /\ e[q.field] # Absent
    /\ q.op = "compare" => q.value.kind = e[q.field].kind
    /\ q.op = "in" => \A x \in q.values : x.kind = e[q.field].kind

\* N has what is under a negation, down to the next; its tests are firm.
AreFirm(N) ==
  /\ \A q \in Queries : q.op = "not" => q.operand \in N
  /\ \A q \in N : /\ q.op \in {"and", "or"} => q.left \in N /\ q.right \in N
                  /\ q.op \in {"compare", "in", "notin"} => Firm(q)

-----------------------------------------------------------------------------
(* Properties *)

\* No query loses an event: a chunk with an event that matches is read.  A
\* false negative of the index would silently drop matching events.
PrunerKeepsMatches ==
  \A q \in Queries : \A i \in All :
    (\E e \in file[i] : Eval(q, e)) => i \in Candidates(q)

\* How a chunk was cut into slices, and in which order its events came, does
\* not show in its statistics: they are those of the set of its events.
Found(E, f) == {e[f] : e \in E} \ {Absent}

TypeOfAll(f, kinds) ==
  IF f \notin Extra THEN IF f = "name" THEN "string" ELSE "uint"
  ELSE CASE kinds = {}      -> ""
         [] kinds = {"num"} -> "int"
         [] kinds = {"str"} -> "string"
         [] OTHER           -> "mixed"

\* The numbers that bound a dimension, or are kept of it.
Ranks(E, f) ==
  {x.v : x \in Found(E, f)}
    \union IF f = "dur" /\ \E e \in E : e[f] = Absent THEN {0} ELSE {}

IsRange(lo, hi, N) ==
  IF N = {} THEN lo = None /\ hi = None
  ELSE lo \in N /\ hi \in N /\ \A n \in N : lo <= n /\ n <= hi

Describes(d, E, f) ==
  /\ d.type = TypeOfAll(f, {x.kind : x \in Found(E, f)})
  /\ d.values = IF f \in Extra \union {"dur"} THEN {} ELSE Ranks(E, f)
  /\ d.bloom = IF f = "dur" THEN {} ELSE Ranks(E, f)
  /\ IsRange(d.lo, d.hi, IF d.type = "mixed" THEN {} ELSE Ranks(E, f))

SlicingIsInvisible ==
  \A i \in All : \A f \in Fields : Describes(index[i][f], file[i], f)
=============================================================================
