-------------------------- MODULE StreamScanProofs --------------------------
(***************************************************************************)
(* Four facts about a scan, for any number of workers, units and cursors.  *)
(* It claims to have read a file only if it has: a worker that is at a     *)
(* batch of its unit has put every earlier batch through all folds         *)
(* (`AtBatch'), so that the end of the unit means all of them.  No cursor  *)
(* gets a row twice: nothing that it holds comes from a batch that has yet *)
(* to come by it (`NewRows').  And unless a worker failed, a cursor that   *)
(* ends got all its rows: what has gone by it has been kept (`HasRows').   *)
(* Of the permits of a cursor every one is free or taken for a morsel that *)
(* has not been given yet: who waits for permits is a worker with a morsel *)
(* for that cursor, and waits once (`InLine').                             *)
(***************************************************************************)
EXTENDS StreamScan, FiniteSetTheorems, SequenceTheorems, WellFoundedInduction, TLAPS

Busy == {"decode", "batch", "step", "send"}

Types ==
  /\ next \in Nat \ {0}
  /\ worker \in [Workers -> [pc : Busy \union {"claim", "done", "failed"},
                             unit : Nat, batch : Nat, pos : Nat]]

AtBatch ==
  \A w \in Workers : worker[w].pc \in Busy =>
    /\ worker[w].unit \in DOMAIN Units
    /\ \A b \in DOMAIN Units[worker[w].unit] :
         b < worker[w].batch => <<worker[w].unit, b>> \in read

IsRead(u) == \A b \in DOMAIN Units[u] : <<u, b>> \in read

CoveredIsRead == \A u \in covered : IsRead(u)

IInv == Types /\ AtBatch /\ CoveredIsRead /\ WholeIsRead

LEMMA InitInv == Init => IInv
<1> SUFFICES ASSUME Init PROVE IInv
  OBVIOUS
<1>1. Types
  BY DEF Init, Types, Busy
<1>2. AtBatch
  BY DEF Init, AtBatch, Busy
<1>3. CoveredIsRead /\ WholeIsRead
  BY DEF Init, CoveredIsRead, WholeIsRead
<1> QED BY <1>1, <1>2, <1>3 DEF IInv

\* The steps that touch neither the workers nor what is covered.
LEMMA StutterInv ==
  ASSUME IInv, UNCHANGED <<worker, next, covered, read, whole>>
  PROVE  IInv'
BY DEF IInv, Types, AtBatch, CoveredIsRead, IsRead, WholeIsRead

LEMMA WorkerInv ==
  ASSUME NEW w \in Workers, IInv, Worker(w)
  PROVE  IInv'
<1> USE UnitsAssumption DEF IInv
<1>1. CASE Claim(w)
  <2>1. Types' /\ AtBatch'
    <3>1. CASE next \in excluded
      BY <1>1, <3>1 DEF Claim, Types, AtBatch, Busy
    <3>2. CASE next \notin excluded
      <4>1. worker' = [worker EXCEPT ![w] = [pc |-> "decode", unit |-> next, batch |-> 1, pos |-> 1]]
        BY <1>1, <3>2 DEF Claim
      <4>2. Types'
        BY <1>1, <4>1 DEF Claim, Types, Busy
      <4>3. next \in DOMAIN Units
        BY <1>1 DEF Claim, Types
      <4> QED BY <1>1, <4>1, <4>2, <4>3 DEF Claim, Types, AtBatch, Busy
    <3> QED BY <3>1, <3>2
  <2>3. CoveredIsRead' /\ WholeIsRead'
    BY <1>1 DEF Claim, CoveredIsRead, IsRead, WholeIsRead
  <2> QED BY <2>1, <2>3
<1>2. ASSUME \/ NoMore(w) \/ Admitted(w) \/ Scanned(w) \/ Throw(w)
             \/ AddUp(w) \/ Ignore(w) \/ Step(w) \/ Send(w)
      PROVE  IInv'
  <2>1. /\ UNCHANGED <<next, covered, read, whole>>
        /\ Types'
        /\ \A v \in Workers : worker'[v].pc \in Busy =>
             /\ worker[v].pc \in Busy
             /\ worker'[v].unit = worker[v].unit /\ worker'[v].batch = worker[v].batch
    <3>1. CASE NoMore(w)
      BY <3>1 DEF NoMore, Leave, Types, Busy
    <3>2. CASE Admitted(w)
      BY <3>2 DEF Admitted, Types, Busy
    <3>3. CASE Scanned(w)
      <4>1. CASE Cancelled
        BY <3>3, <4>1 DEF Scanned, Leave, Types, Busy
      <4>2. CASE ~Cancelled
        <5>1. worker' = [worker EXCEPT ![w] = Moved(w, "step", worker[w].batch, 1)]
          BY <3>3, <4>2 DEF Scanned
        <5> QED BY <3>3, <5>1 DEF Scanned, Moved, Types, Busy
      <4> QED BY <4>1, <4>2
    <3>4. CASE Throw(w)
      BY <3>4 DEF Throw, Types, Busy
    <3>5. CASE AddUp(w)
      BY <3>5 DEF AddUp, Types, Busy
    <3>6. CASE Ignore(w)
      BY <3>6 DEF Ignore, Types, Busy
    <3>7. CASE Step(w)
      BY <3>7 DEF Step, Types, Busy
    <3>8. CASE Send(w)
      BY <3>8 DEF Send, Moved, Types, Busy
    <3> QED BY <1>2, <3>1, <3>2, <3>3, <3>4, <3>5, <3>6, <3>7, <3>8
  <2>2. AtBatch'
    BY <2>1 DEF AtBatch
  <2> QED BY <2>1, <2>2 DEF CoveredIsRead, IsRead, WholeIsRead
<1>3. CASE Seal(w)
  <2>1. Types'
    BY <1>3 DEF Seal, Types, Busy
  <2>2. AtBatch'
    BY <1>3 DEF Seal, Types, AtBatch, Busy
  <2>3. IsRead(worker[w].unit)
    BY <1>3 DEF Seal, UnitIsRead, Types, AtBatch, Busy, IsRead
  <2>4. CoveredIsRead' /\ WholeIsRead'
    BY <1>3, <2>3 DEF Seal, CoveredIsRead, IsRead, WholeIsRead
  <2> QED BY <2>1, <2>2, <2>4
<1>4. CASE Stepped(w)
  <2>1. Types'
    BY <1>4 DEF Stepped, Moved, Types, Busy
  <2>2. AtBatch'
    BY <1>4 DEF Stepped, Moved, Types, AtBatch, Busy
  <2>3. CoveredIsRead' /\ WholeIsRead'
    BY <1>4 DEF Stepped, CoveredIsRead, IsRead, WholeIsRead
  <2> QED BY <2>1, <2>2, <2>3
<1> QED BY <1>1, <1>2, <1>3, <1>4 DEF Worker

LEMMA JoinInv == IInv /\ Join => IInv'
<1> SUFFICES ASSUME IInv, Join PROVE IInv'
  OBVIOUS
<1>1. Types' /\ AtBatch' /\ CoveredIsRead'
  BY DEF IInv, Join, scanning, Types, AtBatch, CoveredIsRead, IsRead
<1>2. WholeIsRead'
  BY DEF IInv, Join, scanning, CoveredIsRead, IsRead, WholeIsRead
<1> QED BY <1>1, <1>2 DEF IInv

LEMMA NextInv == IInv /\ [Next]_vars => IInv'
<1> SUFFICES ASSUME IInv, [Next]_vars PROVE IInv'
  OBVIOUS
<1>1. CASE SendFrame
  BY <1>1, StutterInv DEF SendFrame, scanning
<1>2. ASSUME NEW c \in Active, Cursor(c) PROVE IInv'
  BY <1>2, StutterInv DEF Cursor, Draining, Receive, Resume, End, Unpark, Narrow, Abandon,
                          scanning
<1>3. CASE UNCHANGED vars
  BY <1>3, StutterInv DEF vars, scanning
<1> QED BY <1>1, <1>2, <1>3, WorkerInv, JoinInv DEF Next

\* The whole file is claimed only when every batch went through every fold,
\* whatever was cancelled, narrowed or failed.
THEOREM HonestCoverage == Spec => []WholeIsRead
<1>1. IInv => WholeIsRead
  BY DEF IInv
<1> QED BY <1>1, InitInv, NextInv, PTL DEF Spec
-----------------------------------------------------------------------------
(* No row arrives twice *)

Morsels == [rows : SUBSET Rows, bytes : Nat]
Pcs == {"open", "ended", "leaving", "gone"}

FoldTypes ==
  /\ folds \in Seq(Cursors) /\ IsInjective(folds)
  /\ channel \in [Cursors -> Seq(Morsels)]
  /\ cursor \in [Cursors -> [pc : Pcs, item : Morsels, got : SUBSET Rows]]
  /\ slices \in [Workers -> SUBSET Rows]
  /\ scan \in {"run", "frame", "over"}

\* Every worker has a unit to itself, which was claimed.
Units1 ==
  \A w \in Workers : worker[w].pc \in Busy =>
    /\ worker[w].unit \in DOMAIN Units /\ worker[w].unit < next
    /\ worker[w].batch # 0 /\ worker[w].pos # 0
    /\ \A v \in Workers : worker[v].pc \in Busy /\ worker[v].unit = worker[w].unit => v = w

AtFold ==
  /\ \A w \in Workers : worker[w].pc \in {"step", "send"} =>
       worker[w].batch \in DOMAIN Units[worker[w].unit]
  /\ \A w \in Workers : worker[w].pc = "send" =>
       worker[w].pos \in DOMAIN folds /\ Consumer(w) # Framed

\* Batch b of unit u has yet to come by cursor c.
StillInUnit(w, b, c) ==
  \/ b > worker[w].batch
  \/ b = worker[w].batch /\ worker[w].pc \in {"decode", "batch"}
  \/ b = worker[w].batch /\ \E i \in DOMAIN folds : i >= worker[w].pos /\ folds[i] = c

ToCome(u, b, c) ==
  \/ u >= next
  \/ \E w \in Workers :
       worker[w].pc \in Busy /\ worker[w].unit = u /\ StillInUnit(w, b, c)

Held(c) ==
  (UNION {channel[c][i].rows : i \in DOMAIN channel[c]}) \union cursor[c].item.rows \union cursor[c].got

NewRows ==
  \A c \in Active \ {Framed} : \A u \in DOMAIN Units : \A b \in DOMAIN Units[u] :
    ToCome(u, b, c) => Units[u][b] \intersect Held(c) = {}

FrameIsLast ==
  /\ scan # "over" => channel[Framed] = <<>> /\ cursor[Framed].item.rows = {} /\ cursor[Framed].got = {}
  /\ scan # "run" => \A w \in Workers : worker[w].pc \in {"done", "failed"}

ApartAt(c) ==
  /\ \A i, j \in DOMAIN channel[c] : i # j => channel[c][i].rows \intersect channel[c][j].rows = {}
  /\ \A i \in DOMAIN channel[c] :
       channel[c][i].rows \intersect (cursor[c].item.rows \union cursor[c].got) = {}
  /\ cursor[c].item.rows \intersect cursor[c].got = {}

Apart == \A c \in Cursors : ApartAt(c)

OnceInv == IInv /\ FoldTypes /\ Units1 /\ AtFold /\ NewRows /\ FrameIsLast /\ Apart

\* A worker's step that sends nothing: it leaves or keeps its unit, and what
\* is still to come from it does not grow.
Onwards(w) ==
  /\ next' = next /\ UNCHANGED <<folds, channel, cursor, scan>>
  /\ worker[w].pc \notin {"done", "failed"}
  /\ slices' \in [Workers -> SUBSET Rows]
  /\ \A v \in Workers : v # w => worker'[v] = worker[v]
  /\ worker'[w].pc \in Busy =>
       /\ worker[w].pc \in Busy /\ worker'[w].unit = worker[w].unit
       /\ worker'[w].batch # 0 /\ worker'[w].pos # 0
       /\ \A c \in Active \ {Framed} : \A b \in Nat : StillInUnit(w, b, c)' => StillInUnit(w, b, c)
  /\ worker'[w].pc \in {"step", "send"} => worker'[w].batch \in DOMAIN Units[worker'[w].unit]
  /\ worker'[w].pc = "send" => worker'[w].pos \in DOMAIN folds /\ Consumer(w)' # Framed

LEMMA InBatch ==
  ASSUME NEW u \in DOMAIN Units, NEW b \in DOMAIN Units[u]
  PROVE  Units[u][b] \subseteq Rows
BY DEF Rows, Range

LEMMA OnwardsInv ==
  ASSUME NEW w \in Workers, OnceInv, IInv', Onwards(w)
  PROVE  OnceInv'
<1> USE DEF OnceInv
<1>1. FoldTypes'
  BY DEF FoldTypes, Onwards
<1>2. Units1'
  BY DEF Units1, Onwards
<1>3. AtFold'
  BY DEF AtFold, Onwards, Consumer
<1>4. NewRows'
  <2> SUFFICES ASSUME NEW c \in Active \ {Framed}, NEW u \in DOMAIN Units, NEW b \in DOMAIN Units[u],
                      ToCome(u, b, c)'
               PROVE  Units[u][b] \intersect Held(c) = {}
    BY DEF NewRows, Onwards, Active, Held
  <2>1. b \in Nat
    BY UnitsAssumption
  <2>2. CASE u >= next'
    BY <2>2 DEF NewRows, ToCome, Onwards
  <2>3. ASSUME NEW v \in Workers, worker'[v].pc \in Busy, worker'[v].unit = u, StillInUnit(v, b, c)'
        PROVE  ToCome(u, b, c)
    <3>1. CASE v = w
      BY <2>1, <2>3, <3>1 DEF Onwards, ToCome
    <3>2. CASE v # w
      BY <2>3, <3>2 DEF Onwards, ToCome, StillInUnit
    <3> QED BY <3>1, <3>2
  <2> QED BY <2>2, <2>3 DEF ToCome, NewRows
<1>5. FrameIsLast'
  BY DEF FrameIsLast, Onwards
<1>6. Apart'
  BY DEF Apart, ApartAt, Onwards
<1> QED BY <1>1, <1>2, <1>3, <1>4, <1>5, <1>6

LEMMA ClaimOnce ==
  ASSUME NEW w \in Workers, OnceInv, IInv', Claim(w)
  PROVE  OnceInv'
<1> USE DEF OnceInv
<1>1. CASE next \in excluded
  <2>1. UNCHANGED <<worker, folds, channel, cursor, scan, slices>> /\ next' = next + 1 /\ next \in Nat
    BY <1>1 DEF Claim, IInv, Types
  <2>2. FoldTypes' /\ Units1' /\ AtFold' /\ FrameIsLast' /\ Apart'
    <3>1. Units1'
      BY <2>1, UnitsAssumption DEF Units1
    <3> QED BY <2>1, <3>1 DEF FoldTypes, AtFold, FrameIsLast, Apart, ApartAt, Consumer
  <2>3. NewRows'
    BY <2>1, UnitsAssumption DEF NewRows, ToCome, StillInUnit, Held, Active
  <2> QED BY <2>2, <2>3
<1>2. CASE next \notin excluded
  <2>1. /\ worker' = [worker EXCEPT ![w] = [pc |-> "decode", unit |-> next, batch |-> 1, pos |-> 1]]
        /\ UNCHANGED <<folds, channel, cursor, scan, slices>> /\ next' = next + 1
        /\ next \in Nat /\ next \in DOMAIN Units /\ worker[w].pc = "claim"
    BY <1>2, UnitsAssumption DEF Claim, IInv, Types
  <2>2. /\ worker'[w] = [pc |-> "decode", unit |-> next, batch |-> 1, pos |-> 1]
        /\ \A v \in Workers : v # w => worker'[v] = worker[v]
    BY <2>1 DEF IInv, Types
  <2>3. FoldTypes' /\ AtFold' /\ FrameIsLast' /\ Apart'
    <3>1. AtFold'
      BY <2>1, <2>2 DEF AtFold, Consumer
    <3>2. FrameIsLast'
      BY <2>1, <2>2 DEF FrameIsLast
    <3> QED BY <2>1, <3>1, <3>2 DEF FoldTypes, Apart, ApartAt
  <2>4. Units1'
    BY <2>1, <2>2, UnitsAssumption DEF Units1
  <2>5. NewRows'
    <3> SUFFICES ASSUME NEW c \in Active \ {Framed}, NEW u \in DOMAIN Units, NEW b \in DOMAIN Units[u],
                        ToCome(u, b, c)'
                 PROVE  ToCome(u, b, c)
      BY <2>1 DEF NewRows, Active, Held
    <3>1. CASE u >= next'
      BY <2>1, <3>1, UnitsAssumption DEF ToCome
    <3>2. ASSUME NEW v \in Workers, worker'[v].pc \in Busy, worker'[v].unit = u, StillInUnit(v, b, c)'
          PROVE  ToCome(u, b, c)
      BY <2>1, <2>2, <3>2 DEF ToCome, StillInUnit
    <3> QED BY <3>1, <3>2 DEF ToCome
  <2> QED BY <2>3, <2>4, <2>5
<1> QED BY <1>1, <1>2

LEMMA WorkerOnwards ==
  ASSUME NEW w \in Workers, OnceInv,
         \/ NoMore(w) \/ Admitted(w) \/ Scanned(w) \/ Seal(w) \/ Throw(w)
         \/ AddUp(w) \/ Ignore(w) \/ Step(w) \/ Stepped(w)
  PROVE  Onwards(w)
<1> USE DEF OnceInv, IInv, FoldTypes, Onwards
<1>1. CASE NoMore(w)
  BY <1>1 DEF NoMore, Leave, Types, Busy
<1>2. CASE Admitted(w)
  BY <1>2 DEF Admitted, Types, Busy, Units1, StillInUnit
<1>3. CASE Scanned(w)
  <2>1. CASE Cancelled
    BY <1>3, <2>1 DEF Scanned, Leave, Types, Busy
  <2>2. CASE ~Cancelled
    <3>1. worker' = [worker EXCEPT ![w] = Moved(w, "step", worker[w].batch, 1)]
      BY <1>3, <2>2 DEF Scanned
    <3>2. worker[w].batch \in DOMAIN Units[worker[w].unit]
      BY <1>3, UnitsAssumption DEF Scanned, UnitIsRead, Types, Units1, Busy
    <3> QED BY <1>3, <3>1, <3>2 DEF Scanned, Moved, Types, Busy, Units1, StillInUnit
  <2> QED BY <2>1, <2>2
<1>4. CASE Seal(w)
  BY <1>4 DEF Seal, Types, Busy
<1>5. CASE Throw(w)
  BY <1>5 DEF Throw, Types, Busy
<1>6. CASE AddUp(w)
  <2>1. slices' \in [Workers -> SUBSET Rows]
    BY <1>6, InBatch DEF AddUp, Chosen, Batch, Units1, AtFold, Busy
  <2> QED BY <1>6, <2>1 DEF AddUp, Types, Busy, AtFold, Units1, StillInUnit
<1>7. CASE Ignore(w)
  BY <1>7 DEF Ignore, Types, Busy, AtFold, Units1, StillInUnit
<1>8. CASE Step(w)
  BY <1>8 DEF Step, Types, Busy, AtFold, Units1, StillInUnit, Consumer
<1>9. CASE Stepped(w)
  BY <1>9 DEF Stepped, Moved, Types, Busy, Units1, StillInUnit
<1> QED BY <1>1, <1>2, <1>3, <1>4, <1>5, <1>6, <1>7, <1>8, <1>9

\* A morsel of the batch at hand: no cursor that the batch has yet to come by
\* holds any of its rows, and it comes by every cursor once.
LEMMA SendOnce ==
  ASSUME NEW w \in Workers, OnceInv, IInv', Send(w)
  PROVE  OnceInv'
<1> USE DEF OnceInv
<1> PICK c0, new, u0, b0 :
           c0 = Consumer(w) /\ u0 = worker[w].unit /\ b0 = worker[w].batch
           /\ new = Morsel(Chosen(w), Cardinality(Chosen(w)))
  OBVIOUS
<1>1. /\ worker[w].pc = "send" /\ u0 \in DOMAIN Units /\ b0 \in DOMAIN Units[u0]
      /\ worker[w].pos \in DOMAIN folds /\ c0 = folds[worker[w].pos]
      /\ c0 \in Active \ {Framed} /\ c0 \in Cursors
  BY DEF Send, Units1, AtFold, Busy, Active, Range, Consumer, FoldTypes
<1>2. /\ UNCHANGED <<folds, cursor, scan, slices, next>>
      /\ channel' = [channel EXCEPT ![c0] = Append(channel[c0], new)]
      /\ worker' = [worker EXCEPT ![w] = Moved(w, "step", b0, worker[w].pos + 1)]
  BY DEF Send
<1>3. new.rows = Chosen(w) /\ Chosen(w) \subseteq Units[u0][b0] /\ new \in Morsels
  <2>1. Chosen(w) \subseteq Units[u0][b0]
    BY DEF Chosen, Batch
  <2>2. IsFiniteSet(Units[u0][b0])
    BY <1>1, RowsAssumption
  <2>3. Cardinality(Chosen(w)) \in Nat
    BY <2>1, <2>2, FS_Subset, FS_CardinalityType
  <2> QED BY <1>1, <2>1, <2>3, InBatch DEF Morsel, Morsels
<1>4. /\ \A c \in Cursors \ {c0} : channel'[c] = channel[c]
      /\ DOMAIN channel'[c0] = 1..(Len(channel[c0]) + 1)
      /\ DOMAIN channel[c0] = 1..Len(channel[c0]) /\ Len(channel[c0]) \in Nat
      /\ channel'[c0][Len(channel[c0]) + 1] = new
      /\ \A i \in DOMAIN channel[c0] : channel'[c0][i] = channel[c0][i]
      /\ channel' \in [Cursors -> Seq(Morsels)]
  <2>1. channel[c0] \in Seq(Morsels)
    BY <1>1 DEF FoldTypes
  <2>2. channel'[c0] = Append(channel[c0], new) /\ \A c \in Cursors \ {c0} : channel'[c] = channel[c]
    BY <1>1, <1>2 DEF FoldTypes
  <2>3. Append(channel[c0], new) \in Seq(Morsels)
    BY <1>3, <2>1
  <2>4. channel' \in [Cursors -> Seq(Morsels)]
    BY <1>2, <2>3 DEF FoldTypes
  <2> QED BY <2>1, <2>2, <2>4, <1>3
<1>5. /\ worker'[w].pc = "step" /\ worker'[w].unit = u0 /\ worker'[w].batch = b0
      /\ worker'[w].pos = worker[w].pos + 1 /\ worker[w].pos \in Nat
      /\ \A v \in Workers : v # w => worker'[v] = worker[v]
  BY <1>2 DEF IInv, Types, Moved
<1>6. FoldTypes'
  BY <1>2, <1>4 DEF FoldTypes
<1>7. Units1' /\ AtFold'
  BY <1>1, <1>2, <1>5 DEF Units1, AtFold, Busy, Consumer
<1>8. FrameIsLast'
  BY <1>1, <1>2, <1>4, <1>5, ScanAssumption DEF FrameIsLast
<1>9. Chosen(w) \intersect Held(c0) = {}
  <2>1. ToCome(u0, b0, c0)
    BY <1>1, <1>5 DEF ToCome, StillInUnit, Busy
  <2> QED BY <1>1, <1>3, <2>1 DEF NewRows
<1>10. Apart'
  <2> SUFFICES ASSUME NEW c \in Cursors PROVE ApartAt(c)'
    BY DEF Apart
  <2>1. CASE c # c0
    BY <1>2, <1>4, <2>1 DEF Apart, ApartAt
  <2>2. CASE c = c0
    <3>1. \A i \in DOMAIN channel[c0] : new.rows \intersect channel[c0][i].rows = {}
      BY <1>3, <1>9 DEF Held
    <3>2. new.rows \intersect (cursor[c0].item.rows \union cursor[c0].got) = {}
      <4>1. cursor[c0].item.rows \union cursor[c0].got \subseteq Held(c0)
        BY DEF Held
      <4> QED BY <1>3, <1>9, <4>1
    <3>3. \A i \in DOMAIN channel'[c0] : i \in DOMAIN channel[c0] \/ i = Len(channel[c0]) + 1
      BY <1>4
    <3>4. ApartAt(c0)
      BY <1>1 DEF Apart
    <3>5. ASSUME NEW i \in DOMAIN channel'[c0], NEW j \in DOMAIN channel'[c0], i # j
          PROVE  channel'[c0][i].rows \intersect channel'[c0][j].rows = {}
      <4>1. CASE i \in DOMAIN channel[c0] /\ j \in DOMAIN channel[c0]
        BY <1>4, <3>4, <3>5, <4>1 DEF ApartAt
      <4>2. CASE i = Len(channel[c0]) + 1 \/ j = Len(channel[c0]) + 1
        BY <1>4, <3>1, <3>3, <3>5, <4>2
      <4> QED BY <3>3, <4>1, <4>2
    <3>6. ASSUME NEW i \in DOMAIN channel'[c0]
          PROVE  channel'[c0][i].rows \intersect (cursor[c0].item.rows \union cursor[c0].got) = {}
      BY <1>4, <3>2, <3>3, <3>4 DEF ApartAt
    <3> QED BY <1>2, <2>2, <3>4, <3>5, <3>6 DEF ApartAt
  <2> QED BY <2>1, <2>2
<1>11. NewRows'
  <2> SUFFICES ASSUME NEW c \in Active \ {Framed}, NEW u \in DOMAIN Units, NEW b \in DOMAIN Units[u],
                      ToCome(u, b, c)'
               PROVE  Units[u][b] \intersect Held(c)' = {}
    BY <1>2 DEF NewRows, Active
  <2>1. c \in Cursors
    BY DEF Active, Range, FoldTypes
  <2>2. ToCome(u, b, c)
    <3>1. ASSUME NEW v \in Workers, worker'[v].pc \in Busy, worker'[v].unit = u, StillInUnit(v, b, c)'
          PROVE  worker[v].pc \in Busy /\ worker[v].unit = u /\ StillInUnit(v, b, c)
      <4>1. CASE v = w
        <5>1. StillInUnit(w, b, c)
          BY <1>1, <1>2, <1>5, <3>1, <4>1 DEF StillInUnit, FoldTypes
        <5> QED BY <1>1, <1>5, <3>1, <4>1, <5>1 DEF Busy
      <4>2. CASE v # w
        BY <1>2, <1>5, <3>1, <4>2 DEF StillInUnit
      <4> QED BY <4>1, <4>2
    <3> QED BY <1>2, <3>1 DEF ToCome
  <2>3. CASE c # c0
    <3>1. Held(c)' = Held(c)
      BY <1>2, <1>4, <2>1, <2>3 DEF Held
    <3> QED BY <2>2, <3>1 DEF NewRows
  <2>4. CASE c = c0
    <3>1. <<u, b>> # <<u0, b0>>
      <4> SUFFICES ASSUME u = u0, b = b0 PROVE FALSE
        OBVIOUS
      <4>1. PICK v \in Workers : worker'[v].pc \in Busy /\ worker'[v].unit = u0 /\ StillInUnit(v, b0, c0)'
        BY <1>1, <1>2, <2>4, UnitsAssumption DEF ToCome, Units1, Busy, IInv, Types
      <4>2. v = w
        BY <1>1, <1>5, <4>1 DEF Units1, Busy
      <4>3. PICK i \in DOMAIN folds : i >= worker[w].pos + 1 /\ folds[i] = c0
        BY <1>1, <1>2, <1>5, <4>1, <4>2, UnitsAssumption DEF StillInUnit
      <4> QED BY <1>1, <1>5, <4>3 DEF FoldTypes, IsInjective
    <3>2. Units[u][b] \intersect Units[u0][b0] = {}
      BY <1>1, <3>1, RowsAssumption
    <3>3. Units[u][b] \intersect Held(c0) = {}
      BY <2>2, <2>4 DEF NewRows
    <3>4. Held(c0)' \subseteq Held(c0) \union new.rows
      BY <1>2, <1>4 DEF Held
    <3> QED BY <1>3, <2>4, <3>2, <3>3, <3>4
  <2> QED BY <2>3, <2>4
<1> QED BY <1>6, <1>7, <1>8, <1>10, <1>11

LEMMA JoinOnce == OnceInv /\ IInv' /\ (Join \/ SendFrame) => OnceInv'
<1> SUFFICES ASSUME OnceInv, IInv', Join \/ SendFrame PROVE OnceInv'
  OBVIOUS
<1> USE DEF OnceInv
<1>1. CASE Join
  <2>1. UNCHANGED <<folds, channel, cursor, worker, next, slices>> /\ scan' \in {"frame", "over"}
    BY <1>1 DEF Join, scanning
  <2>2. FrameIsLast'
    BY <1>1, <2>1 DEF FrameIsLast, Join
  <2>3. Units1' /\ AtFold' /\ Apart'
    BY <2>1 DEF Units1, AtFold, Consumer, Apart, ApartAt
  <2>4. FoldTypes' /\ NewRows'
    BY <2>1 DEF FoldTypes, NewRows, ToCome, StillInUnit, Held, Active
  <2> QED BY <2>2, <2>3, <2>4
<1>2. CASE SendFrame
  <2>1. PICK new : new = Morsel(UNION {slices[w] : w \in Workers}, 1)
    OBVIOUS
  <2>2. /\ UNCHANGED <<folds, cursor, worker, next, slices>> /\ scan = "frame" /\ scan' = "over"
        /\ channel' = [channel EXCEPT ![Framed] = Append(<<>>, new)]
    BY <1>2, <2>1, ScanAssumption DEF SendFrame, scanning, FrameIsLast, FoldTypes
  <2>3. new \in Morsels
    BY <2>1 DEF Morsel, Morsels, FoldTypes
  <2>4. /\ channel' \in [Cursors -> Seq(Morsels)]
        /\ \A c \in Cursors \ {Framed} : channel'[c] = channel[c]
        /\ channel'[Framed] = <<new>>
    BY <2>2, <2>3, ScanAssumption DEF FoldTypes
  <2>5. FoldTypes' /\ FrameIsLast'
    BY <2>2, <2>4 DEF FoldTypes, FrameIsLast
  <2>6. Units1' /\ AtFold'
    BY <2>2 DEF Units1, AtFold, Consumer
  <2>7. NewRows'
    <3> SUFFICES ASSUME NEW c \in Active \ {Framed} PROVE Held(c)' = Held(c)
      BY <2>2 DEF NewRows, ToCome, StillInUnit, Active
    <3>1. c \in Cursors
      BY DEF Active, Range, FoldTypes
    <3> QED BY <2>2, <2>4, <3>1 DEF Held
  <2>8. Apart'
    <3> SUFFICES ASSUME NEW c \in Cursors PROVE ApartAt(c)'
      BY DEF Apart
    <3>1. CASE c = Framed
      <4>1. cursor'[c].item.rows = {} /\ cursor'[c].got = {}
        BY <2>2, <3>1 DEF FrameIsLast
      <4>2. DOMAIN channel'[c] = {1}
        BY <2>4, <3>1
      <4> QED BY <4>1, <4>2 DEF ApartAt
    <3>2. CASE c # Framed
      BY <2>2, <2>4, <3>2 DEF Apart, ApartAt
    <3> QED BY <3>1, <3>2
  <2> QED BY <2>5, <2>6, <2>7, <2>8
<1> QED BY <1>1, <1>2

\* A cursor's own step: what it holds does not grow, and stays apart.
Own(c) ==
  /\ UNCHANGED <<folds, worker, next, slices, scan>>
  /\ FoldTypes'
  /\ \A d \in Cursors \ {c} : channel'[d] = channel[d] /\ cursor'[d] = cursor[d]
  /\ Held(c)' \subseteq Held(c) /\ ApartAt(c)'
  /\ channel[c] = <<>> => channel'[c] = <<>>

LEMMA OwnInv ==
  ASSUME NEW c \in Cursors, OnceInv, IInv', Own(c)
  PROVE  OnceInv'
<1> USE DEF OnceInv, Own
<1>1. Units1' /\ AtFold'
  BY DEF Units1, AtFold, Consumer
<1>2. Apart'
  BY DEF Apart, ApartAt
<1>3. \A d \in Cursors : Held(d)' \subseteq Held(d)
  BY DEF Held
<1>4. NewRows'
  <2>1. Active \subseteq Cursors
    BY DEF Active, Range, FoldTypes
  <2> QED BY <1>3, <2>1 DEF NewRows, ToCome, StillInUnit, Active
<1>5. FrameIsLast'
  <2> SUFFICES ASSUME scan # "over"
               PROVE  channel'[Framed] = <<>> /\ cursor'[Framed].item.rows = {} /\ cursor'[Framed].got = {}
    BY DEF FrameIsLast
  <2>1. channel[Framed] = <<>> /\ Held(Framed) = {}
    BY DEF FrameIsLast, Held
  <2> QED BY <1>3, <2>1, ScanAssumption DEF Held
<1> QED BY <1>1, <1>2, <1>4, <1>5

LEMMA DeliverOwn ==
  ASSUME NEW c \in Cursors, OnceInv, NEW morsel \in Morsels, NEW out \in SUBSET morsel.rows,
         Deliver(c, morsel, out), UNCHANGED <<folds, worker, next, slices, scan>>,
         morsel.rows \subseteq Held(c), morsel.rows \intersect cursor[c].got = {},
         channel' \in [Cursors -> Seq(Morsels)],
         \A d \in Cursors \ {c} : channel'[d] = channel[d],
         \A i \in DOMAIN channel'[c] :
           /\ channel'[c][i].rows \intersect morsel.rows = {}
           /\ channel'[c][i].rows \intersect cursor[c].got = {}
           /\ channel'[c][i].rows \subseteq Held(c),
         \A i, j \in DOMAIN channel'[c] : i # j => channel'[c][i].rows \intersect channel'[c][j].rows = {},
         channel[c] = <<>> => channel'[c] = <<>>
  PROVE  Own(c)
<1> USE DEF OnceInv
<1>1. PICK item : /\ cursor' = [cursor EXCEPT ![c] = [pc |-> "open", item |-> item, got |-> cursor[c].got \union out]]
                  /\ item \in Morsels /\ item.rows = morsel.rows \ out
  <2>1. PICK item : item = IF morsel.rows \ out = {} THEN Nothing
                           ELSE Morsel(morsel.rows \ out, morsel.bytes)
    OBVIOUS
  <2>2. item \in Morsels /\ item.rows = morsel.rows \ out
    BY <2>1 DEF Morsel, Nothing, Morsels
  <2> QED BY <2>1, <2>2 DEF Deliver
<1>2. /\ cursor' \in [Cursors -> [pc : Pcs, item : Morsels, got : SUBSET Rows]]
      /\ \A d \in Cursors \ {c} : cursor'[d] = cursor[d]
      /\ cursor'[c].item = item /\ cursor'[c].got = cursor[c].got \union out
  BY <1>1 DEF FoldTypes, Pcs, Morsels
<1>3. FoldTypes'
  BY <1>2 DEF FoldTypes
<1>4. ApartAt(c)'
  BY <1>1, <1>2 DEF ApartAt
<1>5. Held(c)' \subseteq Held(c)
  <2>1. cursor[c].got \subseteq Held(c)
    BY DEF Held
  <2> QED BY <1>1, <1>2, <2>1 DEF Held
<1> QED BY <1>2, <1>3, <1>4, <1>5 DEF Own

LEMMA CursorOnce ==
  ASSUME NEW c \in Active, OnceInv, IInv', Cursor(c)
  PROVE  OnceInv'
<1> USE DEF OnceInv
<1>1. c \in Cursors /\ channel[c] \in Seq(Morsels) /\ cursor[c].item \in Morsels
      /\ cursor[c].got \subseteq Rows
  BY DEF Active, Range, FoldTypes
<1>2. ApartAt(c)
  BY <1>1 DEF Apart
<1>3. ASSUME Receive(c) PROVE Own(c)
  <2>1. /\ UNCHANGED <<folds, worker, next, slices, scan>> /\ cursor[c].item = Nothing
        /\ channel[c] # <<>> /\ channel' = [channel EXCEPT ![c] = Tail(channel[c])]
    BY <1>3 DEF Receive, scanning
  <2>2. PICK morsel, out : /\ morsel = channel[c][1] /\ out \in SUBSET morsel.rows
                           /\ Deliver(c, morsel, out)
    BY <1>1, <1>3 DEF Receive
  <2>3. /\ channel' \in [Cursors -> Seq(Morsels)]
        /\ \A d \in Cursors \ {c} : channel'[d] = channel[d]
        /\ \A i \in DOMAIN channel'[c] :
             i + 1 \in DOMAIN channel[c] /\ channel'[c][i] = channel[c][i + 1] /\ i \in Nat \ {0}
        /\ 1 \in DOMAIN channel[c] /\ morsel \in Morsels
    <3>1. Tail(channel[c]) \in Seq(Morsels)
      BY <1>1, <2>1
    <3>2. channel'[c] = Tail(channel[c]) /\ \A d \in Cursors \ {c} : channel'[d] = channel[d]
      BY <1>1, <2>1 DEF FoldTypes
    <3>3. channel' \in [Cursors -> Seq(Morsels)]
      BY <2>1, <3>1 DEF FoldTypes
    <3>4. 1 \in DOMAIN channel[c] /\ channel[c][1] \in Morsels
      BY <1>1, <2>1
    <3>5. \A i \in DOMAIN Tail(channel[c]) :
            i + 1 \in DOMAIN channel[c] /\ Tail(channel[c])[i] = channel[c][i + 1] /\ i \in Nat \ {0}
      BY <1>1, <2>1
    <3> QED BY <2>2, <3>2, <3>3, <3>4, <3>5
  <2>4. morsel.rows \subseteq Held(c)
    BY <2>2, <2>3 DEF Held
  <2>5. \A i \in DOMAIN channel'[c] :
          /\ channel'[c][i].rows \intersect morsel.rows = {}
          /\ channel'[c][i].rows \intersect cursor[c].got = {}
          /\ channel'[c][i].rows \subseteq Held(c)
    <3> SUFFICES ASSUME NEW i \in DOMAIN channel'[c]
                 PROVE  /\ channel'[c][i].rows \intersect morsel.rows = {}
                        /\ channel'[c][i].rows \intersect cursor[c].got = {}
                        /\ channel'[c][i].rows \subseteq Held(c)
      OBVIOUS
    <3>1. i + 1 # 1 /\ i + 1 \in DOMAIN channel[c] /\ channel'[c][i] = channel[c][i + 1]
      BY <2>3
    <3> QED BY <1>2, <2>2, <2>3, <3>1 DEF ApartAt, Held
  <2>6. \A i, j \in DOMAIN channel'[c] : i # j => channel'[c][i].rows \intersect channel'[c][j].rows = {}
    BY <1>2, <2>3 DEF ApartAt
  <2>7. morsel.rows \intersect cursor[c].got = {}
    BY <1>2, <2>2, <2>3 DEF ApartAt
  <2> QED BY <1>1, <2>1, <2>2, <2>3, <2>4, <2>5, <2>6, <2>7, DeliverOwn
<1>4. ASSUME Resume(c) PROVE Own(c)
  <2>1. UNCHANGED <<folds, worker, next, slices, scan, channel>>
    BY <1>4 DEF Resume, scanning
  <2>2. PICK out \in SUBSET cursor[c].item.rows : Deliver(c, cursor[c].item, out)
    BY <1>4 DEF Resume
  <2>3. cursor[c].item.rows \subseteq Held(c)
    BY DEF Held
  <2>4. \A i \in DOMAIN channel'[c] :
          /\ channel'[c][i].rows \intersect cursor[c].item.rows = {}
          /\ channel'[c][i].rows \intersect cursor[c].got = {}
          /\ channel'[c][i].rows \subseteq Held(c)
    BY <1>2, <2>1 DEF ApartAt, Held
  <2>5. /\ \A i, j \in DOMAIN channel'[c] : i # j => channel'[c][i].rows \intersect channel'[c][j].rows = {}
        /\ cursor[c].item.rows \intersect cursor[c].got = {}
    BY <1>2, <2>1 DEF ApartAt
  <2>6. channel' \in [Cursors -> Seq(Morsels)] /\ \A d \in Cursors \ {c} : channel'[d] = channel[d]
    BY <2>1 DEF FoldTypes
  <2>7. channel[c] = <<>> => channel'[c] = <<>>
    BY <2>1
  <2> QED BY <1>1, <2>1, <2>2, <2>3, <2>4, <2>5, <2>6, <2>7, DeliverOwn
<1>5. ASSUME End(c) \/ Unpark(c) \/ Narrow(c) \/ Abandon(c) PROVE Own(c)
  <2>1. UNCHANGED <<folds, worker, next, slices, scan, channel>>
    BY <1>5 DEF End, Unpark, Narrow, Abandon, scanning
  <2>2. PICK pc \in Pcs : cursor' = [cursor EXCEPT ![c].pc = pc]
    <3>1. CASE End(c) \/ Unpark(c) \/ Abandon(c)
      BY <3>1 DEF End, Unpark, Abandon, Pcs
    <3>2. CASE Narrow(c)
      <4>1. cursor' = [cursor EXCEPT ![c].pc = cursor[c].pc]
        BY <1>1, <3>2 DEF Narrow, FoldTypes
      <4> QED BY <1>1, <4>1 DEF FoldTypes
    <3> QED BY <1>5, <3>1, <3>2
  <2>3. /\ cursor' \in [Cursors -> [pc : Pcs, item : Morsels, got : SUBSET Rows]]
        /\ \A d \in Cursors \ {c} : cursor'[d] = cursor[d]
        /\ cursor'[c].item = cursor[c].item /\ cursor'[c].got = cursor[c].got
    BY <1>1, <2>2 DEF FoldTypes
  <2>4. FoldTypes'
    BY <2>1, <2>3 DEF FoldTypes
  <2>5. Held(c)' = Held(c) /\ ApartAt(c)'
    BY <1>2, <2>1, <2>3 DEF Held, ApartAt
  <2> QED BY <2>1, <2>3, <2>4, <2>5 DEF Own
<1> QED BY <1>1, <1>3, <1>4, <1>5, OwnInv DEF Cursor, Draining

LEMMA FoldsInit ==
  ASSUME NEW fs \in {<<Alone>>} \union {<<Framed>> \o rest : rest \in Orders(Cursors \ {Framed})}
  PROVE  fs \in Seq(Cursors) /\ IsInjective(fs)
<1>1. CASE fs = <<Alone>>
  BY <1>1, ScanAssumption DEF IsInjective
<1>2. ASSUME NEW rest \in Orders(Cursors \ {Framed}), fs = <<Framed>> \o rest
      PROVE  fs \in Seq(Cursors) /\ IsInjective(fs)
  <2> DEFINE n == Cardinality(Cursors \ {Framed})
  <2>1. n \in Nat
    BY ScanAssumption, FS_Difference, FS_CardinalityType
  <2> HIDE DEF n
  <2>2. rest \in [1..n -> Cursors \ {Framed}] /\ IsInjective(rest)
    BY DEF Orders, n
  <2>3. rest \in Seq(Cursors) /\ Len(rest) = n
    BY <2>1, <2>2
  <2>4. /\ fs \in Seq(Cursors) /\ DOMAIN fs = 1..(n + 1) /\ fs[1] = Framed
        /\ \A i \in 2..(n + 1) : fs[i] = rest[i - 1]
    BY <1>2, <2>1, <2>3, ScanAssumption
  <2>5. \A i \in 2..(n + 1) : fs[i] # Framed /\ i - 1 \in 1..n
    BY <2>1, <2>2, <2>4
  <2>6. ASSUME NEW i \in DOMAIN fs, NEW j \in DOMAIN fs, fs[i] = fs[j] PROVE i = j
    <3>1. CASE i = 1 \/ j = 1
      BY <2>1, <2>4, <2>5, <2>6, <3>1
    <3>2. CASE i \in 2..(n + 1) /\ j \in 2..(n + 1)
      <4>1. rest[i - 1] = rest[j - 1] /\ i - 1 \in DOMAIN rest /\ j - 1 \in DOMAIN rest
        BY <2>2, <2>4, <2>5, <2>6, <3>2
      <4>2. i - 1 = j - 1
        BY <2>2, <4>1 DEF IsInjective
      <4> QED BY <2>1, <3>2, <4>2
    <3> QED BY <2>1, <2>4, <3>1, <3>2
  <2> QED BY <2>4, <2>6 DEF IsInjective
<1> QED BY <1>1, <1>2

LEMMA OnceInit == Init => OnceInv
<1> SUFFICES ASSUME Init PROVE OnceInv
  OBVIOUS
<1>1. FoldTypes
  <2>1. folds \in Seq(Cursors) /\ IsInjective(folds)
    BY FoldsInit DEF Init
  <2>2. \A c \in Cursors : cursor[c] \in [pc : Pcs, item : Morsels, got : SUBSET Rows]
    BY DEF Init, Nothing, Morsel, Morsels, Pcs
  <2> QED BY <2>1, <2>2 DEF Init, FoldTypes
<1>2. \A c \in Cursors : channel[c] = <<>> /\ cursor[c].item.rows = {} /\ cursor[c].got = {}
  BY DEF Init, Nothing, Morsel
<1>3. Units1 /\ AtFold
  BY DEF Init, Units1, AtFold, Busy
<1>4. NewRows
  <2>1. Active \subseteq Cursors
    BY <1>1 DEF Active, Range, FoldTypes
  <2> QED BY <1>2, <2>1 DEF NewRows, Held
<1>5. FrameIsLast /\ Apart
  BY <1>2, ScanAssumption DEF Init, FrameIsLast, Apart, ApartAt
<1> QED BY <1>1, <1>3, <1>4, <1>5, InitInv DEF OnceInv

LEMMA OnceNext == OnceInv /\ [Next]_vars => OnceInv'
<1> SUFFICES ASSUME OnceInv, [Next]_vars PROVE OnceInv'
  OBVIOUS
<1>1. IInv'
  BY NextInv DEF OnceInv
<1>2. ASSUME NEW w \in Workers, Worker(w) PROVE OnceInv'
  BY <1>1, <1>2, ClaimOnce, SendOnce, WorkerOnwards, OnwardsInv DEF Worker
<1>3. CASE UNCHANGED vars
  <2>1. UNCHANGED <<folds, worker, next, channel, cursor, slices, scan>>
    BY <1>3 DEF vars, scanning
  <2>2. Units1' /\ AtFold' /\ FrameIsLast' /\ Apart'
    BY <2>1 DEF OnceInv, Units1, AtFold, Consumer, FrameIsLast, Apart, ApartAt
  <2>3. FoldTypes' /\ NewRows'
    BY <2>1 DEF OnceInv, FoldTypes, NewRows, ToCome, StillInUnit, Held, Active
  <2> QED BY <1>1, <2>2, <2>3 DEF OnceInv
<1> QED BY <1>1, <1>2, <1>3, JoinOnce, CursorOnce DEF Next

LEMMA ApartIsOnce == OnceInv => RowsArriveOnce
<1> SUFFICES ASSUME OnceInv, NEW c \in Active
             PROVE  LET morsels == channel[c] \o <<cursor[c].item>> IN
                    /\ \A i \in DOMAIN morsels : morsels[i].rows \intersect cursor[c].got = {}
                    /\ \A i, j \in DOMAIN morsels :
                         i # j => morsels[i].rows \intersect morsels[j].rows = {}
  BY DEF RowsArriveOnce
<1>1. c \in Cursors /\ channel[c] \in Seq(Morsels) /\ cursor[c].item \in Morsels
  BY DEF OnceInv, FoldTypes, Active, Range
<1> DEFINE morsels == channel[c] \o <<cursor[c].item>>
           n == Len(channel[c])
<1>2. /\ n \in Nat /\ DOMAIN channel[c] = 1..n /\ DOMAIN morsels = 1..(n + 1)
      /\ morsels[n + 1] = cursor[c].item
      /\ \A i \in 1..n : morsels[i] = channel[c][i]
  BY <1>1
<1>3. \A i \in 1..(n + 1) : i \in 1..n \/ i = n + 1
  BY <1>2
<1>4. ApartAt(c)
  BY <1>1 DEF OnceInv, Apart
<1> HIDE DEF morsels, n
<1>5. \A i \in DOMAIN morsels : morsels[i].rows \intersect cursor[c].got = {}
  BY <1>2, <1>3, <1>4 DEF ApartAt
<1>6. ASSUME NEW i \in DOMAIN morsels, NEW j \in DOMAIN morsels, i # j
      PROVE  morsels[i].rows \intersect morsels[j].rows = {}
  BY <1>2, <1>3, <1>4, <1>6 DEF ApartAt
<1> QED BY <1>5, <1>6 DEF morsels

\* What a cursor gave, what it is slicing and what is on its way to it never
\* share a row, however the workers take turns and wherever reading fails.
THEOREM NoRowTwice == Spec => []RowsArriveOnce
BY OnceInit, OnceNext, ApartIsOnce, PTL DEF Spec
-----------------------------------------------------------------------------
(* Every row arrives *)

Failing == \E w \in Workers : worker[w].pc = "failed"

\* What a cursor holds, or the workers for it.
Gathered(c) ==
  IF c = Framed /\ scan # "over" THEN UNION {slices[w] : w \in Workers} ELSE Held(c)

\* Of a unit that was not ruled out, what has gone by a cursor has been kept.
HasRows ==
  ~Failing => \A c \in Active : ~stop[c] =>
    \A u \in DOMAIN Units \ excluded : \A b \in DOMAIN Units[u] :
      ToCome(u, b, c) \/ Units[u][b] \intersect Selected[c] \subseteq Gathered(c)

\* Who stops a scan is leaving; a worker is done when no unit is left; what is
\* ruled out has no row that is left; and a cursor ends when all is drained.
Stopped ==
  /\ stop \in [Cursors -> BOOLEAN]
  /\ \A c \in Cursors : stop[c] => cursor[c].pc \in {"leaving", "gone"}
DoneIsAll == (\E w \in Workers : worker[w].pc = "done") => Cancelled \/ next > Len(Units)
RuledOut == \A u \in excluded : \A b \in DOMAIN Units[u] : Units[u][b] \intersect Kept = {}
EndIsDrained ==
  \A c \in Cursors : cursor[c].pc = "ended" =>
    scan = "over" /\ channel[c] = <<>> /\ cursor[c].item.rows = {}

FlowInv == Stopped /\ DoneIsAll /\ RuledOut /\ EndIsDrained
RowsInv == OnceInv /\ FlowInv /\ HasRows

\* What a worker's step leaves alone.
LEMMA WorkerStep ==
  ASSUME NEW w \in Workers, IInv, Worker(w)
  PROVE  /\ UNCHANGED <<folds, excluded, stop, cursor, scan>>
         /\ next' = next \/ (Claim(w) /\ next' = next + 1)
         /\ \A v \in Workers : v # w => worker'[v] = worker[v]
         /\ worker[w].pc \notin {"done", "failed"}
         /\ worker'[w].pc = "done" => Cancelled \/ next > Len(Units)
         /\ channel' = channel \/ Send(w)
<1> USE DEF IInv, Types
<1>1. CASE Claim(w)
  BY <1>1 DEF Claim
<1>2. CASE NoMore(w)
  BY <1>2 DEF NoMore, Leave
<1>3. CASE Scanned(w)
  BY <1>3 DEF Scanned, Leave, Moved
<1>4. CASE Admitted(w) \/ Seal(w) \/ Throw(w)
  BY <1>4 DEF Admitted, Seal, Throw
<1>5. CASE AddUp(w) \/ Ignore(w) \/ Step(w)
  BY <1>5 DEF AddUp, Ignore, Step
<1>6. CASE Send(w) \/ Stepped(w)
  BY <1>6 DEF Send, Stepped, Moved
<1> QED BY <1>1, <1>2, <1>3, <1>4, <1>5, <1>6 DEF Worker

LEMMA WorkerFlow ==
  ASSUME NEW w \in Workers, OnceInv, FlowInv, Worker(w)
  PROVE  FlowInv'
<1> USE DEF FlowInv, OnceInv
<1>1. /\ UNCHANGED <<folds, excluded, stop, cursor, scan>>
      /\ next' = next \/ next' = next + 1
      /\ \A v \in Workers : v # w => worker'[v] = worker[v]
      /\ worker[w].pc \notin {"done", "failed"}
      /\ worker'[w].pc = "done" => Cancelled \/ next > Len(Units)
      /\ channel' = channel \/ Send(w)
  BY WorkerStep
<1>2. Stopped' /\ RuledOut'
  BY <1>1 DEF Stopped, RuledOut
<1>3. DoneIsAll'
  BY <1>1, UnitsAssumption DEF DoneIsAll, Cancelled, IInv, Types
<1>4. EndIsDrained'
  <2>1. scan # "over"
    BY <1>1 DEF FrameIsLast
  <2> QED BY <1>1, <2>1 DEF EndIsDrained
<1> QED BY <1>2, <1>3, <1>4

LEMMA NextFlow == OnceInv /\ FlowInv /\ [Next]_vars => FlowInv'
<1> SUFFICES ASSUME OnceInv, FlowInv, [Next]_vars PROVE FlowInv'
  OBVIOUS
<1> USE DEF FlowInv, OnceInv, Cancelled
<1>1. CASE Join \/ SendFrame
  <2>1. /\ UNCHANGED <<folds, excluded, stop, cursor, worker, next>>
        /\ scan # "over" /\ (channel' = channel \/ scan # "over")
    BY <1>1 DEF Join, SendFrame, scanning
  <2>2. \A c \in Cursors : cursor[c].pc # "ended"
    BY <2>1 DEF EndIsDrained
  <2> QED BY <2>1, <2>2 DEF Stopped, DoneIsAll, RuledOut, EndIsDrained
<1>2. ASSUME NEW c \in Active, Cursor(c) PROVE FlowInv'
  <2>0. /\ c \in Cursors /\ cursor[c].item \in Morsels /\ channel[c] \in Seq(Morsels)
        /\ cursor \in [Cursors -> [pc : Pcs, item : Morsels, got : SUBSET Rows]]
        /\ channel \in [Cursors -> Seq(Morsels)]
    BY DEF Active, Range, FoldTypes
  <2>1. UNCHANGED <<folds, worker, next, scan>>
    BY <1>2 DEF Cursor, Draining, Receive, Resume, End, Unpark, Narrow, Abandon, scanning
  <2>2. CASE Receive(c) \/ Resume(c)
    <3>1. UNCHANGED <<excluded, stop>> /\ cursor[c].pc = "open"
      BY <2>2 DEF Receive, Resume
    <3>2. PICK e : cursor' = [cursor EXCEPT ![c] = e] /\ e.pc = "open"
      <4>1. PICK m, out : Deliver(c, m, out)
        BY <2>2 DEF Receive, Resume
      <4>2. PICK item : item = IF m.rows \ out = {} THEN Nothing ELSE Morsel(m.rows \ out, m.bytes)
        OBVIOUS
      <4>3. PICK e : e = [pc |-> "open", item |-> item, got |-> cursor[c].got \union out]
        OBVIOUS
      <4>4. cursor' = [cursor EXCEPT ![c] = e]
        BY <4>1, <4>2, <4>3 DEF Deliver
      <4>5. e.pc = "open"
        BY <4>3
      <4> QED BY <4>4, <4>5
    <3>3. \A d \in Cursors : d # c => cursor'[d] = cursor[d] /\ channel'[d] = channel[d]
      BY <2>0, <2>2, <3>2 DEF Receive, Resume
    <3>4. cursor'[c].pc = "open"
      BY <2>0, <3>2
    <3> QED BY <2>0, <2>1, <3>1, <3>3, <3>4 DEF Stopped, DoneIsAll, RuledOut, EndIsDrained
  <2>3. CASE End(c)
    <3>1. /\ UNCHANGED <<excluded, stop, channel>> /\ cursor[c].pc = "open"
          /\ cursor[c].item = Nothing /\ channel[c] = <<>> /\ scan = "over"
          /\ cursor' = [cursor EXCEPT ![c].pc = "ended"]
      BY <2>3 DEF End
    <3>2. \A d \in Cursors : cursor'[d].item = cursor[d].item
                             /\ (d # c => cursor'[d].pc = cursor[d].pc)
      BY <2>0, <3>1
    <3>3. ~stop[c] /\ cursor[c].item.rows = {}
      <4>1. ~stop[c]
        BY <2>0, <3>1 DEF Stopped
      <4>2. Nothing.rows = {}
        BY DEF Nothing, Morsel
      <4> QED BY <3>1, <4>1, <4>2
    <3> QED BY <2>0, <2>1, <3>1, <3>2, <3>3 DEF Stopped, DoneIsAll, RuledOut, EndIsDrained
  <2>4. CASE Unpark(c) \/ Abandon(c)
    <3>1. UNCHANGED <<excluded, channel>> /\ (stop' = stop \/ stop' = [stop EXCEPT ![c] = TRUE])
      BY <2>4 DEF Unpark, Abandon
    <3>2. /\ cursor'[c].pc \in {"leaving", "gone"}
          /\ \A d \in Cursors : d # c => cursor'[d] = cursor[d]
      BY <2>0, <2>4 DEF Unpark, Abandon
    <3>3. \A d \in Cursors : stop[d] => stop'[d]
      BY <2>0, <3>1 DEF Stopped
    <3>4. Stopped'
      BY <2>0, <3>1, <3>2 DEF Stopped
    <3>5. Cancelled => Cancelled'
      BY <2>1, <3>3, ScanAssumption
    <3> QED BY <2>0, <2>1, <3>1, <3>2, <3>4, <3>5 DEF DoneIsAll, RuledOut, EndIsDrained
  <2>5. CASE Narrow(c)
    <3>1. UNCHANGED <<channel, stop, cursor>>
      BY <2>5 DEF Narrow
    <3>2. PICK X \in SUBSET {u \in DOMAIN Units : (UNION Range(Units[u])) \intersect Kept = {}} :
            excluded' = excluded \union X
      BY <2>5 DEF Narrow
    <3>3. RuledOut'
      <4> SUFFICES ASSUME NEW u \in excluded', NEW b \in DOMAIN Units[u]
                   PROVE  Units[u][b] \intersect Kept = {}
        BY DEF RuledOut
      <4>1. CASE u \in excluded
        BY <4>1 DEF RuledOut, FlowInv
      <4>2. CASE u \in X
        BY <4>2 DEF Range
      <4> QED BY <3>2, <4>1, <4>2
    <3> QED BY <2>1, <3>1, <3>3 DEF Stopped, DoneIsAll, EndIsDrained
  <2> QED BY <1>2, <2>2, <2>3, <2>4, <2>5 DEF Cursor, Draining
<1>3. CASE UNCHANGED vars
  BY <1>3 DEF vars, scanning, Stopped, DoneIsAll, RuledOut, EndIsDrained
<1> QED BY <1>1, <1>2, <1>3, WorkerFlow DEF Next

\* A worker takes nothing away, and a batch that has gone by a cursor was kept
\* for it, unless it had stopped.
LEMMA WorkerKeeps ==
  ASSUME NEW w \in Workers, OnceInv, Worker(w), NEW c \in Active
  PROVE  Gathered(c) \subseteq Gathered(c)'
<1> USE DEF OnceInv
<1>1. UNCHANGED <<folds, cursor, scan>> /\ (channel' = channel \/ Send(w))
  BY WorkerStep
<1>2. c \in Cursors
  BY DEF Active, Range, FoldTypes
<1>3. \A v \in Workers : slices[v] \subseteq slices'[v]
  <2>1. CASE AddUp(w)
    BY <2>1 DEF AddUp, FoldTypes
  <2>2. CASE ~AddUp(w)
    BY <2>2 DEF Worker, Claim, NoMore, Admitted, Scanned, Seal, Throw, Ignore, Step, Send,
       Stepped
  <2> QED BY <2>1, <2>2
<1>4. Held(c) \subseteq Held(c)'
  <2>1. CASE channel' = channel
    BY <1>1, <2>1 DEF Held
  <2>2. CASE Send(w)
    <3>1. PICK c0, m : channel' = [channel EXCEPT ![c0] = Append(channel[c0], m)]
      BY <2>2 DEF Send
    <3>2. /\ channel[c] \in Seq(Morsels)
          /\ channel'[c] = channel[c] \/ channel'[c] = Append(channel[c], m)
      BY <1>2, <3>1 DEF FoldTypes
    <3>3. \A i \in DOMAIN channel[c] : i \in DOMAIN channel'[c] /\ channel'[c][i] = channel[c][i]
      BY <3>2
    <3> QED BY <1>1, <3>3 DEF Held
  <2> QED BY <1>1, <2>1, <2>2
<1> QED BY <1>1, <1>3, <1>4 DEF Gathered

LEMMA WorkerPasses ==
  ASSUME NEW w \in Workers, OnceInv, FlowInv, IInv', Worker(w), ~Failing',
         NEW c \in Active, ~stop[c],
         NEW u \in DOMAIN Units \ excluded, NEW b \in DOMAIN Units[u], ToCome(u, b, c)
  PROVE  ToCome(u, b, c)' \/ Units[u][b] \intersect Selected[c] \subseteq Gathered(c)'
<1> USE DEF OnceInv, IInv, FoldTypes
<1>0. /\ UNCHANGED <<folds, cursor, scan>>
      /\ next' = next \/ (Claim(w) /\ next' = next + 1)
      /\ \A v \in Workers : v # w => worker'[v] = worker[v]
      /\ worker \in [Workers -> [pc : Busy \union {"claim", "done", "failed"},
                                 unit : Nat, batch : Nat, pos : Nat]]
      /\ next \in Nat
  BY WorkerStep DEF Types
<1>1. /\ u \in Nat /\ b \in Nat /\ b # 0 /\ c \in Cursors /\ \E i \in DOMAIN folds : folds[i] = c
      /\ DOMAIN folds = 1 .. Len(folds) /\ Len(folds) \in Nat
  BY UnitsAssumption DEF Active, Range
<1>2. ~Cancelled
  BY ScanAssumption DEF Cancelled, Active, Range
<1>3. SUFFICES ASSUME ~ToCome(u, b, c)'
               PROVE  Units[u][b] \intersect Selected[c] \subseteq Gathered(c)'
  OBVIOUS
\* It has gone by because of this worker.
<1>4. ASSUME Claim(w) PROVE FALSE
  <2>1. worker[w].pc = "claim"
    BY <1>4 DEF Claim
  <2>2. CASE u = next
    <3>1. worker' = [worker EXCEPT ![w] = [pc |-> "decode", unit |-> next, batch |-> 1, pos |-> 1]]
      BY <1>4, <2>2 DEF Claim
    <3>2. worker'[w].pc \in Busy /\ worker'[w].unit = u /\ worker'[w].batch = 1 /\ worker'[w].pc = "decode"
      BY <1>0, <2>2, <3>1 DEF Busy
    <3>3. StillInUnit(w, b, c)'
      BY <1>1, <3>2 DEF StillInUnit
    <3> QED BY <1>3, <3>2, <3>3 DEF ToCome
  <2>3. CASE u > next
    BY <1>0, <1>1, <1>3, <2>3 DEF ToCome
  <2>4. CASE u < next
    <3>1. PICK v \in Workers : worker[v].pc \in Busy /\ worker[v].unit = u /\ StillInUnit(v, b, c)
      BY <1>0, <1>1, <2>4 DEF ToCome
    <3>2. v # w
      BY <2>1, <3>1 DEF Busy
    <3>3. worker'[v] = worker[v] /\ StillInUnit(v, b, c)'
      BY <1>0, <3>1, <3>2 DEF StillInUnit
    <3> QED BY <1>3, <3>1, <3>3 DEF ToCome
  <2> QED BY <1>0, <1>1, <2>2, <2>3, <2>4
<1>5. /\ worker[w].pc \in Busy /\ worker[w].unit = u /\ StillInUnit(w, b, c)
      /\ next' = next
      /\ worker'[w].pc \in Busy /\ worker'[w].unit = u => ~StillInUnit(w, b, c)'
  <2>1. next' = next /\ ~(u >= next)
    BY <1>0, <1>3, <1>4 DEF ToCome
  <2>2. PICK v \in Workers : worker[v].pc \in Busy /\ worker[v].unit = u /\ StillInUnit(v, b, c)
    BY <2>1 DEF ToCome
  <2>3. v = w
    <3> SUFFICES ASSUME v # w PROVE FALSE
      OBVIOUS
    <3>1. worker'[v] = worker[v] /\ StillInUnit(v, b, c)'
      BY <1>0, <2>2 DEF StillInUnit
    <3> QED BY <1>3, <2>2, <3>1 DEF ToCome
  <2> QED BY <1>3, <2>1, <2>2, <2>3 DEF ToCome
<1>6. ~NoMore(w)
  BY <1>5 DEF NoMore, Busy
<1>7. ~Admitted(w)
  <2> SUFFICES ASSUME Admitted(w) PROVE FALSE
    OBVIOUS
  <2>1. worker[w].pc = "decode" /\ worker' = [worker EXCEPT ![w].pc = "batch"]
    BY DEF Admitted
  <2>2. /\ worker'[w].pc = "batch" /\ worker'[w].unit = u
        /\ worker'[w].batch = worker[w].batch /\ worker'[w].pos = worker[w].pos
    BY <1>0, <1>5, <2>1
  <2> QED BY <1>0, <1>5, <2>2 DEF StillInUnit, Busy
<1>8. ~Scanned(w)
  <2> SUFFICES ASSUME Scanned(w) PROVE FALSE
    OBVIOUS
  <2>1. worker[w].pc = "batch" /\ worker' = [worker EXCEPT ![w] = Moved(w, "step", worker[w].batch, 1)]
    BY <1>2 DEF Scanned
  <2>2. /\ worker'[w].pc = "step" /\ worker'[w].unit = u
        /\ worker'[w].batch = worker[w].batch /\ worker'[w].pos = 1
    BY <1>0, <1>5, <2>1 DEF Moved
  <2>3. StillInUnit(w, b, c)'
    BY <1>0, <1>1, <1>5, <2>1, <2>2 DEF StillInUnit
  <2> QED BY <1>5, <2>2, <2>3 DEF Busy
<1>9. ~Seal(w)
  <2> SUFFICES ASSUME Seal(w) PROVE FALSE
    OBVIOUS
  <2>1. worker[w].pc = "batch" /\ worker[w].batch > Len(Units[u])
    BY <1>5 DEF Seal, UnitIsRead
  <2>2. b <= Len(Units[u]) /\ Len(Units[u]) \in Nat
    BY UnitsAssumption
  <2> QED BY <1>0, <1>1, <1>5, <2>1, <2>2 DEF StillInUnit
<1>10. ~Throw(w)
  <2> SUFFICES ASSUME Throw(w) PROVE FALSE
    OBVIOUS
  <2>1. worker'[w].pc = "failed"
    BY <1>0 DEF Throw
  <2> QED BY <2>1 DEF Failing
<1>11. ~Step(w)
  <2> SUFFICES ASSUME Step(w) PROVE FALSE
    OBVIOUS
  <2>1. worker[w].pc = "step" /\ worker' = [worker EXCEPT ![w].pc = "send"]
    BY DEF Step
  <2>2. /\ worker'[w].pc = "send" /\ worker'[w].unit = u
        /\ worker'[w].batch = worker[w].batch /\ worker'[w].pos = worker[w].pos
    BY <1>0, <1>5, <2>1
  <2> QED BY <1>0, <1>5, <2>1, <2>2 DEF StillInUnit, Busy
<1>12. ~Stepped(w)
  <2> SUFFICES ASSUME Stepped(w) PROVE FALSE
    OBVIOUS
  <2>1. /\ worker[w].pc = "step" /\ worker[w].pos > Len(folds)
        /\ worker' = [worker EXCEPT ![w] = Moved(w, "batch", worker[w].batch + 1, worker[w].pos)]
    BY DEF Stepped
  <2>2. /\ worker'[w].pc = "batch" /\ worker'[w].unit = u
        /\ worker'[w].batch = worker[w].batch + 1
    BY <1>0, <1>5, <2>1 DEF Moved
  <2>3. b > worker[w].batch
    BY <1>0, <1>1, <1>5, <2>1 DEF StillInUnit
  <2>4. StillInUnit(w, b, c)'
    BY <1>0, <1>1, <2>2, <2>3 DEF StillInUnit
  <2> QED BY <1>5, <2>2, <2>4 DEF Busy
\* It passes the fold of this cursor.
<1>13. CASE AddUp(w) \/ Ignore(w) \/ Send(w)
  <2>1. /\ worker[w].pc \in {"step", "send"} /\ worker'[w].pc = "step" /\ worker'[w].unit = u
        /\ worker'[w].batch = worker[w].batch /\ worker'[w].pos = worker[w].pos + 1
    BY <1>0, <1>5, <1>13 DEF AddUp, Ignore, Send, Moved
  <2>2. b = worker[w].batch /\ Consumer(w) = c
    <3>1. ~StillInUnit(w, b, c)'
      BY <1>5, <2>1 DEF Busy
    <3>2. b = worker[w].batch /\ \E i \in DOMAIN folds : i >= worker[w].pos /\ folds[i] = c
      BY <1>0, <1>5, <2>1, <3>1 DEF StillInUnit
    <3>3. PICK i \in DOMAIN folds : i >= worker[w].pos /\ folds[i] = c
      BY <3>2
    <3>4. ~(i >= worker[w].pos + 1)
      BY <1>0, <2>1, <3>1, <3>2, <3>3 DEF StillInUnit
    <3>5. i = worker[w].pos
      BY <1>0, <1>1, <3>3, <3>4
    <3> QED BY <3>2, <3>3, <3>5 DEF Consumer
  <2>3. Chosen(w) = Units[u][b] \intersect Selected[c]
    BY <1>5, <2>2 DEF Chosen, Batch
  <2>4. CASE AddUp(w)
    <3>1. slices' = [slices EXCEPT ![w] = @ \union Chosen(w)] /\ c = Framed
      BY <2>2, <2>4 DEF AddUp
    <3>2. Chosen(w) \subseteq slices'[w]
      BY <3>1
    <3>3. scan # "over"
      BY <1>5 DEF FrameIsLast, Busy
    <3> QED BY <1>0, <2>3, <3>1, <3>2, <3>3 DEF Gathered
  <2>5. CASE Ignore(w)
    <3>1. Chosen(w) = {}
      BY <2>2, <2>5 DEF Ignore
    <3> QED BY <2>3, <3>1
  <2>6. CASE Send(w)
    <3>1. c # Framed
      BY <2>2, <2>6 DEF AtFold, Send
    <3>2. PICK m : m = Morsel(Chosen(w), Cardinality(Chosen(w)))
      OBVIOUS
    <3>3. channel' = [channel EXCEPT ![c] = Append(channel[c], m)]
      BY <2>2, <2>6, <3>2 DEF Send
    <3>4. channel[c] \in Seq(Morsels) /\ channel'[c] = Append(channel[c], m)
      BY <1>1, <3>3
    <3>5. Len(channel[c]) + 1 \in DOMAIN channel'[c] /\ channel'[c][Len(channel[c]) + 1] = m
      BY <3>4
    <3>6. m.rows \subseteq Held(c)'
      BY <3>5 DEF Held
    <3>7. m.rows = Chosen(w)
      BY <3>2 DEF Morsel
    <3> QED BY <2>3, <3>1, <3>6, <3>7 DEF Gathered
  <2> QED BY <1>13, <2>4, <2>5, <2>6
<1> QED BY <1>4, <1>6, <1>7, <1>8, <1>9, <1>10, <1>11, <1>12, <1>13 DEF Worker

LEMMA WorkerRows ==
  ASSUME NEW w \in Workers, OnceInv, FlowInv, HasRows, IInv', Worker(w)
  PROVE  HasRows'
<1>1. /\ UNCHANGED <<folds, excluded, stop>>
      /\ \A v \in Workers : v # w => worker'[v] = worker[v]
      /\ worker[w].pc \notin {"done", "failed"}
  BY WorkerStep DEF OnceInv
<1>2. ~Failing' => ~Failing
  BY <1>1 DEF Failing
<1> SUFFICES ASSUME ~Failing', NEW c \in Active, ~stop[c],
                    NEW u \in DOMAIN Units \ excluded, NEW b \in DOMAIN Units[u]
             PROVE  ToCome(u, b, c)' \/ Units[u][b] \intersect Selected[c] \subseteq Gathered(c)'
  BY <1>1 DEF HasRows, Active
<1>3. ToCome(u, b, c) \/ Units[u][b] \intersect Selected[c] \subseteq Gathered(c)
  BY <1>2 DEF HasRows
<1> QED BY <1>3, WorkerPasses, WorkerKeeps

\* Slicing a morsel loses no row of it.
LEMMA DeliverKeeps ==
  ASSUME NEW c \in Cursors, FoldTypes, NEW m, NEW out, out \subseteq m.rows, Deliver(c, m, out)
  PROVE  m.rows \union cursor[c].got \subseteq cursor'[c].item.rows \union cursor'[c].got
<1>1. PICK item : item = IF m.rows \ out = {} THEN Nothing ELSE Morsel(m.rows \ out, m.bytes)
  OBVIOUS
<1>2. item.rows = m.rows \ out
  BY <1>1 DEF Nothing, Morsel
<1>3. cursor' = [cursor EXCEPT ![c] =
                   [pc |-> "open", item |-> item, got |-> cursor[c].got \union out]]
  BY <1>1 DEF Deliver
<1>4. cursor'[c].item = item /\ cursor'[c].got = cursor[c].got \union out
  BY <1>3 DEF FoldTypes
<1> QED BY <1>2, <1>4

LEMMA CursorKeeps ==
  ASSUME NEW c \in Active, OnceInv, Cursor(c), NEW d \in Cursors
  PROVE  Held(d) \subseteq Held(d)'
<1>0. /\ c \in Cursors /\ channel[c] \in Seq(Morsels) /\ FoldTypes
      /\ cursor \in [Cursors -> [pc : Pcs, item : Morsels, got : SUBSET Rows]]
      /\ channel \in [Cursors -> Seq(Morsels)]
  BY DEF Active, Range, OnceInv, FoldTypes
<1>1. CASE Receive(c)
  <2>1. /\ cursor[c].item = Nothing /\ channel[c] # <<>>
        /\ channel' = [channel EXCEPT ![c] = Tail(channel[c])]
    BY <1>1 DEF Receive
  <2>2. PICK m, out : m = Head(channel[c]) /\ out \subseteq m.rows /\ Deliver(c, m, out)
    BY <1>1 DEF Receive
  <2>3. m.rows \union cursor[c].got \subseteq cursor'[c].item.rows \union cursor'[c].got
    BY <1>0, <2>2, DeliverKeeps
  <2>4. d # c => channel'[d] = channel[d] /\ cursor'[d] = cursor[d]
    BY <1>0, <2>1, <2>2 DEF Deliver
  <2>5. channel'[c] = Tail(channel[c])
    BY <1>0, <2>1
  <2>6. ASSUME NEW i \in DOMAIN channel[c]
        PROVE  channel[c][i] = m \/ (i - 1 \in DOMAIN channel'[c] /\ channel'[c][i - 1] = channel[c][i])
    BY <1>0, <2>1, <2>2, <2>5
  <2>7. cursor[c].item.rows = {}
    BY <2>1 DEF Nothing, Morsel
  <2>8. CASE d = c
    <3> SUFFICES ASSUME NEW r \in Held(c) PROVE r \in Held(c)'
      BY <2>8
    <3>1. CASE r \in cursor[c].got
      BY <2>3, <3>1 DEF Held
    <3>2. ASSUME NEW i \in DOMAIN channel[c], r \in channel[c][i].rows PROVE r \in Held(c)'
      <4>1. CASE channel[c][i] = m
        BY <2>3, <3>2, <4>1 DEF Held
      <4>2. CASE channel[c][i] # m
        <5>1. i - 1 \in DOMAIN channel'[c] /\ r \in channel'[c][i - 1].rows
          BY <2>6, <3>2, <4>2
        <5> QED BY <5>1 DEF Held
      <4> QED BY <4>1, <4>2
    <3> QED BY <2>7, <3>1, <3>2 DEF Held
  <2> QED BY <2>4, <2>8 DEF Held
<1>2. CASE Resume(c)
  <2>1. channel' = channel
    BY <1>2 DEF Resume
  <2>2. PICK r \in cursor[c].item.rows : Deliver(c, cursor[c].item, {r})
    BY <1>2 DEF Resume
  <2>3. cursor[c].item.rows \union cursor[c].got \subseteq cursor'[c].item.rows \union cursor'[c].got
    BY <1>0, <2>2, DeliverKeeps
  <2>4. d # c => cursor'[d] = cursor[d]
    BY <1>0, <2>2 DEF Deliver
  <2> QED BY <2>1, <2>3, <2>4 DEF Held
<1>3. CASE End(c) \/ Unpark(c) \/ Narrow(c) \/ Abandon(c)
  <2>1. channel' = channel
    BY <1>3 DEF End, Unpark, Narrow, Abandon
  <2>2. cursor' = cursor \/ \E l : cursor' = [cursor EXCEPT ![c].pc = l]
    BY <1>3 DEF End, Unpark, Narrow, Abandon
  <2>3. cursor'[d].item = cursor[d].item /\ cursor'[d].got = cursor[d].got
    BY <1>0, <2>2
  <2> QED BY <2>1, <2>3 DEF Held
<1> QED BY <1>1, <1>2, <1>3 DEF Cursor, Draining

LEMMA NextRows ==
  ASSUME OnceInv, FlowInv, HasRows, IInv', [Next]_vars
  PROVE  HasRows'
<1>0. Active \subseteq Cursors
  BY DEF Active, Range, OnceInv, FoldTypes
<1>1. CASE Join
  <2>1. UNCHANGED <<folds, excluded, stop, worker, next, channel, cursor, slices>>
    BY <1>1 DEF Join, scanning
  <2>2. \A c \in Active : Gathered(c)' = Gathered(c)
    BY <1>1, <2>1 DEF Join, Gathered, Held
  <2> QED BY <2>1, <2>2 DEF HasRows, Active, Failing, ToCome, StillInUnit
<1>2. CASE SendFrame
  <2>1. /\ UNCHANGED <<folds, excluded, stop, worker, next, cursor, slices>>
        /\ scan = "frame" /\ scan' = "over" /\ channel[Framed] = <<>>
    BY <1>2 DEF SendFrame, scanning, OnceInv, FrameIsLast
  <2>2. PICK m : /\ m = Morsel(UNION {slices[w] : w \in Workers}, 1)
                 /\ channel' = [channel EXCEPT ![Framed] = Append(@, m)]
    BY <1>2 DEF SendFrame
  <2>3. /\ channel'[Framed] = <<m>>
        /\ \A c \in Cursors : c # Framed => channel'[c] = channel[c]
    BY <2>1, <2>2, ScanAssumption DEF OnceInv, FoldTypes
  <2>4. m.rows = UNION {slices[w] : w \in Workers}
    BY <2>2 DEF Morsel
  <2>5. 1 \in DOMAIN channel'[Framed] /\ channel'[Framed][1] = m
    BY <2>3
  <2>6. UNION {slices[w] : w \in Workers} \subseteq Held(Framed)'
    BY <2>4, <2>5 DEF Held
  <2>7. \A c \in Active : Gathered(c) \subseteq Gathered(c)'
    BY <1>0, <2>1, <2>3, <2>6 DEF Gathered, Held
  <2> QED BY <2>1, <2>7 DEF HasRows, Active, Failing, ToCome, StillInUnit
<1>3. ASSUME NEW d \in Active, Cursor(d) PROVE HasRows'
  <2>1. UNCHANGED <<folds, worker, next, slices, scan>>
    BY <1>3 DEF Cursor, Draining, Receive, Resume, End, Unpark, Narrow, Abandon, scanning
  <2>2. \A c \in Active : Gathered(c) \subseteq Gathered(c)'
    BY <1>0, <1>3, <2>1, CursorKeeps DEF Gathered
  <2>3. \A c \in Active : ~stop'[c] => ~stop[c]
    <3>1. stop' = stop \/ stop' = [stop EXCEPT ![d] = TRUE]
      BY <1>3 DEF Cursor, Draining, Receive, Resume, End, Unpark, Narrow, Abandon
    <3> QED BY <1>0, <3>1 DEF FlowInv, Stopped
  <2>4. excluded \subseteq excluded'
    BY <1>3 DEF Cursor, Draining, Receive, Resume, End, Unpark, Narrow, Abandon
  <2> QED BY <2>1, <2>2, <2>3, <2>4 DEF HasRows, Active, Failing, ToCome, StillInUnit
<1>4. CASE UNCHANGED vars
  BY <1>4 DEF vars, scanning, HasRows, Active, Failing, ToCome, StillInUnit, Gathered, Held
<1> QED BY <1>1, <1>2, <1>3, <1>4, WorkerRows DEF Next

\* At the end nothing is to come.
LEMMA EndIsEverything == RowsInv => CleanScanHasAllRows
<1> SUFFICES ASSUME RowsInv, ~Failing, NEW c \in Active, cursor[c].pc = "ended",
                    NEW r \in Rows \intersect Selected[c], excluded = {} \/ r \in Kept
             PROVE  r \in cursor[c].got
  BY DEF CleanScanHasAllRows, EndedHasAllRows, Failing
<1> USE DEF RowsInv, OnceInv, FlowInv
<1>1. /\ c \in Cursors /\ scan = "over" /\ channel[c] = <<>> /\ cursor[c].item.rows = {}
      /\ ~stop[c]
  <2>1. c \in Cursors
    BY DEF Active, Range, FoldTypes
  <2>2. ~stop[c]
    BY <2>1 DEF Stopped
  <2> QED BY <2>1, <2>2 DEF EndIsDrained
<1>2. Gathered(c) = cursor[c].got
  BY <1>1 DEF Gathered, Held
<1>u. PICK u \in DOMAIN Units : \E b \in DOMAIN Units[u] : r \in Units[u][b]
  BY DEF Rows, Range
<1>3. PICK b \in DOMAIN Units[u] : r \in Units[u][b]
  BY <1>u
<1>4. u \notin excluded
  BY <1>3 DEF RuledOut
<1>5. \A w \in Workers : worker[w].pc = "done"
  BY <1>1 DEF FrameIsLast, Failing
<1>6. ~Cancelled
  BY <1>1, ScanAssumption DEF Cancelled, Active, Range
<1>7. Workers # {}
  BY <1>3, UnitsAssumption, WorkersAssumption
<1>8. next > Len(Units)
  BY <1>5, <1>6, <1>7 DEF DoneIsAll
<1>9. ~ToCome(u, b, c)
  BY <1>5, <1>8, UnitsAssumption DEF ToCome, Busy, IInv, Types
<1>10. Units[u][b] \intersect Selected[c] \subseteq Gathered(c)
  BY <1>1, <1>4, <1>9 DEF HasRows
<1> QED BY <1>2, <1>3, <1>10

\* When no worker failed, a cursor that came to its end gave every row that it
\* asked for, or every one that was left when the scan was narrowed: no batch is
\* lost between the workers, the morsels, the slices of a frame and the end of
\* the scan, whoever else lets go of his cursor.
THEOREM EveryRowArrives == Spec => []CleanScanHasAllRows
<1>1. Init => RowsInv
  <2> SUFFICES ASSUME Init PROVE RowsInv
    OBVIOUS
  <2>1. FlowInv
    BY DEF Init, FlowInv, Stopped, DoneIsAll, RuledOut, EndIsDrained
  <2>2. HasRows
    <3>1. \A u \in DOMAIN Units : u >= next
      BY UnitsAssumption DEF Init
    <3> QED BY <3>1 DEF HasRows, ToCome
  <2> QED BY <2>1, <2>2, OnceInit DEF RowsInv
<1>2. RowsInv /\ [Next]_vars => RowsInv'
  BY OnceNext, NextFlow, NextRows DEF RowsInv, OnceInv
<1> QED BY <1>1, <1>2, EndIsEverything, PTL DEF Spec

-----------------------------------------------------------------------------
(* Induction, recursion and sums.  An induction is stated of a set: one    *)
(* without a least element, by some measure, is empty.                     *)

LEMMA Least ==
  ASSUME NEW T \in SUBSET Nat, T # {}
  PROVE  \E n \in T : \A m \in T : n <= m
<1>1. IsWellFoundedOn(OpToRel(<,Nat), Nat)
  BY NatLessThanWellFounded
<1>2. \E n \in T : \A m \in T : ~(<<m, n>> \in OpToRel(<,Nat))
  BY <1>1, WFMin
<1>3. \A m, n \in Nat : <<m, n>> \in OpToRel(<,Nat) <=> m < n
  BY DEF OpToRel
<1>4. PICK n \in T : \A m \in T : ~(<<m, n>> \in OpToRel(<,Nat))
  BY <1>2
<1>5. ASSUME NEW m \in T PROVE n <= m
  <2>1. m \in Nat /\ n \in Nat
    OBVIOUS
  <2>2. ~(m < n)
    BY <1>3, <1>4, <2>1
  <2> QED BY <2>1, <2>2
<1> QED BY <1>5

LEMMA NoneBad ==
  ASSUME NEW S, NEW depth \in [S -> Nat], NEW B \in SUBSET S,
         \A q \in B : \E p \in B : depth[p] < depth[q]
  PROVE  B = {}
<1> SUFFICES ASSUME B # {} PROVE FALSE
  OBVIOUS
<1> DEFINE D == {depth[q] : q \in B}
<1>1. D \in SUBSET Nat /\ D # {}
  OBVIOUS
<1> HIDE DEF D
<1>2. PICK k \in D : \A j \in D : k <= j
  BY <1>1, Least
<1>3. PICK q \in B : depth[q] = k
  BY <1>2 DEF D
<1>4. PICK p \in B : depth[p] < depth[q]
  BY <1>3
<1>5. depth[p] \in D /\ depth[p] \in Nat /\ depth[q] \in Nat
  BY DEF D
<1> QED BY <1>2, <1>3, <1>4, <1>5

Recurs(F, S, V, depth) ==
  /\ depth \in [S -> Nat] /\ F \in [S \X [S -> V] -> V] /\ [S -> V] # {}
  /\ \A q \in S : \A g, h \in [S -> V] :
       (\A p \in S : depth[p] < depth[q] => g[p] = h[p]) => F[<<q, g>>] = F[<<q, h>>]
Solves(g, F, S, V) == g \in [S -> V] /\ \A q \in S : g[q] = F[<<q, g>>]
LEMMA Recursion ==
  ASSUME NEW S, NEW V, NEW depth, NEW F, Recurs(F, S, V, depth)
  PROVE  \E g : Solves(g, F, S, V)
<1> USE DEF Recurs, Solves
<1> DEFINE A(g, n) == g \in [S -> V] /\ \A q \in S : depth[q] < n => g[q] = F[<<q, g>>]
<1>1. ASSUME NEW n \in Nat, NEW g, A(g, n)
      PROVE  A([q \in S |-> F[<<q, g>>]], n + 1)
  <2> DEFINE h == [q \in S |-> F[<<q, g>>]]
  <2>1. h \in [S -> V]
    BY <1>1
  <2>2. \A q \in S : depth[q] < n => h[q] = g[q]
    BY <1>1
  <2>3. ASSUME NEW q \in S, depth[q] < n + 1 PROVE h[q] = F[<<q, h>>]
    <3>1. ASSUME NEW p \in S, depth[p] < depth[q] PROVE h[p] = g[p]
      <4>1. depth[p] \in Nat /\ depth[q] \in Nat
        OBVIOUS
      <4>2. depth[p] < n
        BY <4>1, <3>1, <2>3
      <4> HIDE DEF h
      <4> QED BY <4>2, <2>2
    <3>2. F[<<q, h>>] = F[<<q, g>>]
      BY <2>1, <3>1, <1>1
    <3> QED BY <3>2
  <2> QED BY <2>1, <2>3
<1>2. \A n \in Nat : \E g : A(g, n)
  <2> DEFINE Bad == {n \in Nat : ~\E g : A(g, n)}
  <2> SUFFICES ASSUME Bad # {} PROVE FALSE
    OBVIOUS
  <2> HIDE DEF A
  <2>1. PICK n \in Bad : \A m \in Bad : n <= m
    BY Least
  <2>2. n # 0
    BY <2>1 DEF A
  <2>3. n - 1 \in Nat /\ n - 1 \notin Bad
    BY <2>1, <2>2
  <2>4. PICK g : A(g, n - 1)
    BY <2>3
  <2>5. A([q \in S |-> F[<<q, g>>]], n - 1 + 1)
    BY <2>3, <2>4, <1>1
  <2> QED BY <2>1, <2>5
<1>3. ASSUME NEW m \in Nat, NEW g, A(g, m), NEW n \in Nat, NEW h, A(h, n), m <= n
      PROVE  \A q \in S : depth[q] < m => g[q] = h[q]
  <2> DEFINE Bad == {q \in S : depth[q] < m /\ g[q] # h[q]}
  <2>1. ASSUME NEW q \in Bad PROVE \E p \in Bad : depth[p] < depth[q]
    <3>1. SUFFICES ASSUME \A p \in S : depth[p] < depth[q] => g[p] = h[p]
                   PROVE  FALSE
      <4>1. ASSUME NEW p \in S, depth[p] < depth[q] PROVE depth[p] < m
        <5>1. depth[p] \in Nat /\ depth[q] \in Nat
          OBVIOUS
        <5> QED BY <5>1, <4>1
      <4> QED BY <4>1
    <3>2. F[<<q, g>>] = F[<<q, h>>]
      BY <3>1, <1>3
    <3>3. depth[q] < m /\ depth[q] < n
      <4>1. depth[q] \in Nat
        OBVIOUS
      <4> QED BY <4>1, <1>3
    <3>4. g[q] = F[<<q, g>>] /\ h[q] = F[<<q, h>>]
      BY <3>3, <1>3
    <3> QED BY <3>2, <3>4
  <2>2. Bad = {}
    <3> HIDE DEF Bad
    <3>1. Bad \in SUBSET S
      BY DEF Bad
    <3> QED BY <3>1, <2>1, NoneBad
  <2> QED BY <2>2
<1> DEFINE Upto(n) == CHOOSE g : A(g, n)
           f == [q \in S |-> Upto(depth[q] + 1)[q]]
<1>4. \A n \in Nat : A(Upto(n), n)
  <2> HIDE DEF A
  <2> QED BY <1>2
<1> HIDE DEF A, Upto
<1>5. \A q \in S : A(Upto(depth[q] + 1), depth[q] + 1)
  <2> SUFFICES ASSUME NEW q \in S PROVE A(Upto(depth[q] + 1), depth[q] + 1)
    OBVIOUS
  <2>1. depth[q] + 1 \in Nat
    OBVIOUS
  <2> QED BY <1>4, <2>1
<1>6. f \in [S -> V]
  <2> SUFFICES ASSUME NEW q \in S PROVE Upto(depth[q] + 1)[q] \in V
    OBVIOUS
  <2> QED BY <1>5 DEF A
<1>7. ASSUME NEW q \in S PROVE f[q] = F[<<q, f>>]
  <2> DEFINE g == Upto(depth[q] + 1)
  <2>1. A(g, depth[q] + 1)
    BY <1>5
  <2>2. ASSUME NEW p \in S, depth[p] < depth[q] PROVE f[p] = g[p]
    <3>1. A(Upto(depth[p] + 1), depth[p] + 1)
      BY <1>5
    <3>2. depth[p] + 1 \in Nat /\ depth[q] + 1 \in Nat /\ depth[p] + 1 <= depth[q] + 1
          /\ depth[p] < depth[p] + 1
      BY <2>2
    <3>3. Upto(depth[p] + 1)[p] = Upto(depth[q] + 1)[p]
      BY <1>3, <1>5, <3>2
    <3> QED BY <3>3
  <2>3. g \in [S -> V] /\ g[q] = F[<<q, g>>]
    <3>1. depth[q] < depth[q] + 1
      OBVIOUS
    <3> HIDE DEF g
    <3> QED BY <2>1, <3>1 DEF A
  <2>4. f[q] = g[q]
    OBVIOUS
  <2>5. F[<<q, f>>] = F[<<q, g>>]
    <3> HIDE DEF f, g
    <3> QED BY <2>2, <2>3, <1>6
  <2> HIDE DEF f, g
  <2> QED BY <2>3, <2>4, <2>5
<1> HIDE DEF f
<1> QED BY <1>6, <1>7

\* The sums of f over the subsets of D, by the recursion of SumFunctionOnSet.
Some(s) == CHOOSE x \in s : TRUE
SumRule(f, D) ==
  [p \in (SUBSET D) \X [SUBSET D -> Int] |->
     IF p[1] = {} THEN 0 ELSE f[Some(p[1])] + p[2][p[1] \ {Some(p[1])}]]
Sums(g, f, D) ==
  /\ g \in [SUBSET D -> Int]
  /\ \A s \in SUBSET D : g[s] = IF s = {} THEN 0 ELSE f[Some(s)] + g[s \ {Some(s)}]

LEMMA Smaller ==
  ASSUME NEW D, IsFiniteSet(D)
  PROVE  /\ [s \in SUBSET D |-> Cardinality(s)] \in [SUBSET D -> Nat]
         /\ \A s \in SUBSET D : \A x \in s : Cardinality(s \ {x}) < Cardinality(s)
<1>1. \A s \in SUBSET D : IsFiniteSet(s) /\ Cardinality(s) \in Nat
  BY FS_Subset, FS_CardinalityType
<1>2. ASSUME NEW s \in SUBSET D, NEW x \in s PROVE Cardinality(s \ {x}) < Cardinality(s)
  <2>1. IsFiniteSet(s) /\ Cardinality(s) \in Nat
    BY <1>1
  <2>2. Cardinality(s \ {x}) = Cardinality(s) - 1
    BY <2>1, FS_RemoveElement
  <2> QED BY <2>1, <2>2
<1> QED BY <1>1, <1>2

LEMMA SumsExist ==
  ASSUME NEW D, IsFiniteSet(D), NEW f, \A x \in D : f[x] \in Int
  PROVE  \E g : Sums(g, f, D)
<1> DEFINE depth == [s \in SUBSET D |-> Cardinality(s)]
           S == SUBSET D
           F == SumRule(f, D)
<1>0. \A s \in S : s # {} => Some(s) \in s
  BY DEF Some
<1>1. Recurs(F, S, Int, depth)
  <2>1. depth \in [S -> Nat]
    BY Smaller
  <2>2. F \in [S \X [S -> Int] -> Int]
    <3>1. ASSUME NEW p \in S \X [S -> Int], p[1] # {}
          PROVE  f[Some(p[1])] + p[2][p[1] \ {Some(p[1])}] \in Int
      <4>1. Some(p[1]) \in D
        BY <1>0, <3>1
      <4>2. p[2] \in [S -> Int] /\ p[1] \ {Some(p[1])} \in S
        OBVIOUS
      <4>3. f[Some(p[1])] \in Int /\ p[2][p[1] \ {Some(p[1])}] \in Int
        BY <4>1, <4>2
      <4> QED BY <4>3
    <3>2. ASSUME NEW p \in S \X [S -> Int]
          PROVE  (IF p[1] = {} THEN 0 ELSE f[Some(p[1])] + p[2][p[1] \ {Some(p[1])}]) \in Int
      <4>1. CASE p[1] = {}
        BY <4>1
      <4>2. CASE p[1] # {}
        BY <3>1, <4>2
      <4> QED BY <4>1, <4>2
    <3> QED BY <3>2 DEF SumRule
  <2>3. [S -> Int] # {}
    <3>1. [s \in S |-> 0] \in [S -> Int]
      OBVIOUS
    <3> QED BY <3>1
  <2>4. ASSUME NEW q \in S, NEW g \in [S -> Int], NEW h \in [S -> Int],
               \A p \in S : depth[p] < depth[q] => g[p] = h[p]
        PROVE  F[<<q, g>>] = F[<<q, h>>]
    <3>1. q # {} => g[q \ {Some(q)}] = h[q \ {Some(q)}]
      <4> SUFFICES ASSUME q # {} PROVE g[q \ {Some(q)}] = h[q \ {Some(q)}]
        OBVIOUS
      <4>1. Some(q) \in q /\ q \ {Some(q)} \in S
        BY <1>0
      <4>2. depth[q \ {Some(q)}] < depth[q]
        BY <4>1, Smaller
      <4> QED BY <2>4, <4>1, <4>2
    <3>2. <<q, g>> \in S \X [S -> Int] /\ <<q, h>> \in S \X [S -> Int]
      OBVIOUS
    <3> QED BY <3>1, <3>2 DEF SumRule
  <2> HIDE DEF depth, F, S
  <2> QED BY <2>1, <2>2, <2>3, <2>4 DEF Recurs
<1>2. PICK g : Solves(g, F, S, Int)
  <2> HIDE DEF depth, F, S
  <2> QED BY <1>1, Recursion
<1>3. Sums(g, f, D)
  <2>1. g \in [SUBSET D -> Int]
    BY <1>2 DEF Solves
  <2>2. ASSUME NEW s \in SUBSET D
        PROVE  g[s] = IF s = {} THEN 0 ELSE f[Some(s)] + g[s \ {Some(s)}]
    <3>1. g[s] = F[<<s, g>>] /\ <<s, g>> \in S \X [S -> Int]
      BY <1>2 DEF Solves
    <3> QED BY <3>1 DEF SumRule
  <2> QED BY <2>1, <2>2 DEF Sums
<1> QED BY <1>3

LEMMA SumIsSolution ==
  ASSUME NEW D, IsFiniteSet(D), NEW f, \A x \in D : f[x] \in Int
  PROVE  \E g : Sums(g, f, D) /\ SumFunctionOnSet(f, D) = g[D]
<1>1. PICK h : Sums(h, f, D)
  BY SumsExist
<1> DEFINE Eqn(g) == g = [s \in SUBSET D |-> IF s = {} THEN 0 ELSE f[Some(s)] + g[s \ {Some(s)}]]
           iter == CHOOSE g : Eqn(g)
<1>2. SumFunctionOnSet(f, D) = iter[D]
  BY DEF SumFunctionOnSet, FoldFunctionOnSet, MapThenFoldSet, Some
<1>3. Eqn(h)
  BY <1>1 DEF Sums
<1>4. Eqn(iter)
  <2> HIDE DEF Eqn
  <2> QED BY <1>3
<1> HIDE DEF iter
<1>5. Sums(iter, f, D)
  <2>1. \A s \in SUBSET D : iter[s] = IF s = {} THEN 0 ELSE f[Some(s)] + iter[s \ {Some(s)}]
    BY <1>4
  <2>2. DOMAIN iter = SUBSET D /\ iter = [s \in SUBSET D |-> iter[s]]
    BY <1>4
  <2> DEFINE B == {s \in SUBSET D : iter[s] \notin Int}
             depth == [s \in SUBSET D |-> Cardinality(s)]
  <2>3. ASSUME NEW s \in B PROVE \E p \in B : depth[p] < depth[s]
    <3>1. s # {}
      <4>1. iter[{}] = 0
        BY <2>1
      <4> QED BY <4>1
    <3>2. Some(s) \in s
      BY <3>1 DEF Some
    <3>3. f[Some(s)] \in Int /\ s \ {Some(s)} \in SUBSET D
      BY <3>2
    <3>4. iter[s] = f[Some(s)] + iter[s \ {Some(s)}]
      BY <2>1, <3>1
    <3>5. s \ {Some(s)} \in B
      BY <3>3, <3>4
    <3>6. depth[s \ {Some(s)}] < depth[s]
      BY <3>2, <3>3, Smaller
    <3> QED BY <3>5, <3>6
  <2>4. B = {}
    <3>1. B \in SUBSET (SUBSET D) /\ depth \in [SUBSET D -> Nat]
      BY Smaller
    <3> HIDE DEF B, depth
    <3> QED BY <3>1, <2>3, NoneBad
  <2>5. iter \in [SUBSET D -> Int]
    BY <2>2, <2>4
  <2> QED BY <2>1, <2>5 DEF Sums
<1> QED BY <1>2, <1>5


\* Whatever the order of the elements, a sum can be taken apart at any of them.
LEMMA SumParts ==
  ASSUME NEW D, IsFiniteSet(D), NEW f, \A x \in D : f[x] \in Int, NEW S \in SUBSET D
  PROVE  /\ SumFunctionOnSet(f, S) \in Int
         /\ S = {} => SumFunctionOnSet(f, S) = 0
         /\ \A x \in S : SumFunctionOnSet(f, S) = f[x] + SumFunctionOnSet(f, S \ {x})
<1>1. PICK g : Sums(g, f, D)
  BY SumsExist
<1> DEFINE depth == [s \in SUBSET D |-> Cardinality(s)]
<1>0. depth \in [SUBSET D -> Nat] /\ \A s \in SUBSET D : \A x \in s : depth[s \ {x}] < depth[s]
  BY Smaller
<1> HIDE DEF depth
<1>2. ASSUME NEW T \in SUBSET D PROVE SumFunctionOnSet(f, T) = g[T]
  <2>1. IsFiniteSet(T) /\ \A x \in T : f[x] \in Int
    BY FS_Subset
  <2>2. PICK h : Sums(h, f, T) /\ SumFunctionOnSet(f, T) = h[T]
    BY <2>1, SumIsSolution
  <2> DEFINE B == {s \in SUBSET T : h[s] # g[s]}
  <2>3. ASSUME NEW s \in B PROVE \E p \in B : depth[p] < depth[s]
    <3>1. s \in SUBSET D /\ s \in SUBSET T
      OBVIOUS
    <3>2. /\ h[s] = IF s = {} THEN 0 ELSE f[Some(s)] + h[s \ {Some(s)}]
          /\ g[s] = IF s = {} THEN 0 ELSE f[Some(s)] + g[s \ {Some(s)}]
      BY <1>1, <2>2, <3>1 DEF Sums
    <3>3. s # {}
      BY <3>2
    <3>4. Some(s) \in s
      BY <3>3 DEF Some
    <3>5. s \ {Some(s)} \in B
      BY <3>1, <3>2, <3>3
    <3> QED BY <1>0, <3>1, <3>4, <3>5
  <2>4. B = {}
    <3>1. B \in SUBSET (SUBSET D)
      OBVIOUS
    <3> HIDE DEF B
    <3> QED BY <3>1, <1>0, <2>3, NoneBad
  <2> QED BY <2>2, <2>4
<1>3. \A s \in SUBSET D : \A x \in s : g[s] = f[x] + g[s \ {x}]
  <2> DEFINE B == {s \in SUBSET D : \E x \in s : g[s] # f[x] + g[s \ {x}]}
  <2>1. ASSUME NEW s \in B PROVE \E p \in B : depth[p] < depth[s]
    <3>1. PICK x \in s : g[s] # f[x] + g[s \ {x}]
      OBVIOUS
    <3> DEFINE y == Some(s)
    <3>2. y \in s
      BY <3>1 DEF Some
    <3>3. g[s] = f[y] + g[s \ {y}]
      BY <1>1, <3>1 DEF Sums
    <3> HIDE DEF y
    <3>4. x # y
      BY <3>1, <3>3
    <3>5. s \ {y} \in SUBSET D /\ s \ {x} \in SUBSET D
      OBVIOUS
    <3>6. depth[s \ {y}] < depth[s] /\ depth[s \ {x}] < depth[s]
      BY <1>0, <3>2
    <3>7. SUFFICES ASSUME s \ {y} \notin B, s \ {x} \notin B PROVE FALSE
      BY <3>6
    <3>8. g[s \ {y}] = f[x] + g[(s \ {y}) \ {x}] /\ g[s \ {x}] = f[y] + g[(s \ {x}) \ {y}]
      BY <3>2, <3>4, <3>5, <3>7
    <3>9. (s \ {y}) \ {x} = (s \ {x}) \ {y} /\ (s \ {x}) \ {y} \in SUBSET D
      OBVIOUS
    <3>10. g[(s \ {x}) \ {y}] \in Int /\ f[x] \in Int /\ f[y] \in Int
      BY <1>1, <3>2, <3>9 DEF Sums
    <3>11. ASSUME NEW a \in Int, NEW b \in Int, NEW r \in Int PROVE a + (b + r) = b + (a + r)
      OBVIOUS
    <3> HIDE DEF B
    <3>12. g[s] = f[y] + (f[x] + g[(s \ {x}) \ {y}])
      BY <3>3, <3>8, <3>9
    <3> QED BY <3>1, <3>8, <3>10, <3>11, <3>12
  <2>2. B = {}
    <3>1. B \in SUBSET (SUBSET D)
      OBVIOUS
    <3> HIDE DEF B
    <3> QED BY <3>1, <1>0, <2>1, NoneBad
  <2> QED BY <2>2
<1>4. g[S] \in Int /\ (S = {} => g[S] = 0)
  BY <1>1 DEF Sums
<1>5. ASSUME NEW x \in S
      PROVE  SumFunctionOnSet(f, S) = f[x] + SumFunctionOnSet(f, S \ {x})
  <2>1. S \ {x} \in SUBSET D
    OBVIOUS
  <2>2. SumFunctionOnSet(f, S \ {x}) = g[S \ {x}] /\ SumFunctionOnSet(f, S) = g[S]
    BY <1>2, <2>1
  <2> QED BY <1>3, <2>2
<1> QED BY <1>2, <1>4, <1>5

\* The elements may have other names.
Renames(h, f, D, g, E) ==
  /\ IsFiniteSet(D) /\ \A x \in D : f[x] \in Int
  /\ IsFiniteSet(E) /\ \A y \in E : g[y] \in Int
  /\ \A x \in D : h[x] \in E /\ g[h[x]] = f[x]
  /\ \A x, y \in D : h[x] = h[y] => x = y
  /\ \A z \in E : \E x \in D : h[x] = z

LEMMA SumRenamed ==
  ASSUME NEW D, NEW f, NEW E, NEW g, NEW h, Renames(h, f, D, g, E)
  PROVE  SumFunctionOnSet(f, D) = SumFunctionOnSet(g, E)
<1> USE DEF Renames
<1> DEFINE depth == [s \in SUBSET D |-> Cardinality(s)]
           To(s) == {h[x] : x \in s}
           B == {s \in SUBSET D : SumFunctionOnSet(f, s) # SumFunctionOnSet(g, To(s))}
<1>0. depth \in [SUBSET D -> Nat] /\ \A s \in SUBSET D : \A x \in s : depth[s \ {x}] < depth[s]
  BY Smaller
<1> HIDE DEF depth
<1>1. ASSUME NEW s \in B PROVE \E p \in B : depth[p] < depth[s]
  <2>1. s \in SUBSET D /\ To(s) \in SUBSET E
    OBVIOUS
  <2>2. CASE s = {}
    <3>1. To(s) = {}
      BY <2>2
    <3>2. SumFunctionOnSet(f, s) = 0 /\ SumFunctionOnSet(g, To(s)) = 0
      BY <2>1, <2>2, <3>1, SumParts
    <3> QED BY <3>2
  <2>3. CASE s # {}
    <3>1. PICK x \in s : TRUE
      BY <2>3
    <3>2. SumFunctionOnSet(f, s) = f[x] + SumFunctionOnSet(f, s \ {x})
      BY <2>1, <3>1, SumParts
    <3>3. h[x] \in To(s)
      OBVIOUS
    <3>4. To(s) \ {h[x]} = To(s \ {x})
      BY <2>1
    <3>5. SumFunctionOnSet(g, To(s)) = g[h[x]] + SumFunctionOnSet(g, To(s) \ {h[x]})
      <4> HIDE DEF To
      <4> QED BY <2>1, <3>3, SumParts
    <3>6. g[h[x]] = f[x]
      BY <2>1
    <3>7. s \ {x} \in B
      BY <2>1, <3>2, <3>4, <3>5, <3>6
    <3> QED BY <1>0, <2>1, <3>7
  <2> QED BY <2>2, <2>3
<1>2. B = {}
  <2>1. B \in SUBSET (SUBSET D)
    OBVIOUS
  <2> HIDE DEF B
  <2> QED BY <2>1, <1>0, <1>1, NoneBad
<1>3. To(D) = E
  OBVIOUS
<1>4. D \notin B
  BY <1>2
<1> QED BY <1>3, <1>4

LEMMA SumUnion ==
  ASSUME NEW D, IsFiniteSet(D), NEW f, \A x \in D : f[x] \in Int,
         NEW S \in SUBSET D, NEW T \in SUBSET D, S \intersect T = {}
  PROVE  SumFunctionOnSet(f, S \union T) = SumFunctionOnSet(f, S) + SumFunctionOnSet(f, T)
<1> DEFINE depth == [s \in SUBSET D |-> Cardinality(s)]
           Sum(s) == SumFunctionOnSet(f, s)
           B == {s \in SUBSET D : s \in SUBSET T /\ Sum(S \union s) # Sum(S) + Sum(s)}
<1>0. depth \in [SUBSET D -> Nat] /\ \A s \in SUBSET D : \A x \in s : depth[s \ {x}] < depth[s]
  BY Smaller
<1>1. \A s \in SUBSET D : /\ Sum(s) \in Int
                          /\ s = {} => Sum(s) = 0
                          /\ \A x \in s : Sum(s) = f[x] + Sum(s \ {x})
  BY SumParts
<1> HIDE DEF depth, Sum
<1>2. ASSUME NEW s \in B PROVE \E p \in B : depth[p] < depth[s]
  <2>1. s \in SUBSET D /\ s \in SUBSET T /\ S \union s \in SUBSET D
    OBVIOUS
  <2>2. CASE s = {}
    <3>1. S \union s = S
      BY <2>2
    <3> QED BY <1>1, <2>1, <2>2, <3>1
  <2>3. CASE s # {}
    <3>1. PICK x \in s : TRUE
      BY <2>3
    <3>2. Sum(s) = f[x] + Sum(s \ {x}) /\ Sum(S \union s) = f[x] + Sum((S \union s) \ {x})
      BY <1>1, <2>1
    <3>3. (S \union s) \ {x} = S \union (s \ {x}) /\ s \ {x} \in SUBSET D
      BY <2>1
    <3>4. Sum(s \ {x}) \in Int /\ Sum(S) \in Int /\ f[x] \in Int
      BY <1>1, <2>1, <3>3
    <3>5. Sum(S \union (s \ {x})) # Sum(S) + Sum(s \ {x})
      <4>1. SUFFICES ASSUME Sum(S \union (s \ {x})) = Sum(S) + Sum(s \ {x}) PROVE FALSE
        OBVIOUS
      <4>2. Sum(S \union s) = f[x] + (Sum(S) + Sum(s \ {x})) /\ Sum(s) = f[x] + Sum(s \ {x})
        BY <3>2, <3>3, <4>1
      <4>3. Sum(S \union s) # Sum(S) + Sum(s)
        OBVIOUS
      <4> HIDE DEF B
      <4> QED BY <3>4, <4>2, <4>3
    <3>6. s \ {x} \in B
      BY <2>1, <3>3, <3>5
    <3> QED BY <1>0, <2>1, <3>6
  <2> QED BY <2>2, <2>3
<1>3. B = {}
  <2>1. B \in SUBSET (SUBSET D)
    OBVIOUS
  <2> HIDE DEF B
  <2> QED BY <2>1, <1>0, <1>2, NoneBad
<1>4. T \notin B
  BY <1>3
<1> QED BY <1>4 DEF Sum

LEMMA TotalType ==
  ASSUME NEW D, IsFiniteSet(D), NEW f \in [D -> Int]
  PROVE  SumFunction(f) \in Int /\ SumFunction(f) = SumFunctionOnSet(f, D)
         /\ (D = {} => SumFunction(f) = 0)
<1>1. SumFunction(f) = SumFunctionOnSet(f, D)
  BY DEF SumFunction
<1>2. \A x \in D : f[x] \in Int
  OBVIOUS
<1> QED BY <1>1, <1>2, SumParts

LEMMA TotalRenamed ==
  ASSUME NEW D, NEW f \in [D -> Int], NEW E, NEW g \in [E -> Int], NEW h, Renames(h, f, D, g, E)
  PROVE  SumFunction(f) = SumFunction(g)
<1>1. SumFunctionOnSet(f, D) = SumFunctionOnSet(g, E)
  BY SumRenamed
<1> QED BY <1>1, TotalType DEF Renames

\* f is what g is on D and what h is on E.
Joins(f, g, D, h, E) ==
  /\ IsFiniteSet(D) /\ IsFiniteSet(E) /\ D \intersect E = {}
  /\ f \in [D \union E -> Int] /\ g \in [D -> Int] /\ h \in [E -> Int]
  /\ \A x \in D : f[x] = g[x]
  /\ \A x \in E : f[x] = h[x]

LEMMA TotalJoin ==
  ASSUME NEW D, NEW g, NEW E, NEW h, NEW f, Joins(f, g, D, h, E)
  PROVE  SumFunction(f) = SumFunction(g) + SumFunction(h)
<1> USE DEF Joins
<1>1. IsFiniteSet(D \union E) /\ \A x \in D \union E : f[x] \in Int
  BY FS_Union
<1>2. SumFunctionOnSet(f, D \union E) = SumFunctionOnSet(f, D) + SumFunctionOnSet(f, E)
  BY <1>1, SumUnion
<1>3. ASSUME NEW S, IsFiniteSet(S), NEW k \in [S -> Int], \A x \in S : f[x] = k[x]
      PROVE  SumFunctionOnSet(f, S) = SumFunctionOnSet(k, S)
  <2>1. Renames([x \in S |-> x], f, S, k, S)
    BY <1>3 DEF Renames
  <2> QED BY <2>1, SumRenamed
<1>4. SumFunctionOnSet(f, D) = SumFunctionOnSet(g, D) /\ SumFunctionOnSet(f, E) = SumFunctionOnSet(h, E)
  BY <1>3
<1> QED BY <1>1, <1>2, <1>4, TotalType

Adds(f, g, D, x) ==
  /\ IsFiniteSet(D) /\ x \notin D
  /\ f \in [D \union {x} -> Int] /\ g \in [D -> Int]
  /\ \A y \in D : f[y] = g[y]

LEMMA TotalAdd ==
  ASSUME NEW D, NEW g, NEW x, NEW f, Adds(f, g, D, x)
  PROVE  SumFunction(f) = SumFunction(g) + f[x]
<1> USE DEF Adds
<1> DEFINE h == [y \in {x} |-> f[x]]
<1>1. IsFiniteSet({x}) /\ f[x] \in Int /\ h \in [{x} -> Int] /\ h[x] = f[x]
  BY FS_Singleton
<1> HIDE DEF h
<1>2. SumFunction(f) = SumFunction(g) + SumFunction(h)
  <2>1. Joins(f, g, D, h, {x})
    BY <1>1 DEF Joins
  <2> QED BY <2>1, TotalJoin
<1>3. SumFunctionOnSet(h, {x}) = h[x] + SumFunctionOnSet(h, {x} \ {x})
      /\ SumFunctionOnSet(h, {x} \ {x}) = 0
  <2>1. {x} \ {x} = {} /\ {x} \ {x} \in SUBSET {x} /\ {x} \in SUBSET {x} /\ \A y \in {x} : h[y] \in Int
    BY <1>1
  <2> QED BY <1>1, <2>1, SumParts
<1> QED BY <1>1, <1>2, <1>3, TotalType

\* Sums along a sequence: an element at its end, or its first element.
LEMMA TotalAppend ==
  ASSUME NEW n \in Nat, NEW f \in [1..n -> Int], NEW g \in [1..(n + 1) -> Int],
         \A i \in 1..n : g[i] = f[i]
  PROVE  SumFunction(g) = SumFunction(f) + g[n + 1]
<1>1. IsFiniteSet(1..n)
  BY FS_Interval
<1>2. n + 1 \notin 1..n /\ 1..(n + 1) = (1..n) \union {n + 1}
  OBVIOUS
<1>3. Adds(g, f, 1..n, n + 1)
  BY <1>1, <1>2 DEF Adds
<1> QED BY <1>3, TotalAdd

LEMMA TotalTail ==
  ASSUME NEW n \in Nat, NEW f \in [1..n -> Int], NEW g \in [1..(n + 1) -> Int],
         \A i \in 1..n : g[i + 1] = f[i]
  PROVE  SumFunction(g) = SumFunction(f) + g[1]
<1> DEFINE rest == [i \in 2..(n + 1) |-> g[i]]
           h == [i \in 1..n |-> i + 1]
<1>1. IsFiniteSet(1..n) /\ IsFiniteSet(2..(n + 1))
  BY FS_Interval
<1>2. 1 \notin 2..(n + 1) /\ 1..(n + 1) = (2..(n + 1)) \union {1}
  OBVIOUS
<1>3. rest \in [2..(n + 1) -> Int] /\ \A i \in 2..(n + 1) : g[i] = rest[i]
  OBVIOUS
<1>4. /\ \A i \in 1..n : h[i] \in 2..(n + 1) /\ rest[h[i]] = f[i]
      /\ \A i, j \in 1..n : h[i] = h[j] => i = j
  OBVIOUS
<1>5. \A i \in 2..(n + 1) : \E j \in 1..n : h[j] = i
  <2> SUFFICES ASSUME NEW i \in 2..(n + 1) PROVE \E j \in 1..n : h[j] = i
    OBVIOUS
  <2>1. i - 1 \in 1..n /\ h[i - 1] = i
    OBVIOUS
  <2> QED BY <2>1
<1> HIDE DEF rest, h
<1>6. Adds(g, rest, 2..(n + 1), 1)
  BY <1>1, <1>2, <1>3 DEF Adds
<1>7. Renames(h, f, 1..n, rest, 2..(n + 1))
  BY <1>1, <1>3, <1>4, <1>5 DEF Renames
<1>8. SumFunction(f) = SumFunction(rest)
  <2>1. SumFunctionOnSet(f, 1..n) = SumFunctionOnSet(rest, 2..(n + 1))
    BY <1>7, SumRenamed
  <2>2. SumFunction(f) = SumFunctionOnSet(f, 1..n)
    BY <1>1, TotalType
  <2>3. SumFunction(rest) = SumFunctionOnSet(rest, 2..(n + 1))
    BY <1>1, <1>3, TotalType
  <2> QED BY <2>1, <2>2, <2>3
<1> QED BY <1>6, <1>8, TotalAdd

-----------------------------------------------------------------------------
(* The budget of a cursor *)

Load(w) == Cardinality(Chosen(w))

InChannel(c) == SumFunction([i \in DOMAIN channel[c] |-> channel[c][i].bytes])
OnTheWay(c)  == SumFunction([w \in Granted(c) |-> Load(w)])

\* What a fold sends at once fits into the budget: more than that is clamped
\* when it is acquired but not when it is released.
BatchesFit ==
  /\ MemoryBudget # 0
  /\ \A c \in Cursors : \A u \in DOMAIN Units : \A b \in DOMAIN Units[u] :
       Cardinality(Units[u][b] \intersect Selected[c]) <= MemoryBudget

Requests == [who : Workers, need : Nat]
Semaphores == [capacity : {MemoryBudget}, available : Nat, waiters : Seq(Requests)]

\* Who waits for permits of cursor c is a worker with a morsel for it, and
\* waits for as much as that morsel takes, once.
InLine(c) ==
  LET line == budget[c].waiters IN
  /\ \A i \in DOMAIN line :
       /\ worker[line[i].who].pc = "send" /\ Consumer(line[i].who) = c
       /\ line[i].need = Load(line[i].who)
  /\ \A i, j \in DOMAIN line : line[i].who = line[j].who => i = j

\* Only the frame takes permits of its cursor.
FrameIsFree ==
  /\ budget[Framed].waiters = <<>>
  /\ scan # "over" => budget[Framed].available >= MemoryBudget

Exact(c) ==
  Open(c) => budget[c].available + cursor[c].item.bytes + InChannel(c) + OnTheWay(c) = MemoryBudget

BudgetInv ==
  /\ budget \in [Cursors -> Semaphores]
  /\ FrameIsFree
  /\ \A c \in Cursors : InLine(c) /\ Exact(c)

LEMMA LoadType ==
  ASSUME NEW w \in Workers, OnceInv,
         worker[w].pc = "send" \/ (worker[w].pc = "step" /\ worker[w].pos <= Len(folds))
  PROVE  Load(w) \in Nat /\ Consumer(w) \in Cursors /\ (BatchesFit => Load(w) <= MemoryBudget)
<1>1. /\ worker[w].unit \in DOMAIN Units /\ worker[w].batch \in DOMAIN Units[worker[w].unit]
      /\ worker[w].pos \in DOMAIN folds
  BY DEF OnceInv, IInv, Types, Units1, AtFold, FoldTypes, Busy
<1>2. Consumer(w) \in Cursors
  BY <1>1 DEF Consumer, OnceInv, FoldTypes
<1>3. IsFiniteSet(Chosen(w))
  BY <1>1, RowsAssumption, FS_Subset DEF Chosen, Batch
<1> QED BY <1>1, <1>2, <1>3, FS_CardinalityType DEF Load, BatchesFit, Chosen, Batch

LEMMA GrantedType ==
  ASSUME NEW c \in Cursors, OnceInv
  PROVE  /\ Granted(c) \subseteq Workers /\ IsFiniteSet(Granted(c))
         /\ \A w \in Granted(c) : Load(w) \in Nat
<1>1. Granted(c) \subseteq Workers /\ \A w \in Granted(c) : worker[w].pc = "send"
  BY DEF Granted
<1> QED BY <1>1, LoadType, WorkersAssumption, FS_Subset

LEMMA LineType ==
  ASSUME NEW c \in Cursors, budget \in [Cursors -> Semaphores]
  PROVE  /\ budget[c].capacity = MemoryBudget /\ budget[c].available \in Nat
         /\ budget[c].waiters \in Seq(Requests)
         /\ budget[c] = [capacity |-> budget[c].capacity, available |-> budget[c].available,
                         waiters |-> budget[c].waiters]
         /\ \A i \in DOMAIN budget[c].waiters :
              budget[c].waiters[i].who \in Workers /\ budget[c].waiters[i].need \in Nat
<1>1. budget[c] \in Semaphores
  OBVIOUS
<1>2. budget[c].capacity = MemoryBudget /\ budget[c].available \in Nat /\ budget[c].waiters \in Seq(Requests)
      /\ budget[c] = [capacity |-> budget[c].capacity, available |-> budget[c].available,
                      waiters |-> budget[c].waiters]
  BY <1>1 DEF Semaphores
<1>3. ASSUME NEW i \in DOMAIN budget[c].waiters
      PROVE  budget[c].waiters[i].who \in Workers /\ budget[c].waiters[i].need \in Nat
  <2>1. budget[c].waiters[i] \in Requests
    BY <1>2
  <2> QED BY <2>1 DEF Requests
<1> QED BY <1>2, <1>3

\* A step that does not concern cursor c.
Elsewhere(c) ==
  /\ folds' = folds /\ budget'[c] = budget[c] /\ channel'[c] = channel[c]
  /\ Open(c)' => Open(c) /\ cursor'[c].item.bytes = cursor[c].item.bytes
  /\ \A w \in Workers :
       \/ worker'[w] = worker[w]
       \/ ~(worker[w].pc = "send" /\ Consumer(w) = c) /\ ~(worker'[w].pc = "send" /\ Consumer(w)' = c)

LEMMA ElsewhereInv ==
  ASSUME NEW c \in Cursors, BudgetInv, Elsewhere(c)
  PROVE  InLine(c)' /\ Exact(c)'
<1>1. \A w \in Workers : worker'[w] = worker[w] => Consumer(w)' = Consumer(w) /\ Chosen(w)' = Chosen(w)
  BY DEF Elsewhere, Consumer, Chosen, Batch
<1>2. Granted(c)' = Granted(c) /\ \A w \in Granted(c) : worker'[w] = worker[w] /\ w \in Workers
  BY <1>1 DEF Granted, Elsewhere
<1>3. \A w \in Granted(c) : Load(w)' = Load(w)
  BY <1>1, <1>2 DEF Load
<1>4. OnTheWay(c)' = OnTheWay(c) /\ InChannel(c)' = InChannel(c)
  BY <1>2, <1>3 DEF OnTheWay, InChannel, Elsewhere
<1>5. InLine(c)'
  <2> SUFFICES ASSUME NEW i \in DOMAIN budget[c].waiters,
                      NEW v \in Workers, v = budget[c].waiters[i].who
               PROVE  /\ worker'[v].pc = "send" /\ Consumer(v)' = c
                      /\ budget[c].waiters[i].need = Load(v)'
    BY LineType DEF InLine, BudgetInv, Elsewhere
  <2>1. worker[v].pc = "send" /\ Consumer(v) = c /\ budget[c].waiters[i].need = Load(v)
    BY DEF BudgetInv, InLine
  <2>2. worker'[v] = worker[v]
    BY <2>1 DEF Elsewhere
  <2> QED BY <1>1, <2>1, <2>2 DEF Load
<1> QED BY <1>4, <1>5 DEF BudgetInv, Exact, Elsewhere

\* What the cursor has before it: the morsel at hand and those in the channel.
LEMMA AheadType ==
  ASSUME NEW c \in Cursors, OnceInv
  PROVE  InChannel(c) \in Int /\ cursor[c].item.bytes \in Int /\ OnTheWay(c) \in Int
<1>1. cursor[c].item.bytes \in Int
  BY DEF OnceInv, FoldTypes, Morsels
<1>2. InChannel(c) \in Int
  <2>1. channel[c] \in Seq(Morsels)
    BY DEF OnceInv, FoldTypes
  <2>2. PICK n \in Nat : DOMAIN channel[c] = 1..n
    BY <2>1
  <2>3. [i \in DOMAIN channel[c] |-> channel[c][i].bytes] \in [1..n -> Int]
    <3>1. \A i \in 1..n : channel[c][i] \in Morsels
      BY <2>1, <2>2
    <3> QED BY <2>2, <3>1 DEF Morsels
  <2>4. IsFiniteSet(1..n)
    BY FS_Interval
  <2> QED BY <2>3, <2>4, TotalType DEF InChannel
<1>3. OnTheWay(c) \in Int
  <2>1. [w \in Granted(c) |-> Load(w)] \in [Granted(c) -> Int] /\ IsFiniteSet(Granted(c))
    BY GrantedType
  <2> QED BY <2>1, TotalType DEF OnTheWay
<1> QED BY <1>1, <1>2, <1>3

\* One more morsel on its way to cursor c.
LEMMA OneMoreGranted ==
  ASSUME NEW c \in Cursors, NEW w, OnceInv, w \notin Granted(c), Load(w)' \in Nat,
         Granted(c)' = Granted(c) \union {w}, \A v \in Granted(c) : Load(v)' = Load(v)
  PROVE  OnTheWay(c)' = OnTheWay(c) + Load(w)'
<1> DEFINE f == [v \in Granted(c)' |-> Load(v)']
           g == [v \in Granted(c) |-> Load(v)]
<1>1. IsFiniteSet(Granted(c)) /\ g \in [Granted(c) -> Int]
  BY GrantedType
<1>2. f \in [Granted(c) \union {w} -> Int]
  <2>1. \A v \in Granted(c) : Load(v) \in Nat
    BY GrantedType
  <2> QED BY <2>1
<1>3. Adds(f, g, Granted(c), w) /\ f[w] = Load(w)'
  BY <1>1, <1>2 DEF Adds
<1> HIDE DEF f, g
<1>4. SumFunction(f) = SumFunction(g) + f[w]
  BY <1>3, TotalAdd
<1> QED BY <1>3, <1>4 DEF OnTheWay, f, g

\* A worker takes the permits for its morsel, or a place in the line.
LEMMA StepBudget ==
  ASSUME NEW w \in Workers, OnceInv, BudgetInv, BatchesFit, Step(w)
  PROVE  BudgetInv'
<1>1. /\ worker[w].pc = "step" /\ worker[w].pos <= Len(folds) /\ Consumer(w) # Framed
      /\ budget' = [budget EXCEPT ![Consumer(w)] = Acquire(budget[Consumer(w)], w, Load(w))]
      /\ worker' = [worker EXCEPT ![w].pc = "send"]
      /\ UNCHANGED <<folds, channel, cursor, scan>>
  BY DEF Step, Load
<1>2. PICK c \in Cursors, n \in Nat, sem \in Semaphores :
        c = Consumer(w) /\ n = Load(w) /\ n <= MemoryBudget /\ sem = budget[c]
  BY <1>1, LoadType DEF BudgetInv
<1>3. /\ worker'[w].pc = "send" /\ worker'[w].unit = worker[w].unit
      /\ worker'[w].batch = worker[w].batch /\ worker'[w].pos = worker[w].pos
      /\ \A v \in Workers \ {w} : worker'[v] = worker[v]
  BY <1>1 DEF OnceInv, IInv, Types
<1>4. \A v \in Workers : Consumer(v)' = Consumer(v) /\ Chosen(v)' = Chosen(v) /\ Load(v)' = Load(v)
  BY <1>1, <1>3 DEF Consumer, Chosen, Batch, Load
<1>5. budget \in [Cursors -> Semaphores] /\ FrameIsFree /\ InLine(c) /\ Exact(c)
  BY <1>2 DEF BudgetInv
<1>6. /\ sem.capacity = MemoryBudget /\ sem.available \in Nat /\ sem.waiters \in Seq(Requests)
      /\ \A i \in DOMAIN sem.waiters : sem.waiters[i].who \in Workers
  BY <1>2, <1>5, LineType
<1>7. Need(sem, n) = n
  BY <1>2, <1>6, BudgetAssumption DEF Need
<1>8. Granted(c) \subseteq Workers /\ w \notin Granted(c)
  BY <1>1 DEF Granted
<1>9. /\ \A d \in Cursors \ {c} : budget'[d] = budget[d]
      /\ budget'[c] = Acquire(sem, w, n)
  BY <1>1, <1>2, <1>5
<1>10. \A d \in Cursors \ {c} : InLine(d)' /\ Exact(d)'
  <2> SUFFICES ASSUME NEW d \in Cursors \ {c} PROVE InLine(d)' /\ Exact(d)'
    OBVIOUS
  <2>1. ~(worker[w].pc = "send" /\ Consumer(w) = d) /\ ~(worker'[w].pc = "send" /\ Consumer(w)' = d)
    BY <1>1, <1>2, <1>4
  <2>2. Elsewhere(d)
    BY <1>1, <1>3, <1>9, <2>1 DEF Elsewhere, Open
  <2> QED BY <2>2, ElsewhereInv
<1>11. Open(c)' = Open(c) /\ cursor' = cursor /\ InChannel(c)' = InChannel(c)
  BY <1>1 DEF Open, InChannel
<1>12. InChannel(c) \in Int /\ cursor[c].item.bytes \in Int /\ OnTheWay(c) \in Int
  BY AheadType
<1>13. ASSUME sem.waiters = <<>>, sem.available >= n
       PROVE  budget'[c] \in Semaphores /\ InLine(c)' /\ Exact(c)'
  <2>1. budget'[c] = [sem EXCEPT !.available = sem.available - n]
    BY <1>7, <1>9, <1>13 DEF Acquire
  <2>2. budget'[c].waiters = <<>> /\ budget'[c].available = sem.available - n
        /\ budget'[c] \in Semaphores
    <3>1. sem.available - n \in Nat
      BY <1>2, <1>6, <1>13
    <3> QED BY <1>13, <2>1, <3>1 DEF Semaphores
  <2>3. InLine(c)'
    BY <2>2 DEF InLine
  <2>4. Granted(c)' = Granted(c) \union {w}
    <3>1. \A v : ~Waits(budget'[c], v) /\ ~Waits(budget[c], v)
      BY <1>2, <1>13, <2>2 DEF Waits
    <3> QED BY <1>2, <1>3, <1>4, <3>1 DEF Granted
  <2>5. OnTheWay(c)' = OnTheWay(c) + n
    BY <1>2, <1>4, <1>8, <2>4, OneMoreGranted
  <2>6. Exact(c)'
    BY <1>2, <1>5, <1>6, <1>11, <1>12, <2>2, <2>5 DEF Exact
  <2> QED BY <2>2, <2>3, <2>6
<1>14. ASSUME ~(sem.waiters = <<>> /\ sem.available >= n)
       PROVE  budget'[c] \in Semaphores /\ InLine(c)' /\ Exact(c)'
  <2>0. PICK line \in Seq(Requests), m \in Nat :
          m = Len(sem.waiters) /\ line = Append(sem.waiters, [who |-> w, need |-> n])
    <3>1. [who |-> w, need |-> n] \in Requests
      BY <1>2 DEF Requests
    <3>2. Append(sem.waiters, [who |-> w, need |-> n]) \in Seq(Requests) /\ Len(sem.waiters) \in Nat
      BY <1>6, <3>1
    <3> QED BY <3>2
  <2>1. budget'[c] = [sem EXCEPT !.waiters = line]
    BY <1>7, <1>9, <1>14, <2>0 DEF Acquire
  <2>2. /\ DOMAIN line = 1..(m + 1) /\ DOMAIN sem.waiters = 1..m
        /\ \A i \in 1..m : i \in 1..(m + 1) /\ line[i] = sem.waiters[i]
        /\ m + 1 \in 1..(m + 1) /\ line[m + 1].who = w /\ line[m + 1].need = n
        /\ \A i \in 1..(m + 1) : i = m + 1 \/ i \in 1..m
    <3>1. line[m + 1] = [who |-> w, need |-> n]
      BY <1>6, <2>0
    <3>2. line[m + 1].who = w /\ line[m + 1].need = n
      BY <3>1
    <3> QED BY <1>6, <2>0, <3>2
  <2>3. budget'[c].waiters = line /\ budget'[c].available = sem.available /\ budget'[c] \in Semaphores
    BY <1>2, <1>5, <1>6, <2>1 DEF Semaphores
  <2>4. \A i \in 1..m :
          /\ sem.waiters[i].who # w /\ worker[sem.waiters[i].who].pc = "send"
          /\ Consumer(sem.waiters[i].who) = c /\ sem.waiters[i].need = Load(sem.waiters[i].who)
    BY <1>1, <1>2, <1>5, <2>2 DEF InLine
  <2>5. InLine(c)'
    <3>1. ASSUME NEW i \in 1..(m + 1), NEW v \in Workers, v = line[i].who
          PROVE  worker'[v].pc = "send" /\ Consumer(v)' = c /\ line[i].need = Load(v)'
      <4>1. CASE i = m + 1
        BY <1>2, <1>3, <1>4, <2>2, <3>1, <4>1
      <4>2. CASE i # m + 1
        <5>1. i \in 1..m /\ line[i] = sem.waiters[i]
          BY <2>2, <4>2
        <5> QED BY <1>3, <1>4, <2>4, <3>1, <5>1
      <4> QED BY <4>1, <4>2
    <3>2. \A i \in 1..(m + 1) : line[i].who \in Workers
      <4>1. \A i \in 1..(m + 1) : line[i] \in Requests
        BY <2>0, <2>2
      <4> QED BY <4>1 DEF Requests
    <3>3. \A i, j \in 1..(m + 1) : line[i].who = line[j].who => i = j
      <4>1. \A i, j \in 1..m : sem.waiters[i].who = sem.waiters[j].who => i = j
        BY <1>2, <1>5, <2>2 DEF InLine
      <4> QED BY <2>2, <2>4, <4>1
    <3> QED BY <2>2, <2>3, <3>1, <3>2, <3>3 DEF InLine
  <2>6. Granted(c)' = Granted(c)
    <3>0. line[m + 1].who = w /\ m + 1 \in 1..(m + 1)
      BY <2>2
    <3>1. ASSUME NEW v \in Workers \ {w} PROVE Waits(budget'[c], v) <=> Waits(budget[c], v)
      <4>1. Waits(budget'[c], v) <=> \E i \in 1..(m + 1) : line[i].who = v
        BY <2>2, <2>3 DEF Waits
      <4>2. Waits(budget[c], v) <=> \E i \in 1..m : sem.waiters[i].who = v
        BY <1>2, <2>2 DEF Waits
      <4>3. ASSUME NEW i \in 1..(m + 1), line[i].who = v
            PROVE  i \in 1..m /\ sem.waiters[i].who = v
        <5>1. i # m + 1
          BY <3>0, <4>3
        <5> QED BY <2>2, <4>3, <5>1
      <4>4. \A i \in 1..m : i \in 1..(m + 1) /\ line[i].who = sem.waiters[i].who
        BY <2>2
      <4> QED BY <4>1, <4>2, <4>3, <4>4
    <3>2. Waits(budget'[c], w)
      BY <2>2, <2>3, <3>0 DEF Waits
    <3> QED BY <1>1, <1>3, <1>4, <3>1, <3>2 DEF Granted
  <2>7. OnTheWay(c)' = OnTheWay(c)
    BY <1>4, <1>8, <2>6 DEF OnTheWay
  <2>8. Exact(c)'
    BY <1>2, <1>5, <1>6, <1>11, <1>12, <2>3, <2>7 DEF Exact
  <2> QED BY <2>3, <2>5, <2>8
<1>15. budget'[c] \in Semaphores /\ InLine(c)' /\ Exact(c)'
  BY <1>13, <1>14
<1>16. budget' \in [Cursors -> Semaphores]
  BY <1>1, <1>2, <1>5, <1>9, <1>15
<1>17. FrameIsFree'
  BY <1>1, <1>2, <1>5, <1>9, ScanAssumption DEF FrameIsFree
<1> QED BY <1>10, <1>15, <1>16, <1>17 DEF BudgetInv

\* The permits of a worker are those of the morsel that it has sent.
LEMMA SendBudget ==
  ASSUME NEW w \in Workers, OnceInv, BudgetInv, Send(w)
  PROVE  BudgetInv'
<1>1. PICK c \in Cursors, n \in Nat : c = Consumer(w) /\ n = Load(w)
  <2>1. Load(w) \in Nat /\ Consumer(w) \in Cursors
    BY LoadType DEF Send
  <2> QED BY <2>1
<1>2. /\ worker[w].pc = "send" /\ ~Waits(budget[c], w) /\ worker'[w].pc = "step"
      /\ UNCHANGED <<folds, budget, cursor, scan>>
      /\ channel' = [channel EXCEPT ![c] = Append(channel[c], Morsel(Chosen(w), n))]
      /\ \A v \in Workers \ {w} : worker'[v] = worker[v]
  BY <1>1 DEF Send, Moved, Load, OnceInv, IInv, Types
<1>3. \A v \in Workers \ {w} : Consumer(v)' = Consumer(v) /\ Chosen(v)' = Chosen(v) /\ Load(v)' = Load(v)
  BY <1>2 DEF Consumer, Chosen, Batch, Load
<1>4. /\ channel \in [Cursors -> Seq(Morsels)]
      /\ \A d \in Cursors \ {c} : channel'[d] = channel[d]
      /\ channel'[c] = Append(channel[c], Morsel(Chosen(w), n))
  BY <1>2 DEF OnceInv, FoldTypes
<1>5. \A d \in Cursors \ {c} : InLine(d)' /\ Exact(d)'
  <2> SUFFICES ASSUME NEW d \in Cursors \ {c} PROVE InLine(d)' /\ Exact(d)'
    OBVIOUS
  <2>1. Elsewhere(d)
    BY <1>1, <1>2, <1>4 DEF Elsewhere, Open
  <2> QED BY <2>1, ElsewhereInv
<1>6. w \in Granted(c) /\ Granted(c)' = Granted(c) \ {w}
  BY <1>1, <1>2, <1>3 DEF Granted
<1>7. OnTheWay(c) = OnTheWay(c)' + n
  <2> DEFINE f == [v \in Granted(c) |-> Load(v)]
             g == [v \in Granted(c)' |-> Load(v)']
  <2>1. IsFiniteSet(Granted(c)) /\ \A v \in Granted(c) : Load(v) \in Nat /\ v \in Workers
    BY GrantedType
  <2>2. IsFiniteSet(Granted(c)')
    BY <1>6, <2>1, FS_Subset
  <2>3. Adds(f, g, Granted(c)', w) /\ f[w] = n
    BY <1>1, <1>3, <1>6, <2>1, <2>2 DEF Adds
  <2> HIDE DEF f, g
  <2>4. SumFunction(f) = SumFunction(g) + f[w]
    BY <2>3, TotalAdd
  <2> QED BY <2>3, <2>4 DEF OnTheWay, f, g
<1>8. InChannel(c)' = InChannel(c) + n
  <2>1. PICK m \in Nat : DOMAIN channel[c] = 1..m /\ m = Len(channel[c])
    BY <1>4
  <2>2. /\ DOMAIN channel'[c] = 1..(m + 1)
        /\ \A i \in 1..m : channel'[c][i] = channel[c][i]
        /\ channel'[c][m + 1] = Morsel(Chosen(w), n)
    BY <1>4, <2>1
  <2>3. \A i \in 1..m : channel[c][i].bytes \in Int
    <3>1. \A i \in 1..m : channel[c][i] \in Morsels
      BY <1>4, <2>1
    <3> QED BY <3>1 DEF Morsels
  <2>4. channel'[c][m + 1].bytes = n
    BY <2>2 DEF Morsel
  <2> DEFINE f == [i \in DOMAIN channel[c] |-> channel[c][i].bytes]
             g == [i \in DOMAIN channel'[c] |-> channel'[c][i].bytes]
  <2>5. f \in [1..m -> Int]
    BY <2>1, <2>3
  <2>6. g \in [1..(m + 1) -> Int] /\ g[m + 1] = n /\ \A i \in 1..m : g[i] = f[i]
    <3>1. \A i \in 1..(m + 1) : i = m + 1 \/ i \in 1..m
      OBVIOUS
    <3> QED BY <2>1, <2>2, <2>3, <2>4, <3>1
  <2> HIDE DEF f, g
  <2>7. SumFunction(g) = SumFunction(f) + g[m + 1]
    BY <2>5, <2>6, TotalAppend
  <2> QED BY <2>6, <2>7 DEF InChannel, f, g
<1>9. Exact(c)'
  <2>1. Exact(c) /\ budget[c].available \in Nat
    BY <1>1, LineType DEF BudgetInv
  <2>2. InChannel(c) \in Int /\ cursor[c].item.bytes \in Int /\ OnTheWay(c) \in Int
    BY <1>1, AheadType
  <2>3. OnTheWay(c)' = OnTheWay(c) - n
    <3>1. OnTheWay(c)' \in Int
      <4>1. IsFiniteSet(Granted(c)) /\ \A v \in Granted(c) : Load(v) \in Nat /\ v \in Workers
        BY GrantedType
      <4>2. IsFiniteSet(Granted(c)')
        BY <1>6, <4>1, FS_Subset
      <4>3. [v \in Granted(c)' |-> Load(v)'] \in [Granted(c)' -> Int]
        BY <1>3, <1>6, <4>1
      <4> QED BY <4>2, <4>3, TotalType DEF OnTheWay
    <3> QED BY <1>7, <2>2, <3>1
  <2> QED BY <1>2, <1>8, <2>1, <2>2, <2>3 DEF Exact, Open
<1>10. InLine(c)'
  <2> SUFFICES ASSUME NEW i \in DOMAIN budget[c].waiters,
                      NEW v \in Workers, v = budget[c].waiters[i].who
               PROVE  /\ worker'[v].pc = "send" /\ Consumer(v)' = c
                      /\ budget[c].waiters[i].need = Load(v)'
    BY <1>2, LineType DEF InLine, BudgetInv
  <2>1. worker[v].pc = "send" /\ Consumer(v) = c /\ budget[c].waiters[i].need = Load(v)
    BY DEF BudgetInv, InLine
  <2>2. v # w
    BY <1>2 DEF Waits
  <2> QED BY <1>2, <1>3, <2>1, <2>2
<1> QED BY <1>2, <1>5, <1>9, <1>10 DEF BudgetInv, FrameIsFree

-----------------------------------------------------------------------------
(* Releasing permits *)

LEMMA FirstInLine ==
  ASSUME NEW sem, NEW free \in Nat, sem.waiters \in Seq(Requests)
  PROVE  \E k \in 0..Len(sem.waiters) :
           /\ NeedOfFirst(sem, k) <= free /\ NeedOfFirst(sem, k) \in Int
           /\ k = Max({m \in 0..Len(sem.waiters) : NeedOfFirst(sem, m) <= free})
<1>0. PICK len \in Nat : len = Len(sem.waiters)
  OBVIOUS
<1> DEFINE S == {m \in 0..len : NeedOfFirst(sem, m) <= free}
<1>1. \A i \in 1..len : sem.waiters[i].need \in Nat
  <2>1. \A i \in 1..len : sem.waiters[i] \in Requests
    BY <1>0
  <2> QED BY <2>1 DEF Requests
<1>2. ASSUME NEW m \in 0..len
      PROVE  NeedOfFirst(sem, m) \in Int /\ (m = 0 => NeedOfFirst(sem, m) = 0)
  <2>1. [i \in 1..m |-> sem.waiters[i].need] \in [1..m -> Int]
    BY <1>1
  <2>2. IsFiniteSet(1..m)
    BY FS_Interval
  <2>3. m = 0 => 1..m = {}
    OBVIOUS
  <2> QED BY <2>1, <2>2, <2>3, TotalType DEF NeedOfFirst
<1>3. 0 \in S
  BY <1>1, <1>2
<1>4. \E k \in S : \A m \in S : k >= m
  <2> DEFINE T == {len - m : m \in S}
  <2>1. T \in SUBSET Nat /\ T # {}
    <3>1. \A m \in S : len - m \in Nat
      OBVIOUS
    <3> QED BY <1>3, <3>1
  <2> HIDE DEF T
  <2>2. PICK t \in T : \A u \in T : t <= u
    BY <2>1, Least
  <2>3. PICK k \in S : t = len - k
    BY <2>2 DEF T
  <2>4. \A m \in S : len - m \in T /\ m \in Int
    BY <1>1 DEF T
  <2> QED BY <1>1, <2>2, <2>3, <2>4
<1>5. Max(S) \in S
  BY <1>4 DEF Max
<1> QED BY <1>0, <1>2, <1>5

LEMMA ReleaseBudget ==
  ASSUME NEW c \in Cursors, NEW n \in Nat, OnceInv, budget \in [Cursors -> Semaphores], InLine(c),
         UNCHANGED <<folds, worker>>, budget'[c] = Release(budget[c], n)
  PROVE  /\ budget'[c] \in Semaphores /\ InLine(c)'
         /\ budget'[c].available + OnTheWay(c)' = budget[c].available + n + OnTheWay(c)
         /\ OnTheWay(c)' \in Int
         /\ budget[c].waiters = <<>> =>
              budget'[c].waiters = <<>> /\ budget'[c].available >= budget[c].available
<1>0. PICK sem \in Semaphores : sem = budget[c]
  OBVIOUS
<1>1. PICK line \in Seq(Requests), len \in Nat, free \in Nat :
        line = sem.waiters /\ len = Len(line) /\ free = sem.available + n
  <2>1. sem.waiters \in Seq(Requests) /\ sem.available \in Nat
    BY <1>0, LineType
  <2>2. Len(sem.waiters) \in Nat /\ sem.available + n \in Nat
    BY <2>1
  <2> QED BY <2>1, <2>2
<1>2. /\ DOMAIN line = 1..len
      /\ \A i \in 1..len : line[i].who \in Workers /\ line[i].need \in Nat
  <2>1. DOMAIN line = 1..len /\ line = budget[c].waiters
    BY <1>0, <1>1
  <2> QED BY <2>1, LineType
<1>3. PICK k \in 0..len :
        /\ NeedOfFirst(sem, k) <= free /\ NeedOfFirst(sem, k) \in Int
        /\ k = Max({m \in 0..len : NeedOfFirst(sem, m) <= free})
  <2>1. sem.waiters \in Seq(Requests) /\ len = Len(sem.waiters)
    BY <1>1
  <2> QED BY <2>1, FirstInLine
<1>4. PICK taken \in Int : taken = NeedOfFirst(sem, k) /\ taken <= free
  BY <1>3
<1>5. budget'[c] = [sem EXCEPT !.available = free - taken, !.waiters = SubSeq(line, k + 1, len)]
  BY <1>0, <1>1, <1>3, <1>4 DEF Release
<1>6. PICK rest \in Seq(Requests) :
        /\ rest = SubSeq(line, k + 1, len) /\ DOMAIN rest = 1..(len - k)
        /\ \A i \in 1..(len - k) : rest[i] = line[k + i]
  <2>1. PICK r : r = SubSeq(line, k + 1, len)
    OBVIOUS
  <2>2. r \in Seq(Requests) /\ DOMAIN r = 1..(len - k)
    BY <1>1, <1>2, <2>1
  <2>3. \A i \in 1..(len - k) : r[i] = line[k + i]
    BY <1>1, <1>2, <2>1
  <2> QED BY <2>1, <2>2, <2>3
<1>7. budget'[c] \in Semaphores /\ budget'[c].available = free - taken /\ budget'[c].waiters = rest
  <2>1. free - taken \in Nat
    BY <1>4
  <2>2. budget'[c] = [capacity |-> sem.capacity, available |-> free - taken, waiters |-> rest]
    BY <1>5, <1>6 DEF Semaphores
  <2> QED BY <1>6, <2>1, <2>2 DEF Semaphores
<1>8. \A v \in Workers : Consumer(v)' = Consumer(v) /\ Chosen(v)' = Chosen(v) /\ Load(v)' = Load(v)
  BY DEF Consumer, Chosen, Batch, Load
<1>9. /\ \A i \in 1..len : /\ worker[line[i].who].pc = "send" /\ Consumer(line[i].who) = c
                           /\ line[i].need = Load(line[i].who)
      /\ \A i, j \in 1..len : line[i].who = line[j].who => i = j
  BY <1>0, <1>1, <1>2 DEF InLine
<1>10. \A i \in 1..(len - k) : k + i \in 1..len
  OBVIOUS
<1>11. InLine(c)'
  <2>1. ASSUME NEW i \in 1..(len - k)
        PROVE  /\ worker'[rest[i].who].pc = "send" /\ Consumer(rest[i].who)' = c
               /\ rest[i].need = Load(rest[i].who)'
    <3>1. k + i \in 1..len /\ rest[i] = line[k + i]
      BY <1>6, <1>10
    <3> QED BY <1>2, <1>8, <1>9, <3>1
  <2>2. ASSUME NEW i \in 1..(len - k), NEW j \in 1..(len - k), rest[i].who = rest[j].who
        PROVE  i = j
    <3>1. k + i \in 1..len /\ rest[i] = line[k + i] /\ k + j \in 1..len /\ rest[j] = line[k + j]
      BY <1>6, <1>10
    <3>2. k + i = k + j
      BY <1>9, <2>2, <3>1
    <3> QED BY <3>2
  <2> QED BY <1>6, <1>7, <2>1, <2>2 DEF InLine
<1> DEFINE W == {line[i].who : i \in 1..k}
<1>12. W \subseteq Workers /\ W \intersect Granted(c) = {} /\ IsFiniteSet(W) /\ \A v \in W : Load(v) \in Nat
  <2>1. \A i \in 1..k : i \in 1..len
    OBVIOUS
  <2>2. \A v \in W : Waits(budget[c], v)
    BY <1>0, <1>1, <1>2, <2>1 DEF Waits
  <2>3. W \subseteq Workers
    BY <1>2, <2>1
  <2>4. \A v \in W : Load(v) \in Nat
    BY <1>2, <1>9, <2>1
  <2> QED BY <2>2, <2>3, <2>4, WorkersAssumption, FS_Subset DEF Granted
<1>13. Granted(c)' = Granted(c) \union W
  <2>1. ASSUME NEW v \in Workers
        PROVE  Waits(budget[c], v) <=> v \in W \/ Waits(budget'[c], v)
    <3>1. Waits(budget[c], v) <=> \E i \in 1..len : line[i].who = v
      BY <1>0, <1>1, <1>2 DEF Waits
    <3>2. Waits(budget'[c], v) <=> \E i \in 1..(len - k) : line[k + i].who = v
      BY <1>6, <1>7 DEF Waits
    <3>3. \A i \in 1..len : i \in 1..k \/ (i - k \in 1..(len - k) /\ k + (i - k) = i)
      OBVIOUS
    <3>4. \A i \in 1..k : i \in 1..len
      OBVIOUS
    <3> QED BY <1>10, <3>1, <3>2, <3>3, <3>4
  <2>2. \A v \in W : v \in Workers /\ worker[v].pc = "send" /\ Consumer(v) = c /\ ~Waits(budget'[c], v)
    <3>1. SUFFICES ASSUME NEW i \in 1..k
                   PROVE  /\ worker[line[i].who].pc = "send" /\ Consumer(line[i].who) = c
                          /\ ~Waits(budget'[c], line[i].who)
      BY <1>12
    <3>2. i \in 1..len
      OBVIOUS
    <3>3. \A j \in 1..(len - k) : line[k + j].who # line[i].who
      BY <1>9, <1>10, <3>2
    <3> QED BY <1>6, <1>7, <1>9, <3>2, <3>3 DEF Waits
  <2> HIDE DEF W
  <2> QED BY <1>8, <2>1, <2>2 DEF Granted
<1>14. PICK f : f = [v \in W |-> Load(v)]
  OBVIOUS
<1>15. SumFunction(f) = taken
  <2> DEFINE needs == [i \in 1..k |-> line[i].need]
             names == [i \in 1..k |-> line[i].who]
  <2>1. \A i \in 1..k : i \in 1..len
    OBVIOUS
  <2>2. needs \in [1..k -> Int] /\ f \in [W -> Int]
    BY <1>2, <1>12, <1>14, <2>1
  <2>3. Renames(names, needs, 1..k, f, W)
    <3>1. IsFiniteSet(1..k)
      BY FS_Interval
    <3>2. \A i \in 1..k : names[i] \in W /\ f[names[i]] = needs[i]
      BY <1>9, <1>14, <2>1
    <3>3. \A i, j \in 1..k : names[i] = names[j] => i = j
      BY <1>9, <2>1
    <3>4. \A v \in W : \E i \in 1..k : names[i] = v
      OBVIOUS
    <3> HIDE DEF names, needs, W
    <3> QED BY <1>12, <2>2, <3>1, <3>2, <3>3, <3>4 DEF Renames
  <2>4. taken = SumFunction(needs)
    BY <1>1, <1>4 DEF NeedOfFirst
  <2> HIDE DEF names, needs, W
  <2>5. SumFunction(needs) = SumFunction(f)
    BY <2>2, <2>3, TotalRenamed
  <2> QED BY <2>4, <2>5
<1> HIDE DEF W
<1>16. OnTheWay(c)' = OnTheWay(c) + taken
  <2> DEFINE g == [v \in Granted(c)' |-> Load(v)']
             h == [v \in Granted(c) |-> Load(v)]
  <2>1. IsFiniteSet(Granted(c)) /\ \A v \in Granted(c) : Load(v) \in Nat /\ v \in Workers
    BY GrantedType
  <2>2. Joins(g, h, Granted(c), f, W)
    BY <1>8, <1>12, <1>13, <1>14, <2>1 DEF Joins
  <2> HIDE DEF g, h
  <2>3. SumFunction(g) = SumFunction(h) + SumFunction(f)
    BY <2>2, TotalJoin
  <2> QED BY <1>15, <2>3 DEF OnTheWay, g, h
<1>17. OnTheWay(c) \in Int /\ sem.available \in Nat
  BY <1>0, AheadType, LineType
<1>18. line = <<>> => rest = <<>> /\ taken = 0
  <2> SUFFICES ASSUME line = <<>> PROVE rest = <<>> /\ taken = 0
    OBVIOUS
  <2>1. len = 0 /\ k = 0
    BY <1>1, <1>3
  <2>2. [i \in 1..k |-> sem.waiters[i].need] \in [{} -> Int]
    BY <2>1
  <2>3. taken = 0
    BY <1>4, <2>2, TotalType, FS_EmptySet DEF NeedOfFirst
  <2> QED BY <1>6, <2>1, <2>3
<1>19. OnTheWay(c)' \in Int /\ free - taken + OnTheWay(c)' = sem.available + n + OnTheWay(c)
  BY <1>1, <1>16, <1>17
<1>20. line = <<>> => free - taken >= sem.available
  BY <1>1, <1>17, <1>18
<1> QED BY <1>0, <1>1, <1>7, <1>11, <1>18, <1>19, <1>20

\* The cursor takes the next morsel, or resumes the one at hand.
LEMMA DeliverBudget ==
  ASSUME NEW c \in Cursors, OnceInv, BudgetInv, Open(c), NEW morsel \in Morsels, NEW out,
         Deliver(c, morsel, out), UNCHANGED <<folds, worker, scan>>,
         \A d \in Cursors \ {c} : channel'[d] = channel[d],
         InChannel(c)' \in Int,
         InChannel(c) + cursor[c].item.bytes = InChannel(c)' + morsel.bytes
  PROVE  BudgetInv'
<1>1. PICK item : /\ cursor' = [cursor EXCEPT ![c] = [pc |-> "open", item |-> item, got |-> cursor[c].got \union out]]
                  /\ item.bytes = IF morsel.rows \ out = {} THEN 0 ELSE morsel.bytes
  <2>1. PICK item : item = IF morsel.rows \ out = {} THEN Nothing
                           ELSE Morsel(morsel.rows \ out, morsel.bytes)
    OBVIOUS
  <2>2. item.bytes = IF morsel.rows \ out = {} THEN 0 ELSE morsel.bytes
    BY <2>1 DEF Morsel, Nothing
  <2> QED BY <2>1, <2>2 DEF Deliver
<1>2. /\ \A d \in Cursors \ {c} : cursor'[d] = cursor[d]
      /\ cursor'[c].item = item /\ cursor'[c].pc = "open"
  BY <1>1 DEF OnceInv, FoldTypes
<1>3. morsel.bytes \in Nat
  BY DEF Morsels
<1>4. budget \in [Cursors -> Semaphores] /\ InLine(c) /\ Exact(c) /\ FrameIsFree
  BY DEF BudgetInv
<1>5. InChannel(c) \in Int /\ cursor[c].item.bytes \in Int /\ OnTheWay(c) \in Int /\ budget[c].available \in Nat
  BY <1>4, AheadType, LineType
<1>6. budget[c].available + cursor[c].item.bytes + InChannel(c) + OnTheWay(c) = MemoryBudget
  BY <1>4 DEF Exact
<1>7. ASSUME morsel.rows \ out = {}
      PROVE  budget' \in [Cursors -> Semaphores] /\ InLine(c)' /\ Exact(c)' /\ FrameIsFree'
             /\ \A d \in Cursors \ {c} : budget'[d] = budget[d]
  <2>1. budget' = [budget EXCEPT ![c] = Release(budget[c], morsel.bytes)]
    BY <1>7 DEF Deliver
  <2>2. budget'[c] = Release(budget[c], morsel.bytes) /\ \A d \in Cursors \ {c} : budget'[d] = budget[d]
    BY <1>4, <2>1
  <2>3. /\ budget'[c] \in Semaphores /\ InLine(c)' /\ OnTheWay(c)' \in Int
        /\ budget'[c].available + OnTheWay(c)' = budget[c].available + morsel.bytes + OnTheWay(c)
        /\ budget[c].waiters = <<>> =>
             budget'[c].waiters = <<>> /\ budget'[c].available >= budget[c].available
    BY <1>3, <1>4, <2>2, ReleaseBudget
  <2>4. Exact(c)'
    <3>1. cursor'[c].item.bytes = 0
      BY <1>1, <1>2, <1>7
    <3>2. budget'[c].available \in Nat
      BY <2>3 DEF Semaphores
    <3>3. InChannel(c) + cursor[c].item.bytes = InChannel(c)' + morsel.bytes /\ InChannel(c)' \in Int
      OBVIOUS
    <3>4. PICK a \in Int, h \in Int, o \in Int :
            a = budget'[c].available /\ h = InChannel(c)' /\ o = OnTheWay(c)'
      BY <2>3, <3>2, <3>3
    <3>5. PICK b \in Int, i \in Int, k \in Int, p \in Int, n \in Int :
            /\ b = budget[c].available /\ i = cursor[c].item.bytes /\ k = InChannel(c)
            /\ p = OnTheWay(c) /\ n = morsel.bytes
      BY <1>3, <1>5
    <3>6. a + o = b + n + p /\ k + i = h + n /\ b + i + k + p = MemoryBudget
      BY <1>6, <2>3, <3>3, <3>4, <3>5
    <3>7. a + 0 + h + o = MemoryBudget
      BY <3>6
    <3> QED BY <3>1, <3>4, <3>7 DEF Exact
  <2>5. FrameIsFree'
    <3>1. CASE c = Framed
      <4>1. budget'[c].available \in Nat /\ MemoryBudget \in Nat
        BY <2>3, BudgetAssumption DEF Semaphores
      <4> QED BY <1>4, <1>5, <2>3, <3>1, <4>1 DEF FrameIsFree
    <3>2. CASE c # Framed
      BY <1>4, <2>2, <3>2, ScanAssumption DEF FrameIsFree
    <3> QED BY <3>1, <3>2
  <2>6. budget' \in [Cursors -> Semaphores]
    BY <1>4, <2>1, <2>2, <2>3
  <2> QED BY <2>2, <2>3, <2>4, <2>5, <2>6
<1>8. ASSUME morsel.rows \ out # {}
      PROVE  budget' \in [Cursors -> Semaphores] /\ InLine(c)' /\ Exact(c)' /\ FrameIsFree'
             /\ \A d \in Cursors \ {c} : budget'[d] = budget[d]
  <2>1. budget' = budget
    BY <1>8 DEF Deliver
  <2>2. \A v \in Workers : Consumer(v)' = Consumer(v) /\ Chosen(v)' = Chosen(v) /\ Load(v)' = Load(v)
    BY DEF Consumer, Chosen, Batch, Load
  <2>3. InLine(c)'
    BY <1>4, <2>1, <2>2, LineType DEF InLine
  <2>4. Granted(c)' = Granted(c) /\ Granted(c) \subseteq Workers
    BY <2>1, <2>2 DEF Granted
  <2>5. OnTheWay(c)' = OnTheWay(c)
    BY <2>2, <2>4 DEF OnTheWay
  <2>6. Exact(c)'
    BY <1>1, <1>2, <1>3, <1>5, <1>6, <1>8, <2>1, <2>5 DEF Exact
  <2> QED BY <1>4, <2>1, <2>3, <2>6 DEF FrameIsFree
<1>9. budget' \in [Cursors -> Semaphores] /\ InLine(c)' /\ Exact(c)' /\ FrameIsFree'
      /\ \A d \in Cursors \ {c} : budget'[d] = budget[d]
  BY <1>7, <1>8
<1>10. \A d \in Cursors \ {c} : InLine(d)' /\ Exact(d)'
  <2> SUFFICES ASSUME NEW d \in Cursors \ {c} PROVE InLine(d)' /\ Exact(d)'
    OBVIOUS
  <2>1. Elsewhere(d)
    BY <1>2, <1>9 DEF Elsewhere, Open
  <2> QED BY <2>1, ElsewhereInv
<1> QED BY <1>9, <1>10 DEF BudgetInv

LEMMA CursorBudget ==
  ASSUME NEW c \in Active, OnceInv, BudgetInv, Cursor(c)
  PROVE  BudgetInv'
<1>1. c \in Cursors /\ channel \in [Cursors -> Seq(Morsels)] /\ cursor[c].item \in Morsels
  BY DEF Active, Range, OnceInv, FoldTypes
<1>2. ASSUME Receive(c) PROVE BudgetInv'
  <2>1. /\ UNCHANGED <<folds, worker, scan>> /\ cursor[c].item = Nothing /\ Open(c)
        /\ channel[c] # <<>> /\ channel' = [channel EXCEPT ![c] = Tail(channel[c])]
    BY <1>2 DEF Receive, scanning, Open
  <2>2. PICK morsel, out :
          morsel \in Morsels /\ morsel = Head(channel[c]) /\ Deliver(c, morsel, out)
    <3>1. channel[c] \in Seq(Morsels)
      BY <1>1
    <3>2. Head(channel[c]) \in Morsels
      BY <2>1, <3>1
    <3> QED BY <1>2, <3>2 DEF Receive
  <2>3. PICK m \in Nat : /\ DOMAIN channel[c] = 1..(m + 1) /\ DOMAIN channel'[c] = 1..m
                         /\ \A i \in 1..m : channel'[c][i] = channel[c][i + 1]
                         /\ channel[c][1] = morsel
                         /\ channel[c] \in [1..(m + 1) -> Morsels]
    <3>1. channel'[c] = Tail(channel[c]) /\ channel[c] \in Seq(Morsels)
      BY <1>1, <2>1
    <3>2. PICK m \in Nat : m + 1 = Len(channel[c])
      <4>1. Len(channel[c]) \in Nat /\ Len(channel[c]) # 0
        BY <2>1, <3>1
      <4>2. Len(channel[c]) - 1 \in Nat /\ (Len(channel[c]) - 1) + 1 = Len(channel[c])
        BY <4>1
      <4> QED BY <4>2
    <3>3. channel[c] \in [1..(m + 1) -> Morsels]
      BY <3>1, <3>2
    <3>4. DOMAIN channel'[c] = 1..m /\ \A i \in 1..m : channel'[c][i] = channel[c][i + 1]
      BY <3>1, <3>2
    <3>5. channel[c][1] = morsel
      BY <2>2, <3>1
    <3> QED BY <3>3, <3>4, <3>5
  <2>4. InChannel(c)' \in Int /\ InChannel(c) = InChannel(c)' + morsel.bytes
    <3> DEFINE f == [i \in DOMAIN channel'[c] |-> channel'[c][i].bytes]
               g == [i \in DOMAIN channel[c] |-> channel[c][i].bytes]
    <3>1. \A i \in 1..(m + 1) : channel[c][i].bytes \in Int
      BY <2>3 DEF Morsels
    <3>2. \A i \in 1..m : i + 1 \in 1..(m + 1)
      OBVIOUS
    <3>3. f \in [1..m -> Int] /\ \A i \in 1..m : g[i + 1] = f[i]
      BY <2>3, <3>1, <3>2
    <3>4. g \in [1..(m + 1) -> Int] /\ g[1] = morsel.bytes
      BY <2>3, <3>1
    <3> HIDE DEF f, g
    <3>5. SumFunction(g) = SumFunction(f) + g[1]
      BY <3>3, <3>4, TotalTail
    <3>6. SumFunction(f) \in Int
      BY <3>3, FS_Interval, TotalType
    <3> QED BY <3>4, <3>5, <3>6 DEF InChannel, f, g
  <2>5. \A d \in Cursors \ {c} : channel'[d] = channel[d]
    BY <1>1, <2>1
  <2>6. InChannel(c) + cursor[c].item.bytes = InChannel(c)' + morsel.bytes
    <3>1. cursor[c].item.bytes = 0 /\ morsel.bytes \in Nat
      <4>1. cursor[c].item.bytes = 0
        BY <2>1 DEF Nothing, Morsel
      <4>2. morsel \in Morsels
        BY <2>2
      <4> QED BY <4>1, <4>2 DEF Morsels
    <3> QED BY <2>4, <3>1
  <2> QED BY <1>1, <2>1, <2>2, <2>4, <2>5, <2>6, DeliverBudget
<1>3. ASSUME Resume(c) PROVE BudgetInv'
  <2>1. UNCHANGED <<folds, worker, scan, channel>> /\ Open(c)
    BY <1>3 DEF Resume, scanning, Open
  <2>2. PICK out : Deliver(c, cursor[c].item, out)
    BY <1>3 DEF Resume
  <2>3. InChannel(c)' = InChannel(c) /\ InChannel(c) \in Int
    BY <1>1, <2>1, AheadType DEF InChannel
  <2>4. \A d \in Cursors \ {c} : channel'[d] = channel[d]
    BY <2>1
  <2> QED BY <1>1, <2>1, <2>2, <2>3, <2>4, DeliverBudget
<1>4. ASSUME End(c) \/ Narrow(c) \/ Abandon(c) PROVE BudgetInv'
  <2>1. UNCHANGED <<folds, worker, scan, channel, budget>>
    BY <1>4 DEF End, Narrow, Abandon, scanning
  <2>2. /\ \A d \in Cursors : cursor'[d].item = cursor[d].item
        /\ \A d \in Cursors : Open(d)' => Open(d)
    <3>1. CASE End(c) \/ Abandon(c)
      <4>1. PICK pc \in {"ended", "leaving"} : cursor' = [cursor EXCEPT ![c].pc = pc]
        BY <3>1 DEF End, Abandon
      <4>2. cursor \in [Cursors -> [pc : Pcs, item : Morsels, got : SUBSET Rows]]
        BY DEF OnceInv, FoldTypes
      <4>3. cursor'[c].pc = pc /\ cursor'[c].item = cursor[c].item
            /\ \A d \in Cursors \ {c} : cursor'[d] = cursor[d]
        BY <1>1, <4>1, <4>2
      <4> QED BY <4>3 DEF Open
    <3>2. CASE Narrow(c)
      BY <3>2 DEF Narrow, Open
    <3> QED BY <1>4, <3>1, <3>2
  <2>3. \A d \in Cursors : Elsewhere(d)
    BY <2>1, <2>2 DEF Elsewhere
  <2> QED BY <2>1, <2>3, ElsewhereInv DEF BudgetInv, FrameIsFree
<1>5. ASSUME Unpark(c) PROVE BudgetInv'
  <2>1. /\ UNCHANGED <<folds, worker, scan, channel>>
        /\ budget' = [budget EXCEPT ![c] = Release(budget[c], Plenty)]
        /\ cursor' = [cursor EXCEPT ![c].pc = "gone"]
    BY <1>5 DEF Unpark, scanning
  <2>2. budget \in [Cursors -> Semaphores] /\ InLine(c) /\ FrameIsFree
    BY <1>1 DEF BudgetInv
  <2>3. budget'[c] = Release(budget[c], Plenty) /\ \A d \in Cursors \ {c} : budget'[d] = budget[d]
    BY <1>1, <2>1, <2>2
  <2>4. /\ budget'[c] \in Semaphores /\ InLine(c)'
        /\ budget[c].waiters = <<>> =>
             budget'[c].waiters = <<>> /\ budget'[c].available >= budget[c].available
    BY <1>1, <2>1, <2>2, <2>3, BudgetAssumption, ReleaseBudget
  <2>5. ~Open(c)' /\ \A d \in Cursors \ {c} : cursor'[d] = cursor[d]
    BY <1>1, <2>1 DEF Open, OnceInv, FoldTypes
  <2>6. \A d \in Cursors \ {c} : Elsewhere(d)
    BY <2>1, <2>3, <2>5 DEF Elsewhere, Open
  <2>7. FrameIsFree'
    <3>1. CASE c = Framed
      <4>1. budget'[c].available \in Nat /\ MemoryBudget \in Nat /\ budget[c].available \in Nat
        BY <1>1, <2>2, <2>4, BudgetAssumption, LineType DEF Semaphores
      <4> QED BY <2>1, <2>2, <2>4, <3>1, <4>1 DEF FrameIsFree
    <3>2. CASE c # Framed
      BY <2>1, <2>2, <2>3, <3>2, ScanAssumption DEF FrameIsFree
    <3> QED BY <3>1, <3>2
  <2>8. budget' \in [Cursors -> Semaphores]
    BY <2>1, <2>2, <2>3, <2>4
  <2> QED BY <2>4, <2>5, <2>6, <2>7, <2>8, ElsewhereInv DEF BudgetInv, Exact
<1> QED BY <1>2, <1>3, <1>4, <1>5 DEF Cursor, Draining

LEMMA ScanBudget ==
  ASSUME OnceInv, BudgetInv, BatchesFit, Join \/ SendFrame
  PROVE  BudgetInv'
<1>1. CASE Join
  <2>1. UNCHANGED <<folds, worker, channel, budget, cursor>> /\ scan = "run"
    BY <1>1 DEF Join, scanning
  <2>2. \A d \in Cursors : Elsewhere(d)
    BY <2>1 DEF Elsewhere, Open
  <2> QED BY <2>1, <2>2, ElsewhereInv DEF BudgetInv, FrameIsFree
<1>2. CASE SendFrame
  <2>1. PICK rows :
          /\ scan = "frame" /\ UNCHANGED <<folds, worker, cursor>> /\ scan' = "over"
          /\ budget' = [budget EXCEPT ![Framed] = Acquire(budget[Framed], Framed, 1)]
          /\ channel' = [channel EXCEPT ![Framed] = Append(channel[Framed], Morsel(rows, 1))]
    BY <1>2 DEF SendFrame, scanning
  <2>2. /\ Framed \in Cursors /\ budget \in [Cursors -> Semaphores] /\ Exact(Framed)
        /\ budget[Framed].waiters = <<>> /\ budget[Framed].available >= MemoryBudget
    BY <2>1, ScanAssumption DEF BudgetInv, FrameIsFree
  <2>3. PICK sem \in Semaphores : sem = budget[Framed] /\ sem.capacity = MemoryBudget /\ sem.available \in Nat
    BY <2>2, LineType
  <2>4. MemoryBudget \in Nat /\ MemoryBudget >= 1
    BY BudgetAssumption DEF BatchesFit
  <2>5. budget'[Framed] = [sem EXCEPT !.available = sem.available - 1]
    <3>1. Need(sem, 1) = 1
      BY <2>3, <2>4 DEF Need
    <3>2. sem.available >= 1
      BY <2>2, <2>3, <2>4
    <3> QED BY <2>1, <2>2, <2>3, <3>1, <3>2 DEF Acquire
  <2>6. budget'[Framed] \in Semaphores /\ budget'[Framed].waiters = <<>>
        /\ budget'[Framed].available = sem.available - 1
    <3>1. sem.available - 1 \in Nat
      BY <2>2, <2>3, <2>4
    <3> QED BY <2>2, <2>3, <2>5, <3>1 DEF Semaphores
  <2>7. /\ \A d \in Cursors \ {Framed} : budget'[d] = budget[d] /\ channel'[d] = channel[d]
        /\ channel[Framed] \in Seq(Morsels)
        /\ channel'[Framed] = Append(channel[Framed], Morsel(rows, 1))
    BY <2>1, <2>2 DEF OnceInv, FoldTypes
  <2>8. \A d \in Cursors \ {Framed} : Elsewhere(d)
    BY <2>1, <2>7 DEF Elsewhere, Open
  <2>9. Granted(Framed) = {} /\ Granted(Framed)' = {}
    BY <2>1 DEF Granted, OnceInv, FrameIsLast
  <2>10. OnTheWay(Framed)' = OnTheWay(Framed)
    BY <2>9 DEF OnTheWay
  <2>11. InChannel(Framed)' = InChannel(Framed) + 1
    <3>1. channel[Framed] = <<>>
      BY <2>1, <2>2 DEF OnceInv, FrameIsLast
    <3> DEFINE f == [i \in DOMAIN channel[Framed] |-> channel[Framed][i].bytes]
               g == [i \in DOMAIN channel'[Framed] |-> channel'[Framed][i].bytes]
    <3>2. PICK m \in Nat : m = 0
      OBVIOUS
    <3>3. channel'[Framed] = <<Morsel(rows, 1)>>
      BY <2>7, <3>1
    <3>4. /\ f \in [1..m -> Int] /\ g \in [1..(m + 1) -> Int] /\ g[m + 1] = 1
          /\ \A i \in 1..m : g[i] = f[i]
      BY <3>1, <3>2, <3>3 DEF Morsel
    <3> HIDE DEF f, g
    <3>5. SumFunction(g) = SumFunction(f) + g[m + 1]
      BY <3>4, TotalAppend
    <3> QED BY <3>4, <3>5 DEF InChannel, f, g
  <2>12. Exact(Framed)'
    <3>1. InChannel(Framed) \in Int /\ cursor[Framed].item.bytes \in Int /\ OnTheWay(Framed) \in Int
      BY <2>2, AheadType
    <3> QED BY <2>1, <2>2, <2>3, <2>6, <2>10, <2>11, <3>1 DEF Exact, Open
  <2>13. InLine(Framed)'
    BY <2>6 DEF InLine
  <2>14. budget' \in [Cursors -> Semaphores]
    BY <2>1, <2>2, <2>6, <2>7
  <2>15. FrameIsFree'
    BY <2>1, <2>6 DEF FrameIsFree
  <2> QED BY <2>8, <2>12, <2>13, <2>14, <2>15, ElsewhereInv DEF BudgetInv
<1> QED BY <1>1, <1>2

\* The steps of a worker that take and give no permits of a cursor.
LEMMA OtherBudget ==
  ASSUME NEW w \in Workers, OnceInv, BudgetInv,
         \/ Claim(w) \/ NoMore(w) \/ Admitted(w) \/ Scanned(w) \/ Seal(w) \/ Throw(w)
         \/ AddUp(w) \/ Ignore(w) \/ Stepped(w)
  PROVE  BudgetInv'
<1>1. /\ UNCHANGED <<folds, channel, budget, cursor, scan>>
      /\ worker[w].pc # "send" /\ worker'[w].pc # "send"
      /\ \A v \in Workers \ {w} : worker'[v] = worker[v]
  <2> USE DEF OnceInv, IInv, Types
  <2>1. CASE Claim(w)
    BY <2>1 DEF Claim
  <2>2. CASE NoMore(w)
    BY <2>2 DEF NoMore, Leave
  <2>3. CASE Scanned(w)
    BY <2>3 DEF Scanned, Leave, Moved
  <2>4. CASE Admitted(w) \/ Seal(w) \/ Throw(w)
    BY <2>4 DEF Admitted, Seal, Throw
  <2>5. CASE AddUp(w) \/ Ignore(w)
    BY <2>5 DEF AddUp, Ignore
  <2>6. CASE Stepped(w)
    BY <2>6 DEF Stepped, Moved
  <2> QED BY <2>1, <2>2, <2>3, <2>4, <2>5, <2>6
<1>2. \A d \in Cursors : Elsewhere(d)
  BY <1>1 DEF Elsewhere, Open
<1> QED BY <1>1, <1>2, ElsewhereInv DEF BudgetInv, FrameIsFree

LEMMA NextBudget == OnceInv /\ BudgetInv /\ BatchesFit /\ [Next]_vars => BudgetInv'
<1> SUFFICES ASSUME OnceInv, BudgetInv, BatchesFit, [Next]_vars PROVE BudgetInv'
  OBVIOUS
<1>1. CASE \E w \in Workers : Worker(w)
  BY <1>1, OtherBudget, StepBudget, SendBudget DEF Worker
<1>2. CASE Join \/ SendFrame
  BY <1>2, ScanBudget
<1>3. CASE \E c \in Active : Cursor(c)
  BY <1>3, CursorBudget
<1>4. CASE UNCHANGED vars
  <2>1. \A d \in Cursors : Elsewhere(d)
    BY <1>4 DEF vars, scanning, Elsewhere, Open
  <2> QED BY <1>4, <2>1, ElsewhereInv DEF vars, scanning, BudgetInv, FrameIsFree
<1> QED BY <1>1, <1>2, <1>3, <1>4 DEF Next

LEMMA InitBudget == Init => BudgetInv
<1> SUFFICES ASSUME Init PROVE BudgetInv
  OBVIOUS
<1>1. /\ budget = [c \in Cursors |-> [capacity |-> MemoryBudget, available |-> MemoryBudget, waiters |-> <<>>]]
      /\ channel = [c \in Cursors |-> <<>>] /\ \A w \in Workers : worker[w].pc = "claim"
      /\ \A c \in Cursors : cursor[c].item = Nothing
  BY DEF Init, Full
<1>2. budget \in [Cursors -> Semaphores]
  BY <1>1, BudgetAssumption DEF Semaphores
<1>3. FrameIsFree
  BY <1>1, ScanAssumption, BudgetAssumption DEF FrameIsFree
<1>4. ASSUME NEW c \in Cursors PROVE InLine(c) /\ Exact(c)
  <2>1. InLine(c)
    BY <1>1 DEF InLine
  <2>2. Granted(c) = {}
    BY <1>1 DEF Granted
  <2>3. OnTheWay(c) = 0
    <3>1. [w \in Granted(c) |-> Load(w)] \in [{} -> Int]
      BY <2>2
    <3> QED BY <3>1, TotalType, FS_EmptySet DEF OnTheWay
  <2>4. InChannel(c) = 0
    <3>1. [i \in DOMAIN channel[c] |-> channel[c][i].bytes] \in [{} -> Int]
      BY <1>1
    <3> QED BY <3>1, TotalType, FS_EmptySet DEF InChannel
  <2> QED BY <1>1, <2>1, <2>3, <2>4, BudgetAssumption DEF Exact, Nothing, Morsel
<1> QED BY <1>2, <1>3, <1>4 DEF BudgetInv

\* Whatever a cursor's budget is short of is in its channel, in its hands or
\* on its way, if no batch is larger than the budget.
THEOREM NoPermitLost == BatchesFit => (Spec => []BudgetIsExact)
<1>1. OnceInv /\ BudgetInv => BudgetIsExact
  <2> SUFFICES ASSUME OnceInv, BudgetInv, NEW c \in Active, Open(c)
               PROVE  budget[c].available + cursor[c].item.bytes
                        + SumFunction([i \in DOMAIN channel[c] |-> channel[c][i].bytes])
                        + SumFunction([w \in Granted(c) |-> Cardinality(Chosen(w))]) = MemoryBudget
    BY DEF BudgetIsExact
  <2>1. c \in Cursors
    BY DEF Active, Range, OnceInv, FoldTypes
  <2> QED BY <2>1 DEF BudgetInv, Exact, InChannel, OnTheWay, Load
<1>2. BatchesFit => (Init /\ [][Next]_vars => [](OnceInv /\ BudgetInv))
  <2> SUFFICES ASSUME BatchesFit PROVE Init /\ [][Next]_vars => [](OnceInv /\ BudgetInv)
    OBVIOUS
  <2>1. (OnceInv /\ BudgetInv) /\ [Next]_vars => (OnceInv /\ BudgetInv)'
    BY OnceNext, NextBudget
  <2>2. Init => OnceInv /\ BudgetInv
    BY OnceInit, InitBudget
  <2> QED BY <2>1, <2>2, PTL
<1> QED BY <1>1, <1>2, PTL DEF Spec
=============================================================================
