---------------------------- MODULE StreamScan ----------------------------
(***************************************************************************)
(* The parallel scan of a trace and the cursors that stream its rows:      *)
(* fuse() (trace/views/fold.cpp) and its workers, StreamRowFold            *)
(* (stream_row_fold.h), and StreamViewCursor, open_stream() and            *)
(* open_batch() (view_source.cpp).                                         *)
(*                                                                         *)
(* open_stream() scans for one cursor, which may narrow or stop the scan;  *)
(* open_batch() scans once for several, one of which gets a single frame   *)
(* when the scan is over.  A worker decodes the batches of a unit and      *)
(* hands each one to the folds in turn.  The channels are unbounded: the   *)
(* semaphores are the only brake.                                          *)
(***************************************************************************)
EXTENDS CoroSemaphore, SequencesExt

CONSTANTS
  Workers,
  Units,         \* of every unit, its batches: sets of rows
  UnitBytes,     \* of every unit, what decoding it takes
  Cursors,
  Alone,         \* the cursor of open_stream
  Framed,        \* the cursor of open_batch that gets a frame
  Selected,      \* of every cursor, the rows that it asks for
  Kept,          \* the rows that are left when Alone narrows the scan
  MemoryBudget,  \* of every cursor
  DecodeBudget,  \* of the scan
  Plenty         \* BOUND: UINT32_MAX

ASSUME ScanAssumption ==
  IsFiniteSet(Cursors) /\ Alone \in Cursors /\ Framed \in Cursors /\ Alone # Framed
ASSUME WorkersAssumption ==  \* As many as there are slots, but no more than units.
  IsFiniteSet(Workers) /\ (Len(Units) > 0 => Workers # {})
ASSUME BudgetAssumption == MemoryBudget \in Nat /\ Plenty \in Nat
ASSUME UnitsAssumption ==
  /\ Len(Units) \in Nat /\ DOMAIN Units = 1..Len(Units)
  /\ \A u \in DOMAIN Units :
       Len(Units[u]) \in Nat /\ DOMAIN Units[u] = 1..Len(Units[u])
ASSUME RowsAssumption ==  \* A row is in one batch of one unit.
  /\ \A u \in DOMAIN Units : \A b \in DOMAIN Units[u] : IsFiniteSet(Units[u][b])
  /\ \A u, v \in DOMAIN Units : \A b \in DOMAIN Units[u] : \A d \in DOMAIN Units[v] :
       <<u, b>> # <<v, d>> => Units[u][b] \intersect Units[v][d] = {}

VARIABLES
  folds,     \* the cursors that the scan is for, in the order of their folds
  worker,    \* of every worker: pc, unit, batch, and position among the folds
  next,      \* next_unit
  excluded,  \* what narrow() has ruled out
  skipped,   \* and how often it did
  covered,   \* the units that were read to the end
  whole,     \* the file is claimed to be
  decode,    \* budget_sem
  budget,    \* of every cursor: its semaphore,
  channel,   \*   the morsels sent to it,
  stop,      \*   its flag `stop` or `dropped`,
  cursor,    \*   its pc, the morsel it is slicing, and the rows it gave
  slices,    \* of every worker: what it added up for the frame
  scan,      \* "run", "frame" or "over"
  read       \* history: the batches that went through all folds

scanning == <<worker, next, covered, decode, slices, read>>
vars == <<folds, excluded, skipped, whole, budget, channel, stop, cursor, scan, scanning>>

Morsel(rows, bytes) == [rows |-> rows, bytes |-> bytes]
Nothing == Morsel({}, 0)
Rows == UNION {UNION Range(Units[u]) : u \in DOMAIN Units}
Active == Range(folds)

Orders(S) == {s \in [1..Cardinality(S) -> S] : IsInjective(s)}

Init ==
  /\ folds \in {<<Alone>>} \union {<<Framed>> \o rest : rest \in Orders(Cursors \ {Framed})}
  /\ worker = [w \in Workers |-> [pc |-> "claim", unit |-> 0, batch |-> 0, pos |-> 0]]
  /\ next = 1 /\ excluded = {} /\ skipped = 0 /\ covered = {} /\ whole = FALSE
  /\ decode = Full(DecodeBudget)
  /\ budget = [c \in Cursors |-> Full(MemoryBudget)]
  /\ channel = [c \in Cursors |-> <<>>]
  /\ stop = [c \in Cursors |-> FALSE]
  /\ cursor = [c \in Cursors |-> [pc |-> "open", item |-> Nothing, got |-> {}]]
  /\ slices = [w \in Workers |-> {}]
  /\ scan = "run"
  /\ read = {}

\* Only the cursor of open_stream cancels the scan.
Cancelled == folds = <<Alone>> /\ stop[Alone]

-----------------------------------------------------------------------------
(* fuse_worker *)

Moved(w, pc, batch, pos) ==
  [pc |-> pc, unit |-> worker[w].unit, batch |-> batch, pos |-> pos]

Leave(w) == worker' = [worker EXCEPT ![w].pc = "done"]

\* next_unit.fetch_add, and acquire() of what the unit takes.
Claim(w) ==
  /\ worker[w].pc = "claim"
  /\ ~Cancelled /\ next <= Len(Units)
  /\ next' = next + 1
  /\ IF next \in excluded
     THEN skipped' = skipped + 1 /\ UNCHANGED <<worker, decode>>
     ELSE /\ worker' = [worker EXCEPT ![w] = [pc |-> "decode", unit |-> next, batch |-> 1, pos |-> 1]]
          /\ decode' = Acquire(decode, w, UnitBytes[next])
          /\ UNCHANGED skipped
  /\ UNCHANGED <<folds, excluded, covered, whole, budget, channel, stop, cursor, slices, scan, read>>

NoMore(w) ==
  /\ worker[w].pc = "claim"
  /\ Cancelled \/ next > Len(Units)
  /\ Leave(w)
  /\ UNCHANGED <<folds, next, excluded, skipped, covered, whole, decode, budget, channel, stop, cursor, slices, scan, read>>

\* The semaphore has woken the worker, or never stopped it.
Admitted(w) ==
  /\ worker[w].pc = "decode" /\ ~Waits(decode, w)
  /\ worker' = [worker EXCEPT ![w].pc = "batch"]
  /\ UNCHANGED <<folds, next, excluded, skipped, covered, whole, decode, budget, channel, stop, cursor, slices, scan, read>>

UnitIsRead(w) == worker[w].batch > Len(Units[worker[w].unit])

Scanned_seal(w) ==
  /\ worker[w].pc = "batch" /\ ~UnitIsRead(w)
  /\ worker' = [worker EXCEPT ![w] = Moved(w, IF Cancelled THEN "claim" ELSE "step", worker[w].batch, 1)]
  /\ covered' = IF Cancelled THEN covered \union {worker[w].unit} ELSE covered
  /\ decode' = IF Cancelled THEN Release(decode, UnitBytes[worker[w].unit]) ELSE decode
  /\ UNCHANGED <<folds, next, excluded, skipped, whole, budget, channel, stop, cursor, slices, scan, read>>

\* The next batch of the scanner, which is dropped if the scan is cancelled:
\* the rest of the unit with it, and the worker ends.
Scanned(w) ==
  /\ worker[w].pc = "batch" /\ ~UnitIsRead(w)
  /\ IF Cancelled
     THEN /\ Leave(w)
          /\ decode' = Release(decode, UnitBytes[worker[w].unit])
     ELSE worker' = [worker EXCEPT ![w] = Moved(w, "step", worker[w].batch, 1)] /\ UNCHANGED decode
  /\ UNCHANGED <<folds, next, excluded, skipped, covered, whole, budget, channel, stop, cursor, slices, scan, read>>

Seal(w) ==
  /\ worker[w].pc = "batch" /\ UnitIsRead(w)
  /\ covered' = covered \union {worker[w].unit}
  /\ decode' = Release(decode, UnitBytes[worker[w].unit])
  /\ worker' = [worker EXCEPT ![w].pc = "claim"]
  /\ UNCHANGED <<folds, next, excluded, skipped, whole, budget, channel, stop, cursor, slices, scan, read>>

\* Reading the file fails; the exception goes to a SpawnFuture that nobody
\* looks at.
Throw(w) ==
  /\ worker[w].pc = "batch"
  /\ worker' = [worker EXCEPT ![w].pc = "failed"]
  /\ decode' = Release(decode, UnitBytes[worker[w].unit])
  /\ UNCHANGED <<folds, next, excluded, skipped, covered, whole, budget, channel, stop, cursor, slices, scan, read>>

-----------------------------------------------------------------------------
(* The folds: step() and the task it leaves to be awaited *)

Batch(w)    == Units[worker[w].unit][worker[w].batch]
Consumer(w) == folds[worker[w].pos]
Chosen(w)   == Batch(w) \intersect Selected[Consumer(w)]

\* EngineAggFold: adds the batch to this worker's slice.
AddUp(w) ==
  /\ worker[w].pc = "step" /\ worker[w].pos <= Len(folds) /\ Consumer(w) = Framed
  /\ slices' = [slices EXCEPT ![w] = @ \union Chosen(w)]
  /\ worker' = [worker EXCEPT ![w].pos = @ + 1]
  /\ UNCHANGED <<folds, next, excluded, skipped, covered, whole, decode, budget, channel, stop, cursor, scan, read>>

\* StreamRowFold::step: nothing to send, or nobody to send it to.
Ignore(w) ==
  /\ worker[w].pc = "step" /\ worker[w].pos <= Len(folds) /\ Consumer(w) # Framed
  /\ Chosen(w) = {} \/ (folds # <<Alone>> /\ stop[Consumer(w)])
  /\ worker' = [worker EXCEPT ![w].pos = @ + 1]
  /\ UNCHANGED <<folds, next, excluded, skipped, covered, whole, decode, budget, channel, stop, cursor, slices, scan, read>>

Step(w) ==
  /\ worker[w].pc = "step" /\ worker[w].pos <= Len(folds) /\ Consumer(w) # Framed
  /\ Chosen(w) # {} /\ (folds = <<Alone>> \/ ~stop[Consumer(w)])
  /\ budget' = [budget EXCEPT ![Consumer(w)] = Acquire(@, w, Cardinality(Chosen(w)))]
  /\ worker' = [worker EXCEPT ![w].pc = "send"]
  /\ UNCHANGED <<folds, next, excluded, skipped, covered, whole, decode, channel, stop, cursor, slices, scan, read>>

Send(w) ==
  /\ worker[w].pc = "send" /\ ~Waits(budget[Consumer(w)], w)
  /\ channel' = [channel EXCEPT ![Consumer(w)] =
                   Append(@, Morsel(Chosen(w), Cardinality(Chosen(w))))]
  /\ worker' = [worker EXCEPT ![w] = Moved(w, "step", worker[w].batch, worker[w].pos + 1)]
  /\ UNCHANGED <<folds, next, excluded, skipped, covered, whole, decode, budget, stop, cursor, slices, scan, read>>

Stepped(w) ==
  /\ worker[w].pc = "step" /\ worker[w].pos > Len(folds)
  /\ read' = read \union {<<worker[w].unit, worker[w].batch>>}
  /\ worker' = [worker EXCEPT ![w] = Moved(w, "batch", worker[w].batch + 1, worker[w].pos)]
  /\ UNCHANGED <<folds, next, excluded, skipped, covered, whole, decode, budget, channel, stop, cursor, slices, scan>>

Worker(w) ==
  \/ Claim(w) \/ NoMore(w) \/ Admitted(w) \/ Scanned(w) \/ Seal(w) \/ Throw(w)
  \/ AddUp(w) \/ Ignore(w) \/ Step(w) \/ Send(w) \/ Stepped(w)

-----------------------------------------------------------------------------
(* fuse and run_open_batch, after the workers *)

Join ==
  /\ scan = "run" /\ \A w \in Workers : worker[w].pc \in {"done", "failed"}
  /\ whole' = (skipped = 0 /\ covered = DOMAIN Units)
  /\ scan' = IF Framed \in Active THEN "frame" ELSE "over"
  /\ UNCHANGED <<folds, excluded, skipped, budget, channel, stop, cursor, scanning>>

\* The merged slices are sent as one morsel, and the channels close.
SendFrame ==
  /\ scan = "frame"
  /\ budget' = [budget EXCEPT ![Framed] = Acquire(@, Framed, 1)]
  /\ channel' = [channel EXCEPT ![Framed] =
                   Append(@, Morsel(UNION {slices[w] : w \in Workers}, 1))]
  /\ scan' = "over"
  /\ UNCHANGED <<folds, excluded, skipped, whole, stop, cursor, scanning>>

-----------------------------------------------------------------------------
(* StreamViewCursor *)

Deliver_each(c, morsel, out) ==
  LET rest == morsel.rows \ out IN
  /\ cursor' = [cursor EXCEPT ![c] =
       [pc   |-> "open",
        item |-> IF rest = {} THEN Nothing ELSE Morsel(rest, morsel.bytes),
        got  |-> cursor[c].got \union out]]
  /\ budget' = [budget EXCEPT ![c] = Release(@, morsel.bytes)]

Deliver_again(c, morsel, out) ==
  LET rest == IF out = morsel.rows THEN {} ELSE morsel.rows IN
  /\ cursor' = [cursor EXCEPT ![c] =
       [pc   |-> "open",
        item |-> IF rest = {} THEN Nothing ELSE Morsel(rest, morsel.bytes),
        got  |-> cursor[c].got \union out]]
  /\ budget' = IF rest = {} THEN [budget EXCEPT ![c] = Release(@, morsel.bytes)] ELSE budget

\* What next() makes of a morsel: some of its rows or all of them, and with
\* the last ones its bytes are released.
Deliver(c, morsel, out) ==
  LET rest == morsel.rows \ out IN
  /\ cursor' = [cursor EXCEPT ![c] =
       [pc   |-> "open",
        item |-> IF rest = {} THEN Nothing ELSE Morsel(rest, morsel.bytes),
        got  |-> cursor[c].got \union out]]
  /\ budget' = IF rest = {} THEN [budget EXCEPT ![c] = Release(@, morsel.bytes)] ELSE budget

Receive(c) ==
  /\ cursor[c].pc = "open" /\ cursor[c].item = Nothing /\ channel[c] # <<>>
  /\ LET morsel == Head(channel[c]) IN
     \E out \in {morsel.rows} \union {{r} : r \in morsel.rows} : Deliver(c, morsel, out)
  /\ channel' = [channel EXCEPT ![c] = Tail(@)]
  /\ UNCHANGED <<folds, excluded, skipped, whole, stop, scan, scanning>>

Resume(c) ==
  /\ cursor[c].pc = "open" /\ cursor[c].item # Nothing
  /\ \E r \in cursor[c].item.rows : Deliver(c, cursor[c].item, {r})
  /\ UNCHANGED <<folds, excluded, skipped, whole, channel, stop, scan, scanning>>

\* The channel is drained and closed, and the producer's future is ready.
End(c) ==
  /\ cursor[c].pc = "open" /\ cursor[c].item = Nothing /\ channel[c] = <<>>
  /\ scan = "over"
  /\ cursor' = [cursor EXCEPT ![c].pc = "ended"]
  /\ UNCHANGED <<folds, excluded, skipped, whole, budget, channel, stop, scan, scanning>>

Narrow_candidates(c) ==
  /\ c = Alone /\ folds = <<Alone>> /\ cursor[c].pc = "open"
  /\ \E X \in SUBSET {u \in DOMAIN Units : (UNION Range(Units[u])) \intersect Kept # {}} :
       X \ excluded # {} /\ excluded' = excluded \union X
  /\ UNCHANGED <<folds, skipped, whole, budget, channel, stop, cursor, scan, scanning>>

\* The chunks of one file after the other, call after call.  A chunk may be
\* ruled out if the pruner has proved that it has no row that is left; a chunk
\* that it cannot judge stays.
Narrow(c) ==
  /\ c = Alone /\ folds = <<Alone>> /\ cursor[c].pc = "open"
  /\ \E X \in SUBSET {u \in DOMAIN Units : (UNION Range(Units[u])) \intersect Kept = {}} :
       X \ excluded # {} /\ excluded' = excluded \union X
  /\ UNCHANGED <<folds, skipped, whole, budget, channel, stop, cursor, scan, scanning>>

\* ~StreamViewCursor: the flag, and then permits for whoever is parked.
Abandon(c) ==
  /\ cursor[c].pc = "open"
  /\ stop' = [stop EXCEPT ![c] = TRUE]
  /\ cursor' = [cursor EXCEPT ![c].pc = "leaving"]
  /\ UNCHANGED <<folds, excluded, skipped, whole, budget, channel, scan, scanning>>

Unpark_nobody(c) ==
  /\ cursor[c].pc = "leaving"
  /\ cursor' = [cursor EXCEPT ![c].pc = "gone"]
  /\ UNCHANGED <<folds, excluded, skipped, whole, budget, channel, stop, scan, scanning>>

Unpark(c) ==
  /\ cursor[c].pc = "leaving"
  /\ budget' = [budget EXCEPT ![c] = Release(@, Plenty)]
  /\ cursor' = [cursor EXCEPT ![c].pc = "gone"]
  /\ UNCHANGED <<folds, excluded, skipped, whole, channel, stop, scan, scanning>>

Draining(c) == Receive(c) \/ Resume(c) \/ End(c) \/ Unpark(c)

Cursor(c) == Draining(c) \/ Narrow(c) \/ Abandon(c)

Next ==
  \/ \E w \in Workers : Worker(w)
  \/ Join \/ SendFrame
  \/ \E c \in Active : Cursor(c)

Spec == Init /\ [][Next]_vars

\* The executor runs every worker, and whoever has a cursor drains it (the
\* contract of Source::open_batch) or lets it go.
Fairness ==
  /\ \A w \in Workers : WF_vars(Worker(w))
  /\ WF_vars(Join \/ SendFrame)
  /\ \A c \in Cursors : WF_vars(c \in Active /\ Draining(c))

FairSpec == Spec /\ Fairness

-----------------------------------------------------------------------------
(* Properties *)

Open(c) == cursor[c].pc = "open"

\* A cursor that ends without an exception gave every row that it was asked
\* for, or every one left after the scan was narrowed.
EndedHasAllRows ==
  \A c \in Active : cursor[c].pc = "ended" =>
    {r \in Rows \intersect Selected[c] : excluded = {} \/ r \in Kept} \subseteq cursor[c].got

\* ... which holds as long as no worker failed.
CleanScanHasAllRows ==
  (\A w \in Workers : worker[w].pc # "failed") => EndedHasAllRows

\* No row is given twice: what the cursor gave, what it is slicing and what
\* is on its way to it are different rows.
RowsArriveOnce ==
  \A c \in Active :
    LET morsels == channel[c] \o <<cursor[c].item>> IN
    /\ \A i \in DOMAIN morsels : morsels[i].rows \intersect cursor[c].got = {}
    /\ \A i, j \in DOMAIN morsels :
         i # j => morsels[i].rows \intersect morsels[j].rows = {}

Granted(c) == {w \in Workers : /\ worker[w].pc = "send" /\ Consumer(w) = c
                               /\ ~Waits(budget[c], w)}

\* The memory budget of a cursor is its free permits and the morsels that
\* hold the others: none leaks, none is returned twice, and so its buffer
\* stays within the budget however many workers fill it.
BudgetIsExact ==
  \A c \in Active : Open(c) =>
    budget[c].available + cursor[c].item.bytes
      + SumFunction([i \in DOMAIN channel[c] |-> channel[c][i].bytes])
      + SumFunction([w \in Granted(c) |-> Cardinality(Chosen(w))]) = MemoryBudget

\* The scan claims to have read the whole file only if every batch of it went
\* through every fold.
WholeIsRead ==
  whole => \A u \in DOMAIN Units : \A b \in DOMAIN Units[u] : <<u, b>> \in read

\* The scan ends, whoever lets go of a cursor at whatever moment, and every
\* cursor that is kept comes to its end.
ScanReturns ==
  /\ <>(scan = "over")
  /\ \A c \in Cursors : <>(c \in Active => cursor[c].pc \in {"ended", "gone"})
=============================================================================
