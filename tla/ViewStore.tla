------------------------------ MODULE ViewStore ------------------------------
(***************************************************************************)
(* Materialized row views: run_materialize                                 *)
(* (src/dftracer/utils/trace/views/view_executor.cpp) filters a trace into *)
(* part files (view_export_index.cpp) in a directory of its own, and a     *)
(* read is redirected to the smallest directory whose manifest proves that *)
(* it holds the answer (mv_store.cpp).  Builders and readers share nothing *)
(* but the file system: the directories, an advisory lock in each, and the *)
(* trace, which somebody may append to.                                    *)
(*                                                                         *)
(* The trace is a sequence of chunks, its version their number: size and   *)
(* modification time identify it.  Bytes are counted in rows.              *)
(*                                                                         *)
(* Whatever scans does so in coroutines whose futures nobody reads          *)
(* (SpawnFuture): an exception in gather_units, in a producer or in the     *)
(* consumer of a build, or in the scan of a read ends that coroutine and    *)
(* the rest goes on as if it had returned.                                  *)
(***************************************************************************)
EXTENDS Integers, Sequences, FiniteSetsExt

CONSTANTS
  Builders, Readers,
  Plan,       \* the predicate each builder materializes
  Questions,  \* the predicates each reader may ask
  Chunks,     \* BOUND: the rows of every chunk the trace can come to have
  Matching,   \* the rows a predicate matches
  Subsumed,   \* the questions query_subsumes proves a plan to answer
  First,      \* the chunks it has at the start
  PartSize,   \* a part is closed when it holds that many rows
  Slots,      \* BOUND: of the channel, 2 * num_producers + 1 in the code
  Faults,     \* what may go wrong: see FaultKinds
  MaxFaults,  \* BOUND: how much goes wrong, appends aside
  NoOne, NoDir

\* A process dies; a file cannot be written; a scan fails or is cancelled; the
\* consumer of a build throws; the trace grows during a build.
FaultKinds == {"crash", "write", "read", "throw", "append"}

ASSUME ChunksAssumption ==
  /\ Len(Chunks) \in Nat /\ First \in 1..Len(Chunks)
  /\ NoOne \notin Builders
  /\ NoDir \notin {Plan[b] : b \in Builders} \X (First..Len(Chunks))
  /\ PartSize \in Nat \ {0} /\ Slots \in Nat \ {0} /\ MaxFaults \in Nat
  /\ Faults \subseteq FaultKinds

Plans    == {Plan[b] : b \in Builders}
Versions == First..Len(Chunks)
Rows     == UNION {Chunks[u] : u \in 1..Len(Chunks)}

\* view_slug: a directory per predicate and identity of the trace.
Dirs == Plans \X Versions

NoManifest == 0
Torn       == -1

\* What a predicate selects of a chunk.
Selected(q, u) == Chunks[u] \intersect Matching[q]

VARIABLES
  base,      \* the version of the trace
  dirs,      \* the directories there are
  manifest,  \* of each: NoManifest, Torn, or the version it was registered for
  parts,     \* of each: a sequence of sets of chunks, their selected rows
  holder,    \* of each: who holds its .lock
  faults,
  holes,     \* history, of each: the chunks its build lost on the way
  bpc, dir, todo, chan, part,  \* builders
  consumer,  \*   where the consumer of each is: "reads", "failed", "threw"
  omitted,   \*   history: the chunks that the build under way has lost
  rpc, ask, seen, left, at, best, got, until,  \* readers
  missed     \*   history: the chunks that the read has lost

store   == <<dirs, manifest, parts, holder, holes>>
builder == <<bpc, dir, todo, chan, part, consumer, omitted>>
reader  == <<rpc, ask, seen, left, at, best, got, until, missed>>
vars    == <<base, store, faults, builder, reader>>

Init ==
  /\ base = First
  /\ dirs = {} /\ faults = 0
  /\ manifest = [d \in Dirs |-> NoManifest]
  /\ parts = [d \in Dirs |-> <<>>]
  /\ holder = [d \in Dirs |-> NoOne] /\ holes = [d \in Dirs |-> {}]
  /\ bpc = [b \in Builders |-> "fresh"]
  /\ dir = [b \in Builders |-> NoDir]
  /\ todo = [b \in Builders |-> {}] /\ chan = [b \in Builders |-> {}]
  /\ part = [b \in Builders |-> 0]
  /\ consumer = [b \in Builders |-> "reads"]
  /\ omitted = [b \in Builders |-> {}]
  /\ rpc = [r \in Readers |-> "plan"]
  /\ ask \in {q \in [Readers -> UNION {Questions[r] : r \in Readers}] :
              \A r \in Readers : q[r] \in Questions[r]}
  /\ seen = [r \in Readers |-> 0] /\ until = [r \in Readers |-> 0]
  /\ left = [r \in Readers |-> {}]
  /\ at = [r \in Readers |-> NoDir]
  /\ best = [r \in Readers |-> [dir |-> NoDir, files |-> 0, bytes |-> 0]]
  /\ got = [r \in Readers |-> {}] /\ missed = [r \in Readers |-> {}]

-----------------------------------------------------------------------------
(* Builders: run_materialize *)

GoB(b, from, to) == bpc[b] = from /\ bpc' = [bpc EXCEPT ![b] = to]

\* A manifest file and a part, whatever they hold.
view_is_fresh(p) == LET d == <<p, base>> IN manifest[d] # NoManifest /\ parts[d] # <<>>

AlreadyBuilt(b) ==
  /\ view_is_fresh(Plan[b])
  /\ GoB(b, "fresh", "done")
  /\ UNCHANGED <<base, store, faults, dir, todo, chan, part,
                 consumer, omitted, reader>>

NotFresh(b) ==
  /\ ~view_is_fresh(Plan[b])
  /\ GoB(b, "fresh", "mkdir")
  /\ UNCHANGED <<base, store, faults, dir, todo, chan, part,
                 consumer, omitted, reader>>

\* The slug is taken again, of the trace as it is now.
materialize_view_dir(b) ==
  /\ GoB(b, "mkdir", "lock")
  /\ dir' = [dir EXCEPT ![b] = <<Plan[b], base>>]
  /\ dirs' = dirs \union {<<Plan[b], base>>}
  /\ UNCHANGED <<base, manifest, parts, holder, holes, faults, todo, chan, part,
                 consumer, omitted, reader>>

\* Mutant: the lock of another builder is not noticed.
lock_view_dir_blind(b) ==
  /\ dir[b] \in dirs
  /\ GoB(b, "lock", "recheck")
  /\ holder' = [holder EXCEPT ![dir[b]] = b]
  /\ UNCHANGED <<base, dirs, manifest, parts, holes, faults, dir, todo, chan, part,
                 consumer, omitted, reader>>

lock_view_dir(b) ==
  /\ dir[b] \in dirs /\ holder[dir[b]] = NoOne
  /\ GoB(b, "lock", "recheck")
  /\ holder' = [holder EXCEPT ![dir[b]] = b]
  /\ UNCHANGED <<base, dirs, manifest, parts, holes, faults, dir, todo, chan, part,
                 consumer, omitted, reader>>

\* Another builder holds it, or the directory has been removed.
LockFails(b) ==
  /\ ~(dir[b] \in dirs /\ holder[dir[b]] = NoOne)
  /\ GoB(b, "lock", "done")
  /\ dir' = [dir EXCEPT ![b] = NoDir]
  /\ UNCHANGED <<base, store, faults, todo, chan, part,
                 consumer, omitted, reader>>

Unlocked(b) == [d \in Dirs |-> IF holder[d] = b THEN NoOne ELSE holder[d]]

\* Mutant: the winner's view is built again.
Recheck_never(b) ==
  /\ GoB(b, "recheck", "gather")
  /\ UNCHANGED <<base, store, faults, dir, todo, chan, part,
                 consumer, omitted, reader>>

Recheck(b) ==
  /\ GoB(b, "recheck", IF view_is_fresh(Plan[b]) THEN "unlock" ELSE "gather")
  /\ UNCHANGED <<base, store, faults, dir, todo, chan, part,
                 consumer, omitted, reader>>

\* Opening a part truncates the file of that name, and leaves those after it.
Opened(files, i) == IF i <= Len(files) THEN [files EXCEPT ![i] = {}]
                    ELSE Append(files, {})

\* gather_units, and the consumer opens its first part.
StartBuild(b, units) ==
  /\ GoB(b, "gather", "build")
  /\ todo' = [todo EXCEPT ![b] = units]
  /\ chan' = [chan EXCEPT ![b] = {}]
  /\ part' = [part EXCEPT ![b] = 1]
  /\ consumer' = [consumer EXCEPT ![b] = IF dir[b] \in dirs THEN "reads" ELSE "failed"]
  /\ omitted' = [omitted EXCEPT ![b] = (1..base) \ units]
  /\ parts' = IF dir[b] \in dirs THEN [parts EXCEPT ![dir[b]] = Opened(@, 1)] ELSE parts
  /\ UNCHANGED <<base, dirs, manifest, holder, holes, dir, reader>>

Gather(b) == StartBuild(b, 1..base) /\ UNCHANGED faults

Fails(kind) ==
  /\ kind \in Faults /\ faults < MaxFaults
  /\ faults' = faults + 1

\* The metadata of a trace file cannot be read, its planner fails, or the plan
\* is cancelled: its chunks are not in the list.  Which chunks share a file is
\* left open.
GatherFails(b) ==
  /\ Fails("read")
  /\ \E units \in SUBSET (1..base) : units # 1..base /\ StartBuild(b, units)

\* A producer scans a chunk and sends its matches, if it has some, in a batch:
\* it waits for a slot of the channel, whether the consumer still reads or not.
Produce(b, u) ==
  LET empty == Selected(Plan[b], u) = {} IN
  /\ bpc[b] = "build" /\ u \in todo[b]
  /\ empty \/ Cardinality(chan[b]) < Slots
  /\ todo' = [todo EXCEPT ![b] = @ \ {u}]
  /\ chan' = [chan EXCEPT ![b] = IF empty THEN @ ELSE @ \union {u}]
  /\ UNCHANGED <<base, store, faults, bpc, dir, part, consumer, omitted, reader>>

\* A scan throws and ends its producer, or all of them find the plan cancelled:
\* the chunks they have left are not scanned.
ScanFails(b) ==
  /\ Fails("read")
  /\ bpc[b] = "build"
  /\ \E us \in SUBSET todo[b] :
       /\ us # {}
       /\ todo' = [todo EXCEPT ![b] = @ \ us]
       /\ omitted' = [omitted EXCEPT ![b] = @ \union us]
  /\ UNCHANGED <<base, store, bpc, dir, chan, part, consumer, reader>>

Bytes(p, us) == MapThenSumSet(LAMBDA u : Cardinality(Selected(p, u)), us)

\* The consumer takes a batch (in the order of arrival, which is any), writes
\* it to the open part, and opens the next part when this one is full.  A part
\* of a directory that has been removed is written to no effect, and opening
\* another there fails.
Consume(b, u) ==
  LET d == dir[b]
      written == [parts[d] EXCEPT ![part[b]] = @ \union {u}]
      full == Bytes(Plan[b], written[part[b]]) >= PartSize
  IN
  /\ bpc[b] = "build" /\ consumer[b] = "reads" /\ u \in chan[b]
  /\ chan' = [chan EXCEPT ![b] = @ \ {u}]
  /\ IF d \in dirs
     THEN /\ parts' = [parts EXCEPT ![d] = IF full THEN Opened(written, part[b] + 1) ELSE written]
          /\ part' = [part EXCEPT ![b] = IF full THEN @ + 1 ELSE @]
          /\ UNCHANGED consumer
     ELSE /\ consumer' \in {consumer, [consumer EXCEPT ![b] = "failed"]}
          /\ UNCHANGED <<parts, part>>
  /\ UNCHANGED <<base, dirs, manifest, holder, holes, faults, bpc, dir, todo, omitted, reader>>

\* A write fails, of a batch or when a part is closed: the consumer returns with
\* ok = false, the producers go on.
WriteFails(b) ==
  /\ Fails("write")
  /\ bpc[b] = "build" /\ consumer[b] = "reads"
  /\ consumer' = [consumer EXCEPT ![b] = "failed"]
  /\ UNCHANGED <<base, store, bpc, dir, todo, chan, part, omitted, reader>>

\* The consumer throws, over a batch or over the end of the last part, and leaves
\* ok = true.  What it had in the part that is open may be lost with it.
ConsumerThrows(b, us) ==
  LET d == dir[b]
      open == IF d \in dirs THEN parts[d][part[b]] ELSE {}
  IN
  /\ Fails("throw")
  /\ bpc[b] = "build" /\ consumer[b] = "reads"
  /\ consumer' = [consumer EXCEPT ![b] = "threw"]
  /\ chan' = [chan EXCEPT ![b] = @ \ us]
  /\ omitted' = [omitted EXCEPT ![b] = @ \union us \union open]
  /\ \/ UNCHANGED parts
     \/ d \in dirs /\ parts' = [parts EXCEPT ![d][part[b]] = {}]
  /\ UNCHANGED <<base, dirs, manifest, holder, holes, bpc, dir, todo, part, reader>>

\* The locals of the scope end with it.
Forget(b) ==
  /\ todo' = [todo EXCEPT ![b] = {}] /\ chan' = [chan EXCEPT ![b] = {}]
  /\ part' = [part EXCEPT ![b] = 0] /\ consumer' = [consumer EXCEPT ![b] = "reads"]

\* `ok' and a closed part are all that is asked of the consumer.
Succeeded(b) == consumer[b] = "reads" \/ (consumer[b] = "threw" /\ part[b] > 1)

\* Mutant: the consumer's failure does not end the wait.
Join_drained(b) ==
  /\ todo[b] = {} /\ chan[b] = {}
  /\ GoB(b, "build", IF Succeeded(b) THEN "register" ELSE "unlock")
  /\ Forget(b)
  /\ UNCHANGED <<base, store, faults, dir, omitted, reader>>

\* The scope joins all of them, and a failure throws.  What is in the channel
\* of a consumer that has stopped goes with it.
Join(b) ==
  /\ todo[b] = {} /\ (consumer[b] = "reads" => chan[b] = {})
  /\ GoB(b, "build", IF Succeeded(b) THEN "register" ELSE "unlock")
  /\ Forget(b)
  /\ omitted' = [omitted EXCEPT ![b] = @ \union chan[b]]
  /\ UNCHANGED <<base, store, faults, dir, reader>>

\* register_view truncates the manifest, and writes it, with the identity the
\* trace has now.
register_view(b) ==
  /\ GoB(b, "register", "write")
  /\ manifest' = IF dir[b] \in dirs THEN [manifest EXCEPT ![dir[b]] = Torn] ELSE manifest
  /\ UNCHANGED <<base, dirs, parts, holder, holes, faults, dir, todo, chan, part,
                 consumer, omitted, reader>>

WriteManifest(b) ==
  /\ GoB(b, "write", "unlock")
  /\ IF dir[b] \in dirs
     THEN /\ manifest' = [manifest EXCEPT ![dir[b]] = base]
          /\ holes' = [holes EXCEPT ![dir[b]] = omitted[b]]
     ELSE UNCHANGED <<manifest, holes>>
  /\ UNCHANGED <<base, dirs, parts, holder, faults, dir, todo, chan, part,
                 consumer, omitted, reader>>

\* ~ViewDirLock
unlock_view_dir(b) ==
  /\ GoB(b, "unlock", "done")
  /\ holder' = Unlocked(b)
  /\ dir' = [dir EXCEPT ![b] = NoDir] /\ omitted' = [omitted EXCEPT ![b] = {}]
  /\ UNCHANGED <<base, dirs, manifest, parts, holes, faults, todo, chan, part,
                 consumer, reader>>

Building(b) == bpc[b] \in {"build", "register", "write"}

\* The process dies, its lock with it, and is started again.
Crash(b) ==
  /\ Fails("crash")
  /\ bpc[b] \in {"lock", "recheck", "gather", "unlock"} \/ Building(b)
  /\ bpc' = [bpc EXCEPT ![b] = "fresh"]
  /\ holder' = Unlocked(b)
  /\ Forget(b)
  /\ dir' = [dir EXCEPT ![b] = NoDir] /\ omitted' = [omitted EXCEPT ![b] = {}]
  /\ UNCHANGED <<base, dirs, manifest, parts, holes, reader>>

\* Somebody appends a chunk to the trace; unless "append" says otherwise, not
\* while a builder has chosen its directory and not left it.
AppendChunk ==
  /\ base < Len(Chunks)
  /\ "append" \in Faults \/ \A b \in Builders : dir[b] = NoDir
  /\ base' = base + 1
  /\ UNCHANGED <<store, faults, builder, reader>>

-----------------------------------------------------------------------------
(* Readers: redirect_reads and the scan of what it chose *)

GoR(r, from, to) == rpc[r] = from /\ rpc' = [rpc EXCEPT ![r] = to]

\* find_subsuming_view: the identity of the trace and its size.
PlanBases(r) ==
  /\ GoR(r, "plan", "visit")
  /\ seen' = [seen EXCEPT ![r] = base]
  /\ left' = [left EXCEPT ![r] = dirs]
  /\ best' = [best EXCEPT ![r].bytes =
                MapThenSumSet(LAMBDA u : Cardinality(Chunks[u]), 1..base)]
  /\ UNCHANGED <<base, store, faults, builder, ask, at, got, until, missed>>

manifest_is_stale(d) == manifest[d] # base
manifest_matches(d, r) == manifest[d] = seen[r] /\ ask[r] \in Subsumed[d[1]]

\* Directories come in any order.  One without a manifest that can be read is
\* passed over; a stale one is removed, lock and all.
Visit(r, d) ==
  /\ d \in left[r]
  /\ left' = [left EXCEPT ![r] = @ \ {d}]
  /\ LET readable == d \in dirs /\ manifest[d] \in Versions
         stale == readable /\ manifest_is_stale(d)
         match == readable /\ ~stale /\ manifest_matches(d, r)
     IN /\ GoR(r, "visit", IF match THEN "size" ELSE "visit")
        /\ at' = [at EXCEPT ![r] = IF match THEN d ELSE @]
        /\ dirs' = IF stale THEN dirs \ {d} ELSE dirs
        /\ manifest' = IF stale THEN [manifest EXCEPT ![d] = NoManifest] ELSE manifest
        /\ parts' = IF stale THEN [parts EXCEPT ![d] = <<>>] ELSE parts
        /\ holder' = IF stale THEN [holder EXCEPT ![d] = NoOne] ELSE holder
        /\ holes' = IF stale THEN [holes EXCEPT ![d] = {}] ELSE holes
  /\ UNCHANGED <<base, faults, builder, ask, seen, best, got, until, missed>>

\* gather_view_files and total_size: the smallest so far.
Size(r) ==
  LET d == at[r]
      bytes == MapThenSumSet(LAMBDA i : Bytes(d[1], parts[d][i]), 1..Len(parts[d]))
  IN
  /\ GoR(r, "size", "visit")
  /\ best' = IF parts[d] # <<>> /\ bytes < best[r].bytes
             THEN [best EXCEPT ![r] = [dir |-> d, files |-> Len(parts[d]), bytes |-> bytes]]
             ELSE best
  /\ at' = [at EXCEPT ![r] = NoDir]
  /\ UNCHANGED <<base, store, faults, builder, ask, seen, left, got, until, missed>>

\* What the scan finds: the chunks the trace has now, or those in the parts of
\* the chosen view, as far as they are still there.
Found(r) ==
  LET d == best[r].dir IN
  IF d = NoDir THEN {0} \X (1..base)
  ELSE {p \in (1..Len(parts[d])) \X (1..base) :
          p[1] <= best[r].files /\ p[2] \in parts[d][p[1]]}

\* What the chosen view does not hold: what its build has lost, or everything
\* when it has been removed since.
Lacking(r) ==
  LET d == best[r].dir IN
  IF d = NoDir THEN {}
  ELSE IF best[r].files <= Len(parts[d]) THEN holes[d] ELSE 1..Len(Chunks)

ScanBut(r, us) ==
  /\ left[r] = {}
  /\ GoR(r, "visit", "done")
  /\ got' = [got EXCEPT ![r] = {p \in Found(r) : p[2] \notin us}]
  /\ missed' = [missed EXCEPT ![r] = Lacking(r) \union us]
  /\ until' = [until EXCEPT ![r] = base]
  /\ UNCHANGED <<base, store, builder, ask, seen, left, at, best>>

\* A part that is gone makes its coroutine throw, which nobody notices.
Scan(r) == ScanBut(r, {}) /\ UNCHANGED faults

\* So does a part or a chunk that cannot be read.
ReadFails(r) ==
  /\ Fails("read")
  /\ \E us \in SUBSET (1..base) : us # {} /\ ScanBut(r, us)

-----------------------------------------------------------------------------
\* The consumer has stopped and the channel is full: the producers wait for a
\* slot for ever, and with them the scope and the lock.
Parked(b) ==
  /\ bpc[b] = "build" /\ consumer[b] # "reads" /\ todo[b] # {}
  /\ Cardinality(chan[b]) >= Slots /\ \A u \in todo[b] : Selected(Plan[b], u) # {}

Terminating ==
  /\ \A b \in Builders : bpc[b] = "done" \/ Parked(b)
  /\ \A r \in Readers : rpc[r] = "done"
  /\ UNCHANGED vars

BuilderStep(b) ==
  \/ AlreadyBuilt(b) \/ NotFresh(b) \/ materialize_view_dir(b)
  \/ lock_view_dir(b) \/ LockFails(b) \/ Recheck(b) \/ Gather(b)
  \/ \E u \in todo[b] : Produce(b, u)
  \/ \E u \in chan[b] : Consume(b, u)
  \/ Join(b) \/ register_view(b) \/ WriteManifest(b) \/ unlock_view_dir(b)

ReaderStep(r) ==
  \/ PlanBases(r) \/ (\E d \in left[r] : Visit(r, d)) \/ Size(r) \/ Scan(r)

BuilderFault(b) ==
  \/ GatherFails(b) \/ ScanFails(b) \/ WriteFails(b) \/ Crash(b)
  \/ \E us \in SUBSET chan[b] : Cardinality(us) <= 1 /\ ConsumerThrows(b, us)

Fault ==
  \/ AppendChunk
  \/ \E b \in Builders : BuilderFault(b)
  \/ \E r \in Readers : ReadFails(r)

Next ==
  \/ \E b \in Builders : BuilderStep(b)
  \/ \E r \in Readers : ReaderStep(r)
  \/ Fault \/ Terminating

Spec == Init /\ [][Next]_vars

\* Every coroutine is scheduled; the faults need not happen.
Fairness ==
  /\ \A b \in Builders : WF_vars(BuilderStep(b))
  /\ \A r \in Readers : WF_vars(ReaderStep(r))

FairSpec == Spec /\ Fairness

-----------------------------------------------------------------------------
(* Properties *)

\* How often the reader got a row: the scan of a view's part applies the
\* query to what the view selected.
Returned(r, e) ==
  Cardinality({p \in got[r] : /\ e \in Chunks[p[2]]
                              /\ best[r].dir # NoDir => e \in Matching[best[r].dir[1]]
                              /\ e \in Matching[ask[r]]})

\* Whatever builders, evictions, crashes and appends happen around it, and
\* whichever view redirect_reads chose, a read returns each matching row of
\* one state of the trace, during the read, and no other: each once, as long
\* as nothing went wrong.  Rows are missing only of chunks whose scan failed,
\* in the read or in the build of the view it chose, and when that view was
\* removed before its parts were opened.  All of these go unreported, where
\* view_scan.cpp:128-129 means to "Fail loudly: dropping the file would silently
\* omit its events from the result".
AnswerIsRight ==
  \A r \in Readers : rpc[r] = "done" =>
    \E v \in seen[r]..until[r] : \A e \in Rows :
      IF e \in Matching[ask[r]] /\ e \in UNION {Chunks[u] : u \in 1..v}
      THEN /\ Returned(r, e) = 0 => e \in UNION {Chunks[u] : u \in missed[r]}
           /\ faults = 0 => Returned(r, e) <= 1
      ELSE Returned(r, e) = 0

\* Single-flight: two builders never write in one directory, also after it has
\* been removed, lock file included, under the first of them.
OneBuilder ==
  \A b, c \in Builders :
    b # c /\ Building(b) /\ Building(c) /\ dir[b] = dir[c] => dir[b] \notin dirs

\* How many of the first n parts of a view hold a chunk's rows.
Copies(d, n, u) == Cardinality({i \in 1..n : u \in parts[d][i]})

\* No scan has failed and no consumer has thrown.
NothingLost == faults = 0 \/ Faults \intersect {"read", "throw"} = {}

\* A manifest for the trace as it is now, in a directory nobody writes in,
\* means that the first parts, those of the last build, hold each selected
\* row of the trace once, but for the chunks that the build lost to a failed or
\* cancelled scan or to a consumer that threw, which run_materialize does not
\* notice (view_scan.cpp:151: "A planner error must propagate").  Neither a
\* crash, a failed write, an eviction nor a second builder leaves a view that
\* readers trust and that misses rows.  Nothing follows those parts, as long as
\* nothing went wrong.
RegisteredIsWhole ==
  \A d \in dirs :
    manifest[d] = base /\ (\A b \in Builders : Building(b) => dir[b] # d) =>
      /\ NothingLost => holes[d] = {}
      /\ \E n \in 1..Len(parts[d]) :
           /\ \A u \in (1..base) \ holes[d] : Selected(d[1], u) # {} => Copies(d, n, u) = 1
           /\ faults = 0 => n = Len(parts[d])

\* Every materialize and every read returns, whatever fails in between, but for
\* a build whose consumer has stopped while there is more to send than the
\* channel takes.
EverybodyReturns ==
  <>(/\ \A b \in Builders : bpc[b] = "done" \/ Parked(b)
     /\ \A r \in Readers : rpc[r] = "done")
=============================================================================
