------------------------------ MODULE Executor ------------------------------
(***************************************************************************)
(* The thread pool and its run permits                                     *)
(* (core/pipeline/thread_pool_executor.cpp, Runtime::run_blocking).        *)
(*                                                                         *)
(* A worker runs jobs only with a permit; there are NumThreads.  One that  *)
(* waits synchronously for another job keeps its permit for a while; then  *)
(* the sysmon thread hands it to somebody else, and starts a worker when   *)
(* there is nobody.  An elastic pool has a monitor that adds and retires   *)
(* workers.                                                                *)
(***************************************************************************)
EXTENDS Integers, Sequences, FiniteSets, SequencesExt

CONSTANTS
  Workers,     \* slots for WorkerContexts; a slot is used again
  NumThreads,  \* num_threads_, the cap
  MinWorkers,  \* min_workers_; below the cap the pool is elastic
  MaxLive,     \* max_live_
  Jobs,        \* the coroutines that are enqueued
  Inner,       \* the jobs that each job run_blocking()s, in order
  Peeks,       \* how often get_progress() is called
  Stops,       \* when shutdown() is called: "never", "idle" or "any"
  NoJob, NoWorker

ASSUME ExecutorAssumption ==
  /\ IsFiniteSet(Workers) /\ NoWorker \notin Workers /\ NoJob \notin Jobs
  /\ NumThreads \in Nat \ {0} /\ MinWorkers \in 1 .. NumThreads
  /\ MaxLive \in Nat /\ NumThreads <= MaxLive
  /\ MaxLive + (IF MinWorkers < NumThreads THEN 1 ELSE 0) <= Cardinality(Workers)
  /\ Inner \in [Jobs -> Seq(Jobs)]
  /\ Peeks \in Nat /\ Stops \in {"never", "idle", "any"}

VARIABLES
  queue,    \* run_queue_
  done,     \* the jobs whose futures are ready
  at,       \* how many run_blocking() each job has begun
  live,     \* workers_ (live_workers_ is its length)
  pc, job,  \* of each worker, and the job it runs
  holds,    \* holds_permit
  blk,      \* blk_state
  retire,   \* retire
  permits,  \* permits_
  blocked,  \* blocked_workers_; -1 is its wrapped maximum
  mutex,    \* who holds workers_mutex_
  peeks,    \* the calls of get_progress() to come
  sysmon, scan, handed,  \* the sysmon: pc, workers left to look at, handed
  monitor, quiet, victim, \* the monitor: pc, saw an idle pool, retire_worker()
  running,  \* running_
  boss      \* pc of who calls shutdown()

jobs     == <<queue, done, at>>
contexts == <<live, holds, blk, retire>>
sysmons  == <<sysmon, scan, handed>>
monitors == <<monitor, quiet, victim>>
control  == <<running, boss, peeks>>
vars == <<jobs, contexts, pc, job, permits, blocked, mutex, sysmons, monitors,
          control>>

Goto(w, l) == pc' = [pc EXCEPT ![w] = l]
Set(f, w, v) == [f EXCEPT ![w] = v]

\* permit_waiters_ and idle_workers_ count who is parked.
PermitWaiters == Cardinality({w \in Workers : pc[w] = "wait"})
IdleWorkers == Cardinality({w \in Workers : pc[w] = "parked"})

Roots == Jobs \ UNION {Range(Inner[j]) : j \in Jobs}
Started(j) == j \in queue \/ j \in done \/ \E w \in Workers : job[w] = j

\* start() with the floor of workers.
Init ==
  /\ queue = {} /\ done = {} /\ at = [j \in Jobs |-> 0]
  /\ live = CHOOSE s \in [1 .. MinWorkers -> Workers] : IsInjective(s)
  /\ pc = [w \in Workers |-> IF w \in Range(live) THEN "loop" ELSE "off"]
  /\ job = [w \in Workers |-> NoJob]
  /\ holds = [w \in Workers |-> FALSE] /\ retire = [w \in Workers |-> FALSE]
  /\ blk = [w \in Workers |-> "none"]
  /\ permits = NumThreads /\ blocked = 0
  /\ mutex = "free" /\ peeks = Peeks
  /\ sysmon = "check" /\ scan = <<>> /\ handed = 0
  /\ monitor = IF MinWorkers < NumThreads THEN "wait" ELSE "off"
  /\ quiet = FALSE /\ victim = NoWorker
  /\ running = TRUE /\ boss = "up"

-----------------------------------------------------------------------------
(* worker_thread() *)

\* The condition of its loop; a permit if it has none.
Loop(w) ==
  /\ pc[w] = "loop"
  /\ Goto(w, IF ~running \/ retire[w] THEN "leave"
             ELSE IF holds[w] THEN "fetch" ELSE "acquire")
  /\ UNCHANGED <<jobs, contexts, job, permits, blocked, mutex, sysmons,
                 monitors, control>>

\* acquire_permit(), of the loop or of exit_blocking(), which goes on without
\* one when the worker has to leave.
Acquire(w) ==
  /\ pc[w] = "acquire" /\ permits > 0
  /\ permits' = permits - 1
  /\ holds' = Set(holds, w, TRUE)
  /\ Goto(w, IF job[w] = NoJob THEN "fetch" ELSE "run")
  /\ UNCHANGED <<jobs, live, blk, retire, job, blocked, mutex, sysmons,
                 monitors, control>>

NoPermit(w) ==
  /\ pc[w] = "acquire" /\ permits <= 0
  /\ Goto(w, IF running /\ ~retire[w] THEN "wait"
             ELSE IF job[w] = NoJob THEN "leave" ELSE "run")
  /\ UNCHANGED <<jobs, contexts, job, permits, blocked, mutex, sysmons,
                 monitors, control>>

\* permits_.wait(0) returns only when the value is not 0.
PermitWake(w) ==
  /\ pc[w] = "wait" /\ permits # 0
  /\ Goto(w, "acquire")
  /\ UNCHANGED <<jobs, contexts, job, permits, blocked, mutex, sysmons,
                 monitors, control>>

\* Mutant: who is retired between the dequeue and the job strands the job.
Fetch_strand(w, j) ==
  /\ pc[w] = "fetch" /\ j \in queue
  /\ queue' = queue \ {j}
  /\ IF retire[w] THEN Goto(w, "leave") /\ UNCHANGED job
     ELSE Goto(w, "run") /\ job' = Set(job, w, j)
  /\ UNCHANGED <<done, at, contexts, permits, blocked, mutex, sysmons, monitors,
                 control>>

Fetch(w, j) ==
  /\ pc[w] = "fetch" /\ j \in queue
  /\ queue' = queue \ {j}
  /\ job' = Set(job, w, j)
  /\ Goto(w, "run")
  /\ UNCHANGED <<done, at, contexts, permits, blocked, mutex, sysmons, monitors,
                 control>>

\* No work: it gives its permit up and parks.
Release(w) ==
  /\ pc[w] = "fetch" /\ queue = {}
  /\ IF ~running \/ retire[w]
     THEN Goto(w, "leave") /\ UNCHANGED <<holds, permits>>
     ELSE /\ Goto(w, "parked")
          /\ holds' = Set(holds, w, FALSE) /\ permits' = permits + 1
  /\ UNCHANGED <<jobs, live, blk, retire, job, blocked, mutex, sysmons, monitors,
                 control>>

\* Somebody wakes it, or its timed wait ends.
Unpark(w) ==
  /\ pc[w] = "parked"
  /\ Goto(w, "loop")
  /\ UNCHANGED <<jobs, contexts, job, permits, blocked, mutex, sysmons,
                 monitors, control>>

Leave(w) ==
  /\ pc[w] = "leave"
  /\ permits' = IF holds[w] THEN permits + 1 ELSE permits
  /\ holds' = Set(holds, w, FALSE)
  /\ Goto(w, "off")
  /\ UNCHANGED <<jobs, live, blk, retire, job, blocked, mutex, sysmons,
                 monitors, control>>

-----------------------------------------------------------------------------
(* A job: run_blocking() of the inner jobs, one after the other *)

CanBlock(w) == at[job[w]] < Len(Inner[job[w]])
Awaited(w) == Inner[job[w]][at[job[w]]]

\* enter_blocking() marks the worker; without a permit it does nothing.
Enter(w) ==
  /\ pc[w] = "run" /\ CanBlock(w)
  /\ at' = [at EXCEPT ![job[w]] = @ + 1]
  /\ IF holds[w]
     THEN blk' = Set(blk, w, "syscall") /\ Goto(w, "count")
     ELSE UNCHANGED blk /\ Goto(w, "spawn")
  /\ UNCHANGED <<queue, done, live, holds, retire, job, permits, blocked, mutex,
                 sysmons, monitors, control>>

\* The first one to block wakes the sysmon.
Count(w) ==
  /\ pc[w] = "count"
  /\ blocked' = blocked + 1
  /\ sysmon' = IF blocked = 0 /\ sysmon = "parked" THEN "check" ELSE sysmon
  /\ Goto(w, "spawn")
  /\ UNCHANGED <<jobs, contexts, job, permits, mutex, scan, handed, monitors,
                 control>>

\* The inner job is enqueued, and the worker waits for its future.
Spawn(w) ==
  /\ pc[w] = "spawn"
  /\ queue' = queue \union {Awaited(w)}
  /\ Goto(w, "blocked")
  /\ UNCHANGED <<done, at, contexts, job, permits, blocked, mutex, sysmons,
                 monitors, control>>

\* Mutant: only who has kept its permit counts itself out.
Uncount_kept(w) ==
  /\ pc[w] = "blocked" /\ Awaited(w) \in done
  /\ blocked' = IF blk[w] = "syscall" THEN blocked - 1 ELSE blocked
  /\ Goto(w, "exit")
  /\ UNCHANGED <<jobs, contexts, job, permits, mutex, sysmons, monitors,
                 control>>

Uncount(w) ==
  /\ pc[w] = "blocked" /\ Awaited(w) \in done
  /\ blocked' = blocked - 1
  /\ Goto(w, "exit")
  /\ UNCHANGED <<jobs, contexts, job, permits, mutex, sysmons, monitors,
                 control>>

\* Mutant: whose permit was handed off goes on as if it had it.
Exit_keep(w) ==
  /\ pc[w] = "exit"
  /\ blk' = Set(blk, w, "none")
  /\ Goto(w, "run")
  /\ UNCHANGED <<jobs, live, holds, retire, job, permits, blocked, mutex,
                 sysmons, monitors, control>>

\* The CAS of exit_blocking(): it has kept its permit, or needs another one.
Exit(w) ==
  /\ pc[w] = "exit"
  /\ blk' = Set(blk, w, "none")
  /\ IF blk[w] = "syscall"
     THEN Goto(w, "run") /\ UNCHANGED holds
     ELSE Goto(w, "acquire") /\ holds' = Set(holds, w, FALSE)
  /\ UNCHANGED <<jobs, live, retire, job, permits, blocked, mutex, sysmons,
                 monitors, control>>

Finish(w) ==
  /\ pc[w] = "run" /\ ~CanBlock(w)
  /\ done' = done \union {job[w]}
  /\ job' = Set(job, w, NoJob)
  /\ Goto(w, "loop")
  /\ UNCHANGED <<queue, at, contexts, permits, blocked, mutex, sysmons, monitors,
                 control>>

-----------------------------------------------------------------------------
(* spawn_worker(), sysmon_loop() *)

\* A worker is added, below the limit, unless the pool is shutting down.  The
\* slots are alike: any free one will do.
SpawnWorker(limit) ==
  IF running /\ Len(live) < limit
  THEN LET w == CHOOSE x \in Workers : pc[x] = "off" /\ x # victim IN
         /\ Goto(w, "loop")
         /\ live' = Append(live, w)
         /\ retire' = Set(retire, w, FALSE)
         /\ UNCHANGED <<holds, blk>>
  ELSE UNCHANGED <<pc, contexts>>

\* It parks while nobody is blocked.
SysmonCheck ==
  /\ sysmon = "check"
  /\ sysmon' = IF ~running THEN "off" ELSE IF blocked = 0 THEN "parked" ELSE "lock"
  /\ UNCHANGED <<jobs, contexts, pc, job, permits, blocked, mutex, scan, handed,
                 monitors, control>>

\* It does not wait for workers_mutex_: it tries again after a while.
SysmonLock ==
  /\ sysmon = "lock"
  /\ IF mutex = "free"
     THEN mutex' = "sysmon" /\ scan' = live /\ sysmon' = "scan"
     ELSE sysmon' = "check" /\ UNCHANGED <<mutex, scan>>
  /\ handed' = 0
  /\ UNCHANGED <<jobs, contexts, pc, job, permits, blocked, monitors, control>>

\* A worker that is not blocked, or not for long enough.
SysmonSkip ==
  /\ sysmon = "scan" /\ scan # <<>>
  /\ scan' = Tail(scan)
  /\ UNCHANGED <<jobs, contexts, pc, job, permits, blocked, mutex, sysmon, handed,
                 monitors, control>>

\* Mutant: the sysmon reclaims the permit, and the CAS does not tell it that
\* the worker has just come back with it.
Handoff_blind(w) ==
  /\ sysmon = "scan" /\ scan # <<>> /\ w = Head(scan) /\ blk[w] = "syscall"
  /\ scan' = Tail(scan)
  /\ permits' = permits + 1
  /\ handed' = handed + 1
  /\ UNCHANGED <<jobs, contexts, pc, job, blocked, mutex, sysmon, monitors,
                 control>>

\* The permit of a worker that has blocked for long is given to somebody else.
Handoff(w) ==
  /\ sysmon = "scan" /\ scan # <<>> /\ w = Head(scan) /\ blk[w] = "syscall"
  /\ scan' = Tail(scan)
  /\ blk' = Set(blk, w, "handed")
  /\ permits' = permits + 1
  /\ handed' = handed + 1
  /\ UNCHANGED <<jobs, live, holds, retire, pc, job, blocked, mutex, sysmon,
                 monitors, control>>

SysmonUnlock ==
  /\ sysmon = "scan" /\ scan = <<>>
  /\ mutex' = "free"
  /\ sysmon' = "ensure"
  /\ UNCHANGED <<jobs, contexts, pc, job, permits, blocked, scan, handed,
                 monitors, control>>

\* ensure_running_worker(): somebody waits for the permit, or is parked and
\* wakes up, or a worker is added if workers_mutex_ happens to be free.
EnsureRunningWorker ==
  /\ sysmon = "ensure" /\ handed > 0
  /\ IF /\ PermitWaiters = 0 /\ IdleWorkers = 0
        /\ Len(live) < NumThreads + blocked
        /\ mutex = "free"
     THEN SpawnWorker(MaxLive) ELSE UNCHANGED <<pc, contexts>>
  /\ handed' = handed - 1
  /\ UNCHANGED <<jobs, job, permits, blocked, mutex, sysmon, scan, monitors,
                 control>>

\* It sleeps and begins again.
SysmonSleep ==
  /\ sysmon = "ensure" /\ handed = 0
  /\ sysmon' = "check"
  /\ UNCHANGED <<jobs, contexts, pc, job, permits, blocked, mutex, scan, handed,
                 monitors, control>>

Sysmon == SysmonCheck \/ SysmonLock \/ SysmonUnlock \/ EnsureRunningWorker
          \/ SysmonSleep \/ SysmonSkip \/ \E w \in Workers : Handoff(w)

-----------------------------------------------------------------------------
(* monitor_loop(), of an elastic pool *)

\* Woken by an enqueue or by its timer, it looks whether the pool is idle.
Observe ==
  /\ monitor = "wait"
  /\ monitor' = IF running THEN "grow" ELSE "off"
  /\ quiet' = (queue = {} /\ IdleWorkers = Len(live))
  /\ UNCHANGED <<jobs, contexts, pc, job, permits, blocked, mutex, sysmons,
                 victim, control>>

\* add_worker() while there is a backlog, also when nobody is added.
Grow ==
  /\ monitor = "grow"
  /\ IF queue # {} /\ Len(live) < NumThreads
     THEN mutex = "free" /\ SpawnWorker(NumThreads) /\ UNCHANGED monitor
     ELSE monitor' = "shrink" /\ UNCHANGED <<pc, contexts>>
  /\ UNCHANGED <<jobs, job, permits, blocked, mutex, sysmons, quiet, victim,
                 control>>

\* retire_worker(), when the pool has been idle for long enough.
Shrink ==
  /\ monitor = "shrink" /\ quiet /\ Len(live) > MinWorkers
  /\ mutex = "free"
  /\ victim' = Last(live) /\ live' = Front(live)
  /\ monitor' = "tell"
  /\ UNCHANGED <<jobs, holds, blk, retire, pc, job, permits, blocked, mutex,
                 sysmons, quiet, control>>

NoShrink ==
  /\ monitor = "shrink"
  /\ monitor' = "wait"
  /\ UNCHANGED <<jobs, contexts, pc, job, permits, blocked, mutex, sysmons, quiet,
                 victim, control>>

\* It is told to leave and joined.
Tell ==
  /\ monitor = "tell"
  /\ retire' = Set(retire, victim, TRUE)
  /\ monitor' = "join"
  /\ UNCHANGED <<jobs, live, holds, blk, pc, job, permits, blocked, mutex,
                 sysmons, quiet, victim, control>>

Join ==
  /\ monitor = "join" /\ pc[victim] = "off"
  /\ monitor' = "wait" /\ victim' = NoWorker
  /\ UNCHANGED <<jobs, contexts, pc, job, permits, blocked, mutex, sysmons, quiet,
                 control>>

Monitor == Observe \/ Grow \/ Shrink \/ NoShrink \/ Tell \/ Join

-----------------------------------------------------------------------------
(* The users of the pool *)

\* Runtime::submit() enqueues a job.
Submit(j) ==
  /\ j \in Roots /\ ~Started(j) /\ boss = "up"
  /\ queue' = queue \union {j}
  /\ UNCHANGED <<done, at, contexts, pc, job, permits, blocked, mutex, sysmons,
                 monitors, control>>

\* get_progress() looks at the workers.
Peek ==
  /\ peeks > 0 /\ mutex = "free"
  /\ peeks' = peeks - 1
  /\ mutex' = "observer"
  /\ UNCHANGED <<jobs, contexts, pc, job, permits, blocked, sysmons, monitors,
                 running, boss>>

Peeked ==
  /\ mutex = "observer"
  /\ mutex' = "free"
  /\ UNCHANGED <<jobs, contexts, pc, job, permits, blocked, sysmons, monitors,
                 control>>

\* shutdown() stops the loops, joins the monitor, wakes and joins the sysmon,
\* and joins the workers with workers_mutex_ held.
Shutdown ==
  /\ boss = "up"
  /\ Stops = "any" \/ (Stops = "idle" /\ Jobs = done)
  /\ running' = FALSE
  /\ boss' = "monitor"
  /\ UNCHANGED <<jobs, contexts, pc, job, permits, blocked, mutex, sysmons,
                 monitors, peeks>>

\* Mutant: the sysmon stays parked.
JoinMonitor_silent ==
  /\ boss = "monitor" /\ monitor = "off"
  /\ boss' = "sysmon"
  /\ UNCHANGED <<jobs, contexts, pc, job, permits, blocked, mutex, sysmons,
                 monitors, running, peeks>>

JoinMonitor ==
  /\ boss = "monitor" /\ monitor = "off"
  /\ sysmon' = IF sysmon = "parked" THEN "check" ELSE sysmon
  /\ boss' = "sysmon"
  /\ UNCHANGED <<jobs, contexts, pc, job, permits, blocked, mutex, scan, handed,
                 monitors, running, peeks>>

JoinSysmon ==
  /\ boss = "sysmon" /\ sysmon = "off" /\ mutex = "free"
  /\ mutex' = "boss"
  /\ boss' = "workers"
  /\ UNCHANGED <<jobs, contexts, pc, job, permits, blocked, sysmons, monitors,
                 running, peeks>>

JoinWorkers ==
  /\ boss = "workers" /\ \A w \in Range(live) : pc[w] = "off"
  /\ live' = <<>> /\ queue' = {}
  /\ mutex' = "free"
  /\ boss' = "down"
  /\ UNCHANGED <<done, at, holds, blk, retire, pc, job, permits, blocked, sysmons,
                 monitors, running, peeks>>

Boss == JoinMonitor \/ JoinSysmon \/ JoinWorkers

-----------------------------------------------------------------------------
Worker(w) ==
  \/ Loop(w) \/ Acquire(w) \/ NoPermit(w) \/ PermitWake(w)
  \/ \E j \in Jobs : Fetch(w, j)
  \/ Release(w) \/ Unpark(w) \/ Leave(w)
  \/ Enter(w) \/ Count(w) \/ Spawn(w) \/ Uncount(w) \/ Exit(w) \/ Finish(w)

Next ==
  \/ \E w \in Workers : Worker(w)
  \/ Sysmon \/ Monitor \/ Peek \/ Peeked \/ Shutdown \/ Boss
  \/ \E j \in Jobs : Submit(j)

Spec == Init /\ [][Next]_vars

\* Threads run on, and jobs end.  A permit that is free again and again is had
\* at last by who comes back with a job: who finds no work parks for a
\* millisecond and more.  A worker that stays blocked is old enough at the
\* second look of the sysmon, which sleeps between its looks: who waits for
\* workers_mutex_ has it then.
Returning == {w \in Workers : job[w] # NoJob}

Fairness ==
  /\ \A w \in Workers : WF_vars(Worker(w))
  /\ SF_vars(\E w \in Returning : PermitWake(w))
  /\ SF_vars(\E w \in Returning : Acquire(w))
  /\ SF_vars(\E w \in Workers : Handoff(w)) /\ SF_vars(Grow)
  /\ WF_vars(Sysmon) /\ WF_vars(Monitor) /\ WF_vars(Peeked) /\ WF_vars(Boss)
FairSpec == Spec /\ Fairness

-----------------------------------------------------------------------------
(* Properties *)

\* No permit is lost and none is made: what is not in permits_ is in the hands
\* of a worker, whatever the CASes of exit_blocking() and sysmon_loop() race.
Holders == {w \in Workers : holds[w] /\ blk[w] # "handed"}
PermitsExact == permits + Cardinality(Holders) = NumThreads

\* blocked_workers_ is the number of workers that are in a blocking region,
\* while the pool runs: at shutdown a worker may come back from one without a
\* permit, and enters the next one uncounted.
BlockedExact ==
  running => blocked = Cardinality({w \in Workers : pc[w] \in {"spawn", "blocked"}})

\* No more than NumThreads workers run code of jobs.
CapRespected ==
  running => Cardinality({w \in Workers : pc[w] = "run"}) <= NumThreads

\* What is enqueued is executed, whichever worker is retired meanwhile, as long
\* as fewer jobs than NumThreads wait for others.  When as many wait, a hand-off
\* that precedes the count, or that finds workers_mutex_ taken, starts no
\* replacement, nothing tries again, and this fails: runtime.h:93-97 ("parking
\* the caller cannot starve the pool the work runs on") promises more.
EveryJobRuns == \A j \in Jobs : j \in queue ~> j \in done

\* shutdown() returns.
ShutdownReturns == boss = "monitor" ~> boss = "down"
=============================================================================
