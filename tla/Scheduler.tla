----------------------------- MODULE Scheduler -----------------------------
(***************************************************************************)
(* The push-based scheduler of task graphs                                 *)
(* (core/pipeline/scheduler.cpp, with Task and TaskResult of core/tasks,   *)
(* run_task of thread_pool_executor.cpp and Pipeline::execute).            *)
(*                                                                         *)
(* schedule() submits the source and sleeps.  Everything else happens on   *)
(* the workers: on_task_completed() of one task counts down its children,  *)
(* submits those that became ready, or skips them, and the last one wakes  *)
(* schedule().  One step is one access to shared state; a task's worker is *)
(* named by the task.                                                      *)
(***************************************************************************)
EXTENDS Integers, Sequences, FiniteSets

CONSTANTS
  Tasks,
  Parents,       \* the tasks that each task depends_on()
  Sources,       \* the source of each call of schedule(), in order
  Outputs,       \* the tasks whose results execute() reads after each call
  Dynamic,       \* the tasks that a running task may submit_dynamic_task()
  FailFast,      \* error_policy_ == FAIL_FAST (else CONTINUE, CUSTOM)
  MayFail,       \* the tasks whose function may throw
  BadInput,      \* the tasks whose combiner may throw
  MayInterrupt,  \* somebody may call request_shutdown()
  HasWatchdog,   \* the watchdog may report a timeout
  Timed,         \* global_timeout_ is set
  NoTask

ASSUME SchedulerAssumption ==
  /\ IsFiniteSet(Tasks) /\ NoTask \notin Tasks
  /\ Parents \in [Tasks -> SUBSET Tasks]
  /\ Sources \in Seq(Tasks) /\ Outputs \in Seq(SUBSET Tasks)
  /\ Len(Outputs) = Len(Sources)
  /\ Dynamic \in [Tasks -> SUBSET Tasks]
  /\ FailFast \in BOOLEAN /\ MayInterrupt \in BOOLEAN
  /\ HasWatchdog \in BOOLEAN /\ Timed \in BOOLEAN

Children(t) == {c \in Tasks : t \in Parents[c]}
Roots == {Sources[i] : i \in 1 .. Len(Sources)}
Guests == UNION {Dynamic[t] : t \in Tasks}

\* count_tasks_dfs(): what can be reached from a task over its children.
Reachable(s) ==
  {t \in Tasks : \A S \in SUBSET Tasks :
     s \in S /\ (\A x \in S : Children(x) \subseteq S) => t \in S}

Graph == [r \in 1 .. Len(Sources) |-> Reachable(Sources[r])]

\* The sources and the dynamic tasks depend on nothing; a task belongs to
\* one call of schedule().
ASSUME GraphAssumption ==
  /\ \A t \in Roots \union Guests : Parents[t] = {}
  /\ \A t \in Guests : Children(t) = {} /\ t \notin Roots
  /\ \A t, u \in Tasks : t # u => Dynamic[t] \intersect Dynamic[u] = {}
  /\ \A i, j \in 1 .. Len(Sources) :
       i # j => Graph[i] \intersect Graph[j] = {}

VARIABLES
  state,          \* TaskResult::state_
  readers,        \* TaskResult::pending_readers_
  pendingParents, \* Task::pending_parents_count_
  pc,             \* of a task and of the worker that runs it
  todo,           \* the children its on_task_completed() has yet to look at
  child,          \* the one it is looking at
  skip,           \* those that skip_task_and_descendants() has yet to visit
  pendingCount,   \* pending_count_
  hasError,       \* has_error_
  shutdown,       \* shutdown_requested_
  running,        \* running_
  reason,         \* timeout_reason_ is not empty
  watching,       \* the watchdog is on
  alarm,          \* pc of who calls request_shutdown()
  mpc,            \* pc of the thread in execute()
  round,          \* calls of schedule() begun
  outcome,        \* how each of them ended
  gets            \* the results execute() has yet to read

graph == <<state, readers, pendingParents>>
local == <<todo, child, skip>>
flags == <<hasError, shutdown, running, reason, watching>>
main  == <<mpc, round, outcome, gets>>
vars  == <<graph, pc, local, pendingCount, flags, alarm, main>>

Init ==
  /\ state = [t \in Tasks |-> "pending"]
  /\ readers = [t \in Tasks |-> Cardinality(Children(t))]
  /\ pendingParents = [t \in Tasks |-> 0]
  /\ pc = [t \in Tasks |-> "idle"]
  /\ todo = [t \in Tasks |-> Children(t)]
  /\ child = [t \in Tasks |-> NoTask]
  /\ skip = [t \in Tasks |-> {}]
  /\ pendingCount = 0
  /\ hasError = FALSE /\ shutdown = FALSE /\ running = FALSE
  /\ reason = FALSE /\ watching = FALSE
  /\ alarm = "off"
  /\ mpc = "idle" /\ round = 0
  /\ outcome = [r \in 1 .. Len(Sources) |-> "none"]
  /\ gets = {}

IsReady(t) == state[t] \in {"value", "exception"}
Goto(t, l) == pc' = [pc EXCEPT ![t] = l]
Finish(o) == outcome' = [outcome EXCEPT ![round] = o]

\* done_cv_.notify_all(), with done_mutex_ held.
Wake == mpc' = IF mpc = "asleep" THEN "wait" ELSE mpc

-----------------------------------------------------------------------------
(* schedule() and execute() *)

Reset ==
  /\ mpc = "idle" /\ round < Len(Sources)
  /\ round' = round + 1
  /\ pendingCount' = 0
  /\ hasError' = FALSE /\ shutdown' = FALSE /\ reason' = FALSE
  /\ running' = TRUE
  /\ watching' = HasWatchdog
  /\ mpc' = "initialize"
  /\ UNCHANGED <<graph, pc, local, alarm, outcome, gets>>

InitializePendingCounts ==
  /\ mpc = "initialize"
  /\ pendingParents' =
       [t \in Tasks |-> IF t \in Graph[round]
                        THEN Cardinality(Parents[t]) ELSE pendingParents[t]]
  /\ mpc' = "submit"
  /\ UNCHANGED <<state, readers, pc, local, pendingCount, flags, alarm, round,
                 outcome, gets>>

SubmitSource ==
  /\ mpc = "submit"
  /\ pendingCount' = pendingCount + 1
  /\ Goto(Sources[round], "queued")
  /\ mpc' = "wait"
  /\ UNCHANGED <<graph, local, flags, alarm, round, outcome, gets>>

\* The predicate of the wait on done_cv_.
IsDone == pendingCount = 0 \/ (hasError /\ FailFast) \/ shutdown

\* Mutant: it looks at the count alone, and does not sleep.
Wait_count ==
  /\ mpc = "wait"
  /\ mpc' = IF pendingCount = 0 THEN "stop" ELSE "wait"
  /\ UNCHANGED <<graph, pc, local, pendingCount, flags, alarm, round, outcome,
                 gets>>

Wait ==
  /\ mpc = "wait"
  /\ mpc' = IF IsDone THEN "stop" ELSE "asleep"
  /\ UNCHANGED <<graph, pc, local, pendingCount, flags, alarm, round, outcome,
                 gets>>

\* wait_for() gives up: it looks at the predicate once more.  What follows
\* calls request_shutdown() and throws, running_ and the watchdog stay on.
TimeOut ==
  /\ mpc = "asleep" /\ Timed
  /\ IF IsDone
     THEN mpc' = "stop" /\ UNCHANGED <<shutdown, outcome>>
     ELSE mpc' = "idle" /\ shutdown' = TRUE /\ Finish("timeout")
  /\ UNCHANGED <<graph, pc, local, pendingCount, hasError, running, reason,
                 watching, alarm, round, gets>>

\* Mutant: the error counts only when every task is over.
Stop_late ==
  /\ mpc = "stop"
  /\ alarm \notin {"error", "reason"}
  /\ running' = FALSE /\ watching' = FALSE
  /\ LET o == IF reason THEN "timeout"
              ELSE IF shutdown THEN "interrupted"
              ELSE IF hasError /\ FailFast /\ pendingCount = 0 THEN "error"
              ELSE "ok"
     IN  /\ Finish(o)
         /\ gets' = IF o = "ok" THEN Outputs[round] ELSE {}
         /\ mpc' = IF o = "ok" THEN "get" ELSE "idle"
  /\ UNCHANGED <<graph, pc, local, pendingCount, hasError, shutdown, reason,
                 alarm, round>>

\* running_ = false; the watchdog is stopped, which waits for a callback of
\* its thread; then the errors are looked at.
Stop ==
  /\ mpc = "stop"
  /\ alarm \notin {"error", "reason"}
  /\ running' = FALSE /\ watching' = FALSE
  /\ LET o == IF reason THEN "timeout"
              ELSE IF shutdown THEN "interrupted"
              ELSE IF hasError /\ FailFast THEN "error"
              ELSE "ok"
     IN  /\ Finish(o)
         /\ gets' = IF o = "ok" THEN Outputs[round] ELSE {}
         /\ mpc' = IF o = "ok" THEN "get" ELSE "idle"
  /\ UNCHANGED <<graph, pc, local, pendingCount, hasError, shutdown, reason,
                 alarm, round>>

\* execute() blocks on each result.  It rethrows an exception only under
\* FAIL_FAST.
Get(t) ==
  /\ mpc = "get" /\ t \in gets /\ IsReady(t)
  /\ IF state[t] = "exception" /\ FailFast
     THEN Finish("error") /\ gets' = {}
     ELSE gets' = gets \ {t} /\ UNCHANGED outcome
  /\ UNCHANGED <<graph, pc, local, pendingCount, flags, alarm, mpc, round>>

Returned ==
  /\ mpc = "get" /\ gets = {}
  /\ mpc' = "idle"
  /\ UNCHANGED <<graph, pc, local, pendingCount, flags, alarm, round, outcome,
                 gets>>

Main == \/ Reset \/ InitializePendingCounts \/ SubmitSource \/ Wait \/ Stop
        \/ Returned \/ \E t \in Tasks : Get(t)

-----------------------------------------------------------------------------
(* request_shutdown(), by a user or by the watchdog's timeout callback *)

Interrupt ==
  /\ MayInterrupt /\ alarm = "off"
  /\ alarm' = "flag"
  /\ UNCHANGED <<graph, pc, local, pendingCount, flags, main>>

Expire ==
  /\ watching /\ alarm = "off"
  /\ hasError' = TRUE
  /\ alarm' = "error"
  /\ UNCHANGED <<graph, pc, local, pendingCount, shutdown, running, reason,
                 watching, main>>

SetReason ==
  /\ alarm = "error"
  /\ reason' = TRUE
  /\ alarm' = "reason"
  /\ UNCHANGED <<graph, pc, local, pendingCount, hasError, shutdown, running,
                 watching, main>>

SetShutdown ==
  /\ alarm \in {"flag", "reason"}
  /\ shutdown' = TRUE
  /\ alarm' = IF shutdown THEN "over" ELSE "notify"
  /\ UNCHANGED <<graph, pc, local, pendingCount, hasError, running, reason,
                 watching, main>>

NotifyShutdown ==
  /\ alarm = "notify"
  /\ alarm' = "over"
  /\ Wake
  /\ UNCHANGED <<graph, pc, local, pendingCount, flags, round, outcome, gets>>

Alarm == SetReason \/ SetShutdown \/ NotifyShutdown

-----------------------------------------------------------------------------
(* run_task() *)

\* The executor gives the task to a worker, which marks it running.
Start(t) ==
  /\ pc[t] = "queued"
  /\ state' = [state EXCEPT ![t] = IF @ = "pending" THEN "running" ELSE @]
  /\ Goto(t, "running")
  /\ UNCHANGED <<readers, pendingParents, local, pendingCount, flags, alarm,
                 main>>

\* Its function submits another task; it may go unnoticed when schedule()
\* has returned.
SubmitDynamicTask(t, d) ==
  /\ pc[t] = "running" /\ d \in Dynamic[t] /\ pc[d] = "idle"
  /\ running
  /\ pendingParents' = [pendingParents EXCEPT ![d] = Cardinality(Parents[d])]
  /\ pendingCount' = pendingCount + 1
  /\ Goto(d, "queued")
  /\ UNCHANGED <<state, readers, local, flags, alarm, main>>

\* Its function returns or throws, and the scope of its coroutines is joined.
Execute(t) ==
  /\ pc[t] = "running"
  /\ \/ state' = [state EXCEPT ![t] = "value"]
     \/ t \in MayFail /\ state' = [state EXCEPT ![t] = "exception"]
  /\ Goto(t, "completed")
  /\ UNCHANGED <<readers, pendingParents, local, pendingCount, flags, alarm,
                 main>>

-----------------------------------------------------------------------------
(* on_task_completed() *)

OnTaskCompleted(t) ==
  /\ pc[t] = "completed"
  /\ IF shutdown
     THEN Goto(t, "finish") /\ UNCHANGED hasError
     ELSE IF state[t] = "exception"
     THEN Goto(t, "error") /\ hasError' = TRUE
     ELSE Goto(t, "check") /\ UNCHANGED hasError
  /\ UNCHANGED <<graph, local, pendingCount, shutdown, running, reason,
                 watching, alarm, main>>

\* Mutant: a failed task is not counted out.
HandleTaskError_keep(t) ==
  /\ pc[t] \in {"error", "childerror"}
  /\ hasError' = TRUE
  /\ Goto(t, IF pc[t] = "error" THEN "errornotify" ELSE "childnotify")
  /\ UNCHANGED <<graph, local, pendingCount, shutdown, running, reason, watching,
                 alarm, main>>

\* handle_task_error() of the task itself, or of a child without an input.
HandleTaskError(t) ==
  /\ pc[t] \in {"error", "childerror"}
  /\ hasError' = TRUE
  /\ pendingCount' = pendingCount - 1
  /\ Goto(t, IF pc[t] = "error" THEN "errornotify" ELSE "childnotify")
  /\ UNCHANGED <<graph, local, shutdown, running, reason, watching, alarm,
                 main>>

\* It wakes schedule().
NotifyError(t) ==
  /\ pc[t] \in {"errornotify", "childnotify"}
  /\ IF FailFast \/ shutdown \/ pendingCount = 0 THEN Wake ELSE UNCHANGED mpc
  /\ Goto(t, IF pc[t] = "errornotify" THEN "check" ELSE "children")
  /\ UNCHANGED <<graph, local, pendingCount, flags, alarm, round, outcome,
                 gets>>

\* The children are left alone after a shutdown (and pending_count_ keeps
\* the task) or when the task has failed under FAIL_FAST.
Check(t) ==
  /\ pc[t] = "check"
  /\ Goto(t, IF shutdown \/ (state[t] = "exception" /\ FailFast)
             THEN "done" ELSE "children")
  /\ UNCHANGED <<graph, local, pendingCount, flags, alarm, main>>

FailedParent(c) == \E p \in Parents[c] : state[p] = "exception"

CountDown(t, c) ==
  /\ pc[t] = "children" /\ c \in todo[t]
  /\ pendingParents' = [pendingParents EXCEPT ![c] = @ - 1]
  /\ todo' = [todo EXCEPT ![t] = @ \ {c}]
  /\ UNCHANGED <<state, readers, flags, alarm, main>>

\* The child still waits for another parent.
NotYet(t, c) ==
  /\ pendingParents[c] # 1
  /\ CountDown(t, c)
  /\ UNCHANGED <<pc, child, skip, pendingCount>>

SkipChild(t, c) ==
  /\ pendingParents[c] = 1 /\ ~FailFast /\ FailedParent(c)
  /\ CountDown(t, c)
  /\ Goto(t, "skip")
  /\ skip' = [skip EXCEPT ![t] = {c}]
  /\ UNCHANGED <<child, pendingCount>>

\* Mutant: the results of the parents are not looked at.
ReadyChild_blind(t, c) ==
  /\ pendingParents[c] = 1
  /\ CountDown(t, c)
  /\ pendingCount' = pendingCount + 1
  /\ child' = [child EXCEPT ![t] = c]
  /\ Goto(t, "prepare")
  /\ UNCHANGED skip

\* Mutant: the child is counted when it is submitted.
ReadyChild_uncounted(t, c) ==
  /\ pendingParents[c] = 1 /\ (FailFast \/ ~FailedParent(c))
  /\ CountDown(t, c)
  /\ child' = [child EXCEPT ![t] = c]
  /\ Goto(t, "prepare")
  /\ UNCHANGED <<skip, pendingCount>>

\* Mutant: a child is ready as soon as one parent is.
ReadyChild_early(t, c) ==
  /\ pendingParents[c] <= 2 /\ (FailFast \/ ~FailedParent(c))
  /\ CountDown(t, c)
  /\ pendingCount' = pendingCount + 1
  /\ child' = [child EXCEPT ![t] = c]
  /\ Goto(t, "prepare")
  /\ UNCHANGED skip

ReadyChild(t, c) ==
  /\ pendingParents[c] = 1 /\ (FailFast \/ ~FailedParent(c))
  /\ CountDown(t, c)
  /\ pendingCount' = pendingCount + 1
  /\ child' = [child EXCEPT ![t] = c]
  /\ Goto(t, "prepare")
  /\ UNCHANGED skip

\* Mutant: the value goes with the first of its readers.
ReleaseReaders_first(c) ==
  readers' = [p \in Tasks |-> IF p \in Parents[c] THEN 0 ELSE readers[p]]

\* prepare_input_for_task() reads the parents' values and gives them up.
ReleaseReaders(c) ==
  readers' = [p \in Tasks |-> readers[p] - (IF p \in Parents[c] THEN 1 ELSE 0)]

SubmitChild(t) ==
  /\ pc[t] = "prepare"
  /\ ReleaseReaders(child[t])
  /\ pc' = [pc EXCEPT ![t] = "children", ![child[t]] = "queued"]
  /\ UNCHANGED <<state, pendingParents, local, pendingCount, flags, alarm,
                 main>>

\* The combiner throws: the child has failed.
RejectInput(t) ==
  /\ pc[t] = "prepare" /\ child[t] \in BadInput
  /\ ReleaseReaders(child[t])
  /\ state' = [state EXCEPT ![child[t]] = "exception"]
  /\ Goto(t, "childerror")
  /\ UNCHANGED <<pendingParents, local, pendingCount, flags, alarm, main>>

\* skip_task_and_descendants() finds a task completed, or goes for it.
SkipVisit(t, d) ==
  /\ pc[t] = "skip" /\ d \in skip[t]
  /\ skip' = [skip EXCEPT ![t] = @ \ {d}]
  /\ IF IsReady(d)
     THEN UNCHANGED <<pc, child>>
     ELSE Goto(t, "skipset") /\ child' = [child EXCEPT ![t] = d]
  /\ UNCHANGED <<graph, todo, pendingCount, flags, alarm, main>>

\* Mutant: the children of a skipped task are forgotten.
SkipSet_only(t) ==
  /\ pc[t] = "skipset"
  /\ state' = [state EXCEPT ![child[t]] = "exception"]
  /\ Goto(t, "skip")
  /\ UNCHANGED <<readers, pendingParents, local, pendingCount, flags, alarm,
                 main>>

SkipSet(t) ==
  /\ pc[t] = "skipset"
  /\ state' = [state EXCEPT ![child[t]] = "exception"]
  /\ skip' = [skip EXCEPT ![t] = @ \union Children(child[t])]
  /\ Goto(t, "skip")
  /\ UNCHANGED <<readers, pendingParents, todo, child, pendingCount, flags,
                 alarm, main>>

SkipDone(t) ==
  /\ pc[t] = "skip" /\ skip[t] = {}
  /\ Goto(t, "children")
  /\ UNCHANGED <<graph, local, pendingCount, flags, alarm, main>>

ChildrenDone(t) ==
  /\ pc[t] = "children" /\ todo[t] = {}
  /\ Goto(t, "report")
  /\ UNCHANGED <<graph, local, pendingCount, flags, alarm, main>>

\* The progress callback.  Who failed is no longer counted.
Report(t) ==
  /\ pc[t] = "report"
  /\ Goto(t, IF state[t] = "exception" THEN "done" ELSE "finish")
  /\ UNCHANGED <<graph, local, pendingCount, flags, alarm, main>>

CountOut(t) ==
  /\ pc[t] = "finish"
  /\ pendingCount' = pendingCount - 1
  /\ Goto(t, "notify")
  /\ UNCHANGED <<graph, local, flags, alarm, main>>

NotifyDone(t) ==
  /\ pc[t] = "notify"
  /\ IF pendingCount = 0 THEN Wake ELSE UNCHANGED mpc
  /\ Goto(t, "done")
  /\ UNCHANGED <<graph, local, pendingCount, flags, alarm, round, outcome,
                 gets>>

Worker(t) ==
  \/ Start(t) \/ Execute(t) \/ OnTaskCompleted(t) \/ HandleTaskError(t)
  \/ NotifyError(t) \/ Check(t)
  \/ \E c \in Tasks : NotYet(t, c) \/ SkipChild(t, c) \/ ReadyChild(t, c)
  \/ SubmitChild(t) \/ RejectInput(t)
  \/ \E d \in Tasks : SkipVisit(t, d)
  \/ SkipSet(t) \/ SkipDone(t) \/ ChildrenDone(t) \/ Report(t)
  \/ CountOut(t) \/ NotifyDone(t)

-----------------------------------------------------------------------------
Over ==
  /\ mpc = "idle" /\ round = Len(Sources)
  /\ \A t \in Tasks : pc[t] \in {"idle", "done"}

Terminating == Over /\ UNCHANGED vars

Next ==
  \/ Main \/ TimeOut \/ Interrupt \/ Expire \/ Alarm
  \/ \E t \in Tasks : Worker(t) \/ \E d \in Tasks : SubmitDynamicTask(t, d)
  \/ Terminating

\* Threads run on.  Nobody has to interrupt, to time out or to submit
\* dynamic tasks.
Fairness ==
  /\ WF_vars(Main) /\ WF_vars(Alarm)
  /\ \A t \in Tasks : WF_vars(Worker(t))

Spec     == Init /\ [][Next]_vars
FairSpec == Spec /\ Fairness

-----------------------------------------------------------------------------
(* Properties *)

Labels == {"idle", "queued", "running", "completed", "error", "errornotify",
           "check", "children", "prepare", "childerror", "childnotify",
           "skip", "skipset", "report", "finish", "notify", "done"}
Outcomes == {"none", "ok", "error", "timeout", "interrupted"}

TasksType ==
  /\ state \in [Tasks -> {"pending", "running", "value", "exception"}]
  /\ readers \in [Tasks -> Int] /\ pendingParents \in [Tasks -> Int]
  /\ pc \in [Tasks -> Labels]
  /\ todo \in [Tasks -> SUBSET Tasks] /\ skip \in [Tasks -> SUBSET Tasks]
  /\ child \in [Tasks -> Tasks \union {NoTask}]
FlagsType ==
  /\ hasError \in BOOLEAN /\ shutdown \in BOOLEAN /\ running \in BOOLEAN
  /\ reason \in BOOLEAN /\ watching \in BOOLEAN
MainType ==
  /\ pendingCount \in Int
  /\ alarm \in {"off", "error", "reason", "flag", "notify", "over"}
  /\ mpc \in {"idle", "initialize", "submit", "wait", "asleep", "stop", "get"}
  /\ round \in 0 .. Len(Sources)
  /\ outcome \in [1 .. Len(Sources) -> Outcomes]
  /\ gets \subseteq Tasks

\* Every variable has its type.
TypeOK == TasksType /\ FlagsType /\ MainType

\* A task is handed to the executor only when every task it depends on has
\* produced a value: whoever counts it down last, and whatever became of the
\* others.
DependenciesRespected ==
  \A t \in Tasks : pc[t] # "idle" =>
    \A p \in Parents[t] : state[p] = "value"

\* pending_count_ is exact until a shutdown: the tasks submitted and not yet
\* counted out, with the child whose input is being prepared.
Uncounted == {"idle", "errornotify", "notify", "done"}
InFlight ==
  {t \in Tasks :
     /\ pc[t] \notin Uncounted
     /\ state[t] = "exception" =>
          pc[t] \in {"queued", "running", "completed", "error", "finish"}}
  \union {child[t] : t \in {u \in Tasks : pc[u] \in {"prepare", "childerror"}}}
PendingExact == shutdown \/ pendingCount = Cardinality(InFlight)

\* A result is final: a task that was skipped, or that failed without an
\* input, does not run, and nobody overwrites what a task has published.
ResultIsFinal ==
  [][\A t \in Tasks : IsReady(t) => state'[t] = state[t]]_vars

\* The value of a parent that goes into the input of a child is there: it
\* has been published, and its other readers have not freed it.
Freed(p) == Children(p) # {} /\ readers[p] = 0
ReadsLiveValues ==
  \A t \in Tasks : pc[t] = "prepare" =>
    \A p \in Parents[child[t]] : state[p] = "value" /\ ~Freed(p)

\* When schedule() returns normally no function of a task runs or will run.
QuietOnReturn ==
  \A r \in 1 .. Len(Sources) : outcome[r] = "ok" =>
    \A t \in Graph[r] \union UNION {Dynamic[u] : u \in Graph[r]} :
      pc[t] \notin {"queued", "running"}

\* Under FAIL_FAST a normal return means that the whole graph was executed,
\* and an execution error that some task has failed.
OutcomeIsTrue ==
  FailFast =>
    \A r \in 1 .. Len(Sources) :
      /\ outcome[r] = "ok" =>
           \A t \in Graph[r] : state[t] = "value"
      /\ outcome[r] = "error" => \E t \in Tasks : state[t] = "exception"

\* execute() returns: the last completion, the first error or the shutdown
\* wakes it, and the results it reads are published.
ExecuteReturns == mpc \in {"wait", "asleep"} ~> mpc = "idle"

\* Under CONTINUE every task of the graph ends up with a result: executed,
\* failed or skipped ("skip children of failed tasks", pipeline_config.h:23).
EverybodySettles ==
  \A r \in 1 .. Len(Sources) : round = r ~> \A t \in Graph[r] : IsReady(t)
=============================================================================
