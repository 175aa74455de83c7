-------------------------- MODULE SchedulerProofs --------------------------
(***************************************************************************)
(* For every graph of tasks, every set of failures, both policies and any  *)
(* shutdown: a task is submitted only when all its parents have a value,   *)
(* and what a task has published is never overwritten.                     *)
(*                                                                         *)
(* The inductive invariant IInv says who may still count a task down: the  *)
(* count is the number of the parents that have it on their lists, who has *)
(* taken it off is completed, and a task that is skipped or rejected keeps *)
(* a reason why it can never be submitted.  The second half is about what  *)
(* is counted, and what a return of schedule() then says.                  *)
(***************************************************************************)
EXTENDS Scheduler, FiniteSetTheorems, TLAPS

\* on_task_completed() has begun, and it has got past the early returns.
After == {"completed", "error", "errornotify", "check", "children", "prepare",
          "childerror", "childnotify", "skip", "skipset", "report", "finish",
          "notify", "done"}
Visiting == {"children", "prepare", "childerror", "childnotify", "skip",
             "skipset", "report"}

\* A task has a value only when it was executed, and an exception only when
\* it was executed or is never going to be.
Results ==
  \A t \in Tasks :
    /\ pc[t] \in After => IsReady(t)
    /\ state[t] = "value" => pc[t] \in After
    /\ state[t] = "exception" => pc[t] \in After \union {"idle"}
    /\ state[t] = "running" => pc[t] = "running"
    /\ pc[t] \in Visiting /\ FailFast => state[t] = "value"

\* Whoever has counted a child down is completed.
CountedDown ==
  \A t \in Tasks :
    /\ todo[t] \subseteq Children(t)
    /\ \A c \in Children(t) \ todo[t] :
         pc[t] \in After /\ (FailFast => state[t] = "value")

\* All parents of t have a value and have counted t down.
Released(t) == \A p \in Parents[t] : state[p] = "value" /\ t \notin todo[p]

\* Only released tasks are submitted.
Submitted == \A t \in Tasks : pc[t] # "idle" => Released(t)

\* A child whose input is being prepared is released, and in one pair of
\* hands.
Prepared ==
  \A t \in Tasks : pc[t] = "prepare" =>
    /\ child[t] \in Tasks /\ t \in Parents[child[t]]
    /\ pc[child[t]] = "idle" /\ state[child[t]] = "pending"
    /\ Released(child[t])
    /\ \A u \in Tasks : pc[u] = "prepare" /\ child[u] = child[t] => u = t

\* Who is about to be skipped has a parent that failed or was skipped.
Skipping ==
  \A t \in Tasks :
    /\ \A d \in skip[t] : FailedParent(d)
    /\ pc[t] = "skipset" => child[t] \in Tasks /\ FailedParent(child[t])

\* An exception of a task that was not executed: it was skipped, or its
\* combiner threw when everybody had counted it down.
Rejected ==
  \A t \in Tasks : pc[t] = "idle" /\ state[t] = "exception" =>
    \/ FailedParent(t)
    \/ Parents[t] # {} /\ \A p \in Parents[t] : t \notin todo[p]

\* The calls of schedule() that have counted their graph, and those that
\* have submitted their source.
Initialized(r) == r \in 1 .. round /\ (r = round => mpc # "initialize")
Started(r) == Initialized(r) /\ (r = round => mpc # "submit")

\* pending_parents_count_ is the number of parents that have yet to count
\* the task down.
Waiting(t) == {p \in Parents[t] : t \in todo[p]}
Counts ==
  \A r \in 1 .. Len(Sources) : Initialized(r) =>
    \A t \in Graph[r] : pendingParents[t] = Cardinality(Waiting(t))

\* A task runs in the call that it belongs to.
Begun ==
  /\ mpc # "idle" => round \in 1 .. Len(Sources)
  /\ \A t \in Tasks : pc[t] # "idle" =>
       t \in Guests \/ \E r \in 1 .. Len(Sources) : Started(r) /\ t \in Graph[r]

IInv == TypeOK /\ Results /\ CountedDown /\ Submitted /\ Prepared /\ Skipping
        /\ Rejected /\ Counts /\ Begun

-----------------------------------------------------------------------------
\* The parents of a task are tasks, finitely many.
LEMMA ParentsFinite ==
  ASSUME NEW t \in Tasks
  PROVE  Parents[t] \subseteq Tasks /\ IsFiniteSet(Parents[t])
<1>1. Parents[t] \subseteq Tasks /\ IsFiniteSet(Tasks)
  BY SchedulerAssumption
<1> QED
  BY <1>1, FS_Subset

\* A graph contains its source, and with a task its children.
LEMMA GraphClosed ==
  ASSUME NEW r \in 1 .. Len(Sources)
  PROVE  /\ Sources[r] \in Tasks /\ Sources[r] \in Graph[r]
         /\ \A t \in Graph[r] : t \in Tasks /\ Children(t) \subseteq Graph[r]
<1>1. Sources[r] \in Tasks
  BY SchedulerAssumption
<1>2. Graph[r] = Reachable(Sources[r])
  BY DEF Graph
<1>3. Sources[r] \in Graph[r]
  BY <1>1, <1>2 DEF Reachable
<1>4. ASSUME NEW t \in Graph[r], NEW c \in Children(t) PROVE c \in Graph[r]
  <2>1. c \in Tasks
    BY DEF Children
  <2>2. ASSUME NEW S \in SUBSET Tasks, Sources[r] \in S,
               \A x \in S : Children(x) \subseteq S
        PROVE  c \in S
    <3>1. t \in S
      BY <1>2, <2>2 DEF Reachable
    <3> QED
      BY <2>2, <3>1, <1>4
  <2> QED
    BY <1>2, <2>1, <2>2 DEF Reachable
<1> QED
  BY <1>1, <1>2, <1>3, <1>4 DEF Reachable

\* A task belongs to one graph.
LEMMA GraphsDisjoint ==
  ASSUME NEW i \in 1 .. Len(Sources), NEW j \in 1 .. Len(Sources),
         NEW t \in Graph[i], t \in Graph[j]
  PROVE  i = j
  BY GraphAssumption

\* Sources have no parents.
LEMMA SourceFree ==
  ASSUME NEW r \in 1 .. Len(Sources)
  PROVE  Parents[Sources[r]] = {} /\ Sources[r] \notin Guests
<1>1. Sources[r] \in Roots
  BY DEF Roots
<1> QED
  BY <1>1, GraphAssumption

\* Dynamic tasks have neither parents nor children.
LEMMA GuestFree ==
  ASSUME NEW t \in Tasks, NEW d \in Dynamic[t]
  PROVE  d \in Tasks /\ d \in Guests /\ Parents[d] = {} /\ Children(d) = {}
<1>1. d \in Guests /\ d \in Tasks
  BY SchedulerAssumption DEF Guests
<1> QED
  BY <1>1, GraphAssumption

-----------------------------------------------------------------------------
\* The initial state.
LEMMA InitIInv == Init => IInv
<1> SUFFICES ASSUME Init PROVE IInv
  OBVIOUS
<1> USE SchedulerAssumption DEF Init
<1>0. \A t \in Tasks : Children(t) \subseteq Tasks /\ IsFiniteSet(Children(t))
  BY FS_Subset DEF Children
<1>1. TypeOK
  <2>1. \A t \in Tasks : Cardinality(Children(t)) \in Int
    BY <1>0, FS_CardinalityType
  <2>2. Len(Sources) \in Nat
    OBVIOUS
  <2>3. /\ readers \in [Tasks -> Int] /\ pendingParents \in [Tasks -> Int]
        /\ todo \in [Tasks -> SUBSET Tasks] /\ skip \in [Tasks -> SUBSET Tasks]
    BY <1>0, <2>1
  <2>4. TasksType
    BY <2>3 DEF TasksType, Labels
  <2>5. MainType
    BY <2>2 DEF MainType, Outcomes
  <2>6. FlagsType
    BY Zenon DEF FlagsType
  <2> QED
    BY <2>4, <2>5, <2>6 DEF TypeOK
<1>2. Results /\ CountedDown /\ Submitted
  BY DEF Results, CountedDown, Submitted, After, Visiting
<1>3. Prepared /\ Skipping /\ Rejected
  BY DEF Prepared, Skipping, Rejected
<1>4. Counts /\ Begun
  BY DEF Counts, Begun, Initialized
<1> QED
  BY <1>1, <1>2, <1>3, <1>4 DEF IInv

-----------------------------------------------------------------------------
\* The steps that leave the tasks alone.
Aside == Reset \/ Wait \/ TimeOut \/ Stop \/ Returned \/ Interrupt \/ Expire
         \/ Alarm \/ \E t \in Tasks : Get(t)
LEMMA AsideStep ==
  ASSUME Aside
  PROVE  UNCHANGED <<graph, pc, local>>
  BY DEF Aside, Reset, Wait, TimeOut, Stop, Returned, Interrupt, Expire, Alarm,
         SetReason, SetShutdown, NotifyShutdown, Get, graph, local, main

\* The steps of a worker that do nothing but go on: to no preparation and no
\* skipping, and past the early returns only with a value under FAIL_FAST.
Moves(t) == \/ OnTaskCompleted(t) \/ HandleTaskError(t) \/ NotifyError(t)
            \/ Check(t) \/ SkipDone(t) \/ ChildrenDone(t) \/ Report(t)
            \/ CountOut(t) \/ NotifyDone(t)
To(t, l) == /\ l \in After \ {"prepare", "skipset"}
            /\ pc' = [pc EXCEPT ![t] = l]
            /\ l \in Visiting /\ FailFast => state[t] = "value"
LEMMA MoveStep ==
  ASSUME TasksType, Results, NEW t \in Tasks, Moves(t)
  PROVE  UNCHANGED <<graph, local, round>> /\ pc[t] \in After /\ \E l : To(t, l)
<1>0. /\ pc[t] \in Labels /\ (pc[t] \in After => IsReady(t))
      /\ pc[t] \in Visiting /\ FailFast => state[t] = "value"
  BY DEF TasksType, Results
<1> USE DEF After, Visiting, Goto, main, local, IsReady
<1>1. CASE OnTaskCompleted(t)
  <2>1. UNCHANGED <<graph, local, round>> /\ pc[t] \in {"completed"}
    BY <1>1 DEF OnTaskCompleted
  <2>2. To(t, "finish") \/ To(t, "error") \/ To(t, "check")
    BY <1>0, <1>1 DEF OnTaskCompleted, To
  <2> QED
    BY <2>1, <2>2
<1>2. CASE HandleTaskError(t)
  <2>1. UNCHANGED <<graph, local, round>> /\ pc[t] \in {"error", "childerror"}
    BY <1>2 DEF HandleTaskError
  <2>2. To(t, "errornotify") \/ To(t, "childnotify")
    BY <1>0, <1>2 DEF HandleTaskError, To
  <2> QED
    BY <2>1, <2>2
<1>3. CASE NotifyError(t)
  <2>1. UNCHANGED <<graph, local, round>> /\ pc[t] \in {"errornotify", "childnotify"}
    BY <1>3 DEF NotifyError
  <2>2. To(t, "check") \/ To(t, "children")
    BY <1>0, <1>3 DEF NotifyError, To
  <2> QED
    BY <2>1, <2>2
<1>4. CASE Check(t)
  <2>1. UNCHANGED <<graph, local, round>> /\ pc[t] \in {"check"}
    BY <1>4 DEF Check
  <2>2. To(t, "done") \/ To(t, "children")
    BY <1>0, <1>4 DEF Check, To
  <2> QED
    BY <2>1, <2>2
<1>5. CASE SkipDone(t)
  <2>1. UNCHANGED <<graph, local, round>> /\ pc[t] \in {"skip"}
    BY <1>5 DEF SkipDone
  <2>2. To(t, "children")
    BY <1>0, <1>5 DEF SkipDone, To
  <2> QED
    BY <2>1, <2>2
<1>6. CASE ChildrenDone(t)
  <2>1. UNCHANGED <<graph, local, round>> /\ pc[t] \in {"children"}
    BY <1>6 DEF ChildrenDone
  <2>2. To(t, "report")
    BY <1>0, <1>6 DEF ChildrenDone, To
  <2> QED
    BY <2>1, <2>2
<1>7. CASE Report(t)
  <2>1. UNCHANGED <<graph, local, round>> /\ pc[t] \in {"report"}
    BY <1>7 DEF Report
  <2>2. To(t, "done") \/ To(t, "finish")
    BY <1>0, <1>7 DEF Report, To
  <2> QED
    BY <2>1, <2>2
<1>8. CASE CountOut(t)
  <2>1. UNCHANGED <<graph, local, round>> /\ pc[t] \in {"finish"}
    BY <1>8 DEF CountOut
  <2>2. To(t, "notify")
    BY <1>0, <1>8 DEF CountOut, To
  <2> QED
    BY <2>1, <2>2
<1>9. CASE NotifyDone(t)
  <2>1. UNCHANGED <<graph, local, round>> /\ pc[t] \in {"notify"}
    BY <1>9 DEF NotifyDone
  <2>2. To(t, "done")
    BY <1>0, <1>9 DEF NotifyDone, To
  <2> QED
    BY <2>1, <2>2
<1> QED
  BY <1>1, <1>2, <1>3, <1>4, <1>5, <1>6, <1>7, <1>8, <1>9 DEF Moves

-----------------------------------------------------------------------------
\* The source of the call is submitted for the first time.
LEMMA SourceIdle ==
  ASSUME Begun, mpc = "submit"
  PROVE  /\ round \in 1 .. Len(Sources)
         /\ pc[Sources[round]] = "idle"
<1>1. round \in 1 .. Len(Sources)
  BY DEF Begun
<1>2. Sources[round] \in Tasks /\ Sources[round] \in Graph[round]
  BY <1>1, GraphClosed
<1>3. SUFFICES ASSUME pc[Sources[round]] # "idle" PROVE FALSE
  BY <1>1
<1>4. PICK r \in 1 .. Len(Sources) : Started(r) /\ Sources[round] \in Graph[r]
  BY <1>1, <1>2, <1>3, SourceFree DEF Begun
<1>5. r = round
  BY <1>1, <1>2, <1>4, GraphsDisjoint
<1> QED
  BY <1>4, <1>5 DEF Started

\* What a step may do to the tasks.
Still == UNCHANGED <<state, pc, local>>
Fresh(d) == /\ pc[d] = "idle" /\ Parents[d] = {}
            /\ pc' = [pc EXCEPT ![d] = "queued"]
            /\ UNCHANGED <<state, local>>
            /\ d \in Guests \/ (SubmitSource /\ d = Sources[round])
Step(t) == \/ Start(t) \/ Execute(t) \/ Moves(t)
           \/ \E c \in Tasks : NotYet(t, c) \/ SkipChild(t, c) \/ ReadyChild(t, c)
           \/ SubmitChild(t) \/ RejectInput(t)
           \/ \E d \in Tasks : SkipVisit(t, d)
           \/ SkipSet(t)
LEMMA Cases ==
  ASSUME Begun, [Next]_vars
  PROVE  Still \/ (\E d \in Tasks : Fresh(d)) \/ (\E t \in Tasks : Step(t))
<1>1. CASE Aside
  BY <1>1, AsideStep DEF Still, graph
<1>2. CASE InitializePendingCounts
  BY <1>2 DEF InitializePendingCounts, Still
<1>3. CASE SubmitSource
  <2>1. mpc = "submit" /\ pc' = [pc EXCEPT ![Sources[round]] = "queued"]
        /\ UNCHANGED <<state, local>>
    BY <1>3 DEF SubmitSource, Goto, graph
  <2>2. round \in 1 .. Len(Sources) /\ pc[Sources[round]] = "idle"
    BY <2>1, SourceIdle
  <2>3. Sources[round] \in Tasks /\ Parents[Sources[round]] = {}
    BY <2>2, GraphClosed, SourceFree
  <2>4. Fresh(Sources[round])
    BY <1>3, <2>1, <2>2, <2>3 DEF Fresh
  <2> QED
    BY <2>3, <2>4
<1>4. ASSUME NEW t \in Tasks, NEW d \in Tasks, SubmitDynamicTask(t, d)
      PROVE  Fresh(d)
  BY <1>4, GuestFree DEF SubmitDynamicTask, Goto, Fresh
<1>5. ASSUME NEW t \in Tasks, Worker(t) PROVE Step(t)
  BY <1>5, Zenon DEF Worker, Step, Moves
<1>6. CASE Terminating \/ UNCHANGED vars
  BY <1>6 DEF Terminating, vars, graph, Still
<1> QED
  BY <1>1, <1>2, <1>3, <1>4, <1>5, <1>6, Zenon DEF Next, Main, Aside

-----------------------------------------------------------------------------
\* What is published stays, children are only taken off the lists, and a
\* task that is past its execution stays there.
Forward ==
  \A t \in Tasks : /\ IsReady(t) => state'[t] = state[t]
                   /\ todo'[t] \subseteq todo[t]
                   /\ pc[t] \in After => pc'[t] \in After
                   /\ pc'[t] = "idle" => pc[t] = "idle"

\* A task that has a value has no parent that failed.
LEMMA ValueNotSkipped ==
  ASSUME Results, Submitted, NEW d \in Tasks, FailedParent(d)
  PROVE  state[d] # "value" /\ pc[d] = "idle"
<1>1. PICK p \in Parents[d] : state[p] = "exception"
  BY DEF FailedParent
<1>2. ~Released(d)
  BY <1>1 DEF Released
<1>3. pc[d] = "idle"
  BY <1>2 DEF Submitted
<1> QED
  BY <1>3 DEF Results, After

LEMMA GoesForward ==
  ASSUME TasksType, Results, Submitted, Prepared, Skipping, Begun, [Next]_vars
  PROVE  Forward
<1>1. CASE Still
  BY <1>1 DEF Still, Forward, IsReady, local
<1>2. ASSUME NEW d \in Tasks, Fresh(d) PROVE Forward
  BY <1>2 DEF Fresh, Forward, TasksType, After, local
<1>3. ASSUME NEW t \in Tasks, Step(t) PROVE Forward
  <2>0. /\ pc \in [Tasks -> Labels] /\ todo \in [Tasks -> SUBSET Tasks]
        /\ state \in [Tasks -> {"pending", "running", "value", "exception"}]
    BY DEF TasksType
  <2>1. CASE Start(t)
    BY <2>0, <2>1 DEF Start, Goto, Forward, After, IsReady, local
  <2>2. CASE Execute(t)
    <3>1. ~IsReady(t)
      BY <2>2 DEF Execute, Results, IsReady, After
    <3> QED
      BY <2>0, <2>2, <3>1 DEF Execute, Goto, Forward, After, IsReady, local
  <2>3. CASE Moves(t)
    <3>1. /\ UNCHANGED <<state, todo>> /\ pc[t] \in After
          /\ \E l \in After : pc' = [pc EXCEPT ![t] = l]
      BY <2>3, MoveStep DEF graph, local, To
    <3> QED
      BY <2>0, <3>1 DEF Forward, After
  <2>4. ASSUME NEW c \in Tasks, NotYet(t, c) \/ SkipChild(t, c) \/ ReadyChild(t, c)
        PROVE  Forward
    <3>1. /\ pc[t] = "children" /\ UNCHANGED state
          /\ todo' = [todo EXCEPT ![t] = @ \ {c}]
          /\ \E l \in After : pc' = [pc EXCEPT ![t] = l]
      <4>1. CASE NotYet(t, c)
        <5>1. pc[t] = "children" /\ UNCHANGED <<state, pc>>
              /\ todo' = [todo EXCEPT ![t] = @ \ {c}]
          BY <4>1 DEF NotYet, CountDown
        <5>2. pc' = [pc EXCEPT ![t] = "children"]
          BY <2>0, <5>1
        <5> QED
          BY <5>1, <5>2 DEF After
      <4>2. CASE SkipChild(t, c)
        BY <4>2 DEF SkipChild, CountDown, Goto, After
      <4>3. CASE ReadyChild(t, c)
        BY <4>3 DEF ReadyChild, CountDown, Goto, After
      <4> QED
        BY <2>4, <4>1, <4>2, <4>3
    <3> QED
      BY <2>0, <3>1 DEF Forward, After
  <2>5. CASE SubmitChild(t)
    <3>1. child[t] \in Tasks /\ pc[child[t]] = "idle" /\ pc[t] = "prepare"
      BY <2>5 DEF SubmitChild, Prepared
    <3> QED
      BY <2>0, <2>5, <3>1 DEF SubmitChild, Forward, After, local
  <2>6. CASE RejectInput(t)
    <3>1. child[t] \in Tasks /\ ~IsReady(child[t])
      BY <2>6 DEF RejectInput, Prepared, IsReady
    <3> QED
      BY <2>0, <2>6, <3>1 DEF RejectInput, Goto, Forward, After, local, IsReady
  <2>7. ASSUME NEW d \in Tasks, SkipVisit(t, d) PROVE Forward
    <3>1. /\ pc[t] = "skip" /\ UNCHANGED <<state, todo>>
          /\ \E l \in After : pc' = [pc EXCEPT ![t] = l]
      <4>1. CASE IsReady(d)
        <5>1. pc[t] = "skip" /\ UNCHANGED <<state, todo, pc>>
          BY <2>7, <4>1 DEF SkipVisit, graph
        <5>2. pc' = [pc EXCEPT ![t] = "skip"]
          BY <2>0, <5>1
        <5> QED
          BY <5>1, <5>2 DEF After
      <4>2. CASE ~IsReady(d)
        BY <2>7, <4>2 DEF SkipVisit, graph, Goto, After
      <4> QED
        BY <4>1, <4>2
    <3> QED
      BY <2>0, <3>1 DEF Forward, After
  <2>8. CASE SkipSet(t)
    <3>1. child[t] \in Tasks /\ FailedParent(child[t])
      BY <2>8 DEF SkipSet, Skipping
    <3>2. state[child[t]] # "value"
      BY <3>1, ValueNotSkipped
    <3> QED
      BY <2>0, <2>8, <3>1, <3>2 DEF SkipSet, Goto, Forward, After, IsReady
  <2> QED
    BY <1>3, <2>1, <2>2, <2>3, <2>4, <2>5, <2>6, <2>7, <2>8 DEF Step
<1> QED
  BY <1>1, <1>2, <1>3, Cases

\* What was released stays released, who had a failed parent has one.
LEMMA Lasting ==
  ASSUME TasksType, Forward, NEW t \in Tasks
  PROVE  /\ Released(t) => Released(t)'
         /\ FailedParent(t) => FailedParent(t)'
         /\ (\A p \in Parents[t] : t \notin todo[p]) =>
               \A p \in Parents[t] : t \notin todo'[p]
<1>1. Parents[t] \subseteq Tasks
  BY ParentsFinite
<1> QED
  BY <1>1 DEF Forward, Released, FailedParent, IsReady

\* A task that is submitted for the first time has no result.
LEMMA FreshPending ==
  ASSUME TasksType, Results, Rejected, NEW d \in Tasks, Fresh(d)
  PROVE  state[d] = "pending"
<1>1. pc[d] = "idle" /\ Parents[d] = {}
  BY DEF Fresh
<1>2. ~FailedParent(d)
  BY <1>1 DEF FailedParent
<1>3. state[d] \in {"pending", "running", "value", "exception"}
  BY DEF TasksType
<1> QED
  BY <1>1, <1>2, <1>3 DEF Rejected, Results, After

LEMMA ResultsStep ==
  ASSUME TasksType, Results, Submitted, Prepared, Skipping, Rejected, Begun,
         [Next]_vars
  PROVE  Results'
<1>0. /\ pc \in [Tasks -> Labels]
      /\ state \in [Tasks -> {"pending", "running", "value", "exception"}]
  BY DEF TasksType
<1>1. CASE Still
  BY <1>1 DEF Still, Results, IsReady
<1>2. ASSUME NEW d \in Tasks, Fresh(d) PROVE Results'
  <2>1. pc[d] = "idle" /\ pc' = [pc EXCEPT ![d] = "queued"] /\ state' = state
    BY <1>2 DEF Fresh
  <2>2. state[d] = "pending"
    BY <1>2, FreshPending
  <2> QED
    BY <1>0, <2>1, <2>2 DEF Results, After, Visiting, IsReady
<1>3. ASSUME NEW t \in Tasks, Step(t) PROVE Results'
  <2>1. CASE Start(t)
    <3>1. ~IsReady(t)
      BY <1>0, <2>1 DEF Start, Results, IsReady, After
    <3> QED
      BY <1>0, <2>1, <3>1 DEF Start, Goto, Results, After, Visiting, IsReady
  <2>2. CASE Execute(t)
    BY <1>0, <2>2 DEF Execute, Goto, Results, After, Visiting, IsReady
  <2>3. CASE Moves(t)
    <3>1. state' = state /\ pc[t] \in After /\ \E l : To(t, l)
      BY <2>3, MoveStep DEF graph
    <3>2. PICK l \in After : /\ pc' = [pc EXCEPT ![t] = l]
                             /\ l \in Visiting /\ FailFast => state[t] = "value"
      BY <3>1 DEF To
    <3>3. /\ IsReady(t) /\ "idle" \notin After /\ "running" \notin After
      BY <3>1 DEF Results, After
    <3> QED
      BY <1>0, <3>1, <3>2, <3>3 DEF Results, IsReady
  <2>4. ASSUME NEW c \in Tasks, NotYet(t, c) \/ SkipChild(t, c) \/ ReadyChild(t, c)
        PROVE  Results'
    <3>1. /\ pc[t] = "children" /\ state' = state
          /\ pc' \in {pc, [pc EXCEPT ![t] = "skip"], [pc EXCEPT ![t] = "prepare"]}
      BY <2>4 DEF NotYet, SkipChild, ReadyChild, CountDown, Goto
    <3> QED
      BY <1>0, <3>1 DEF Results, IsReady, After, Visiting
  <2>5. CASE SubmitChild(t)
    <3>1. /\ child[t] \in Tasks /\ pc[child[t]] = "idle" /\ pc[t] = "prepare"
          /\ state[child[t]] = "pending" /\ state' = state
          /\ pc' = [pc EXCEPT ![t] = "children", ![child[t]] = "queued"]
      BY <2>5 DEF SubmitChild, Prepared
    <3> QED
      BY <1>0, <3>1 DEF Results, IsReady, After, Visiting
  <2>6. CASE RejectInput(t)
    <3>1. /\ child[t] \in Tasks /\ pc[child[t]] = "idle" /\ pc[t] = "prepare"
          /\ state' = [state EXCEPT ![child[t]] = "exception"]
          /\ pc' = [pc EXCEPT ![t] = "childerror"]
      BY <2>6 DEF RejectInput, Prepared, Goto
    <3> QED
      BY <1>0, <3>1 DEF Results, IsReady, After, Visiting
  <2>7. ASSUME NEW d \in Tasks, SkipVisit(t, d) PROVE Results'
    <3>1. /\ pc[t] = "skip" /\ state' = state
          /\ pc' \in {pc, [pc EXCEPT ![t] = "skipset"]}
      BY <2>7 DEF SkipVisit, graph, Goto
    <3> QED
      BY <1>0, <3>1 DEF Results, IsReady, After, Visiting
  <2>8. CASE SkipSet(t)
    <3>1. child[t] \in Tasks /\ FailedParent(child[t])
      BY <2>8 DEF SkipSet, Skipping
    <3>2. pc[child[t]] = "idle"
      BY <3>1, ValueNotSkipped
    <3>3. /\ pc[t] = "skipset" /\ pc' = [pc EXCEPT ![t] = "skip"]
          /\ state' = [state EXCEPT ![child[t]] = "exception"]
      BY <2>8 DEF SkipSet, Goto
    <3> QED
      BY <1>0, <3>1, <3>2, <3>3 DEF Results, IsReady, After, Visiting
  <2> QED
    BY <1>3, <2>1, <2>2, <2>3, <2>4, <2>5, <2>6, <2>7, <2>8 DEF Step
<1> QED
  BY <1>1, <1>2, <1>3, Cases

LEMMA CountedDownStep ==
  ASSUME TasksType, Results, CountedDown, Forward, Begun, [Next]_vars
  PROVE  CountedDown'
<1>0. /\ pc \in [Tasks -> Labels] /\ todo \in [Tasks -> SUBSET Tasks]
  BY DEF TasksType
<1>1. ASSUME NEW t \in Tasks, NEW c \in Children(t) \ todo'[t], c \in todo[t]
      PROVE  pc[t] \in After /\ (FailFast => state[t] = "value")
  <2>1. todo'[t] # todo[t]
    BY <1>1
  <2>2. \E u \in Tasks : Step(u)
    BY <2>1, Cases DEF Still, Fresh, local
  <2>3. PICK u \in Tasks : Step(u)
    BY <2>2
  <2>4. \E d \in Tasks : NotYet(u, d) \/ SkipChild(u, d) \/ ReadyChild(u, d)
    <3>1. ~Moves(u)
      BY <2>1, MoveStep DEF local
    <3> QED
      BY <2>1, <2>3, <3>1 DEF Step, Start, Execute, SubmitChild, RejectInput,
         SkipVisit, SkipSet, local
  <2>5. pc[u] = "children" /\ \E d \in Tasks : todo' = [todo EXCEPT ![u] = @ \ {d}]
    BY <2>4 DEF NotYet, SkipChild, ReadyChild, CountDown
  <2>6. u = t
    BY <1>0, <2>1, <2>5
  <2> QED
    BY <2>5, <2>6 DEF Results, After, Visiting
<1>2. ASSUME NEW t \in Tasks, NEW c \in Children(t) \ todo'[t]
      PROVE  pc'[t] \in After /\ (FailFast => state'[t] = "value")
  <2>1. pc[t] \in After /\ (FailFast => state[t] = "value")
    BY <1>1, <1>2 DEF CountedDown
  <2> QED
    BY <2>1 DEF Forward, IsReady
<1>3. \A t \in Tasks : todo'[t] \subseteq Children(t)
  BY DEF CountedDown, Forward
<1> QED
  BY <1>2, <1>3 DEF CountedDown, Children

\* Whoever leaves "idle" has no parents or was prepared.
LEMMA Leaving ==
  ASSUME TasksType, Results, Prepared, Skipping, Submitted, Begun, [Next]_vars,
         NEW d \in Tasks, pc[d] = "idle", pc'[d] # "idle"
  PROVE  \/ Fresh(d)
         \/ \E t \in Tasks : SubmitChild(t) /\ d = child[t]
<1>0. pc \in [Tasks -> Labels]
  BY DEF TasksType
<1>1. ASSUME NEW e \in Tasks, Fresh(e) PROVE e = d
  BY <1>0, <1>1 DEF Fresh
<1>2. ASSUME NEW t \in Tasks, Step(t) PROVE SubmitChild(t) /\ d = child[t]
  <2>1. ASSUME pc[t] # "idle", NEW l, pc' = [pc EXCEPT ![t] = l] PROVE FALSE
    BY <1>0, <2>1
  <2>2. ~Start(t) /\ ~Execute(t)
    BY <2>1 DEF Start, Execute, Goto
  <2>3. ~Moves(t)
    BY <2>1, MoveStep DEF To, After
  <2>4. ASSUME NEW c \in Tasks, NotYet(t, c) \/ SkipChild(t, c) \/ ReadyChild(t, c)
        PROVE  FALSE
    BY <2>1, <2>4 DEF NotYet, SkipChild, ReadyChild, CountDown, Goto
  <2>5. ~RejectInput(t) /\ ~SkipSet(t)
    BY <2>1 DEF RejectInput, SkipSet, Goto
  <2>6. ASSUME NEW e \in Tasks, SkipVisit(t, e) PROVE FALSE
    BY <2>1, <2>6 DEF SkipVisit, Goto
  <2>7. SubmitChild(t)
    BY <1>2, <2>2, <2>3, <2>4, <2>5, <2>6 DEF Step
  <2>8. pc[t] = "prepare" /\ pc' = [pc EXCEPT ![t] = "children", ![child[t]] = "queued"]
    BY <2>7 DEF SubmitChild
  <2> QED
    BY <1>0, <2>7, <2>8
<1> QED
  BY <1>1, <1>2, Cases DEF Still

LEMMA SubmittedStep ==
  ASSUME TasksType, Results, Prepared, Skipping, Submitted, Begun, Forward,
         [Next]_vars
  PROVE  Submitted'
<1> SUFFICES ASSUME NEW d \in Tasks, pc'[d] # "idle" PROVE Released(d)'
  BY DEF Submitted
<1>1. SUFFICES Released(d)
  BY Lasting
<1>2. CASE pc[d] # "idle"
  BY <1>2 DEF Submitted
<1>3. CASE pc[d] = "idle"
  <2>1. CASE Fresh(d)
    BY <2>1 DEF Fresh, Released
  <2>2. ASSUME NEW t \in Tasks, SubmitChild(t), d = child[t] PROVE Released(d)
    BY <2>2 DEF SubmitChild, Prepared
  <2> QED
    BY <1>3, <2>1, <2>2, Leaving
<1> QED
  BY <1>2, <1>3

\* A child that one worker takes off its list, the last one that has it, has
\* been counted down by everybody else.
LEMMA LastParent ==
  ASSUME TasksType, Results, CountedDown, Counts, Begun,
         NEW t \in Tasks, NEW c \in Tasks, ReadyChild(t, c)
  PROVE  /\ t \in Parents[c] /\ c \in todo[t]
         /\ \A p \in Parents[c] : state[p] = "value" /\ (p = t \/ c \notin todo[p])
<1>1. /\ pc[t] = "children" /\ c \in todo[t] /\ pendingParents[c] = 1
      /\ FailFast \/ ~FailedParent(c)
  BY DEF ReadyChild, CountDown
<1>2. t \in Parents[c] /\ c \in Children(t)
  BY <1>1 DEF CountedDown, Children
<1>3. PICK r \in 1 .. Len(Sources) : Started(r) /\ t \in Graph[r]
  <2>1. t \notin Guests
    BY <1>2, GraphAssumption
  <2> QED
    BY <1>1, <2>1 DEF Begun
<1>4. c \in Graph[r]
  BY <1>2, <1>3, GraphClosed
<1>5. Cardinality(Waiting(c)) = 1
  BY <1>1, <1>3, <1>4 DEF Counts, Started
<1>6. Waiting(c) = {t}
  <2>1. IsFiniteSet(Waiting(c))
    BY ParentsFinite, FS_Subset DEF Waiting
  <2>2. t \in Waiting(c)
    BY <1>1, <1>2 DEF Waiting
  <2>3. \E x : Waiting(c) = {x}
    BY <1>5, <2>1, FS_Singleton
  <2> QED
    BY <2>2, <2>3
<1>7. ASSUME NEW p \in Parents[c], p # t PROVE c \notin todo[p]
  BY <1>6, <1>7 DEF Waiting
<1>8. ASSUME NEW p \in Parents[c] PROVE state[p] = "value"
  <2>1. p \in Tasks
    BY ParentsFinite
  <2>2. IsReady(p) /\ (FailFast => state[p] = "value")
    <3>1. CASE p = t
      BY <1>1, <3>1 DEF Results, After, Visiting
    <3>2. CASE p # t
      <4>1. c \in Children(p) \ todo[p]
        BY <1>7, <3>2 DEF Children
      <4> QED
        BY <2>1, <4>1 DEF CountedDown, Results
    <3> QED
      BY <3>1, <3>2
  <2> QED
    BY <1>1, <2>2 DEF FailedParent, IsReady
<1> QED
  BY <1>1, <1>2, <1>7, <1>8

\* A task whose parents all have a value, and which nobody has on its list,
\* has no result unless it was executed.
LEMMA ReleasedPending ==
  ASSUME TasksType, Results, CountedDown, Counts, Begun, Submitted, Rejected,
         NEW t \in Tasks, NEW c \in Tasks, ReadyChild(t, c)
  PROVE  pc[c] = "idle" /\ state[c] = "pending"
<1>1. /\ t \in Parents[c] /\ c \in todo[t]
      /\ \A p \in Parents[c] : state[p] = "value"
  BY LastParent
<1>2. pc[c] = "idle"
  BY <1>1 DEF Submitted, Released
<1>3. ~FailedParent(c)
  BY <1>1 DEF FailedParent
<1>4. state[c] \in {"pending", "running", "value", "exception"}
  BY DEF TasksType
<1> QED
  BY <1>1, <1>2, <1>3, <1>4 DEF Rejected, Results, After

\* What happens to a child that is being prepared by another worker: nothing.
LEMMA PreparedKept ==
  ASSUME TasksType, Results, Submitted, Prepared, Skipping, Begun, [Next]_vars,
         NEW u \in Tasks, pc[u] = "prepare", pc'[u] = "prepare"
  PROVE  /\ child'[u] = child[u]
         /\ pc'[child[u]] = "idle" /\ state'[child[u]] = "pending"
<1> DEFINE c == child[u]
<1>0. /\ pc \in [Tasks -> Labels]
      /\ state \in [Tasks -> {"pending", "running", "value", "exception"}]
      /\ child \in [Tasks -> Tasks \union {NoTask}]
  BY DEF TasksType
<1>1. /\ c \in Tasks /\ u \in Parents[c] /\ pc[c] = "idle"
      /\ state[c] = "pending" /\ Released(c)
      /\ \A w \in Tasks : pc[w] = "prepare" /\ child[w] = c => w = u
  BY DEF Prepared
<1> HIDE DEF c
<1>2. CASE Still
  BY <1>1, <1>2 DEF Still, local, c
<1>3. ASSUME NEW d \in Tasks, Fresh(d)
      PROVE  child'[u] = c /\ pc'[c] = "idle" /\ state'[c] = "pending"
  BY <1>0, <1>1, <1>3 DEF Fresh, local, c
<1>4. ASSUME NEW t \in Tasks, Step(t)
      PROVE  child'[u] = c /\ pc'[c] = "idle" /\ state'[c] = "pending"
  <2>1. CASE Start(t)
    BY <1>0, <1>1, <2>1 DEF Start, Goto, local, c
  <2>2. CASE Execute(t)
    BY <1>0, <1>1, <2>2 DEF Execute, Goto, local, c
  <2>3. CASE Moves(t)
    <3>1. UNCHANGED <<graph, local>> /\ pc[t] # "idle" /\ \E l : To(t, l)
      BY <2>3, MoveStep DEF After
    <3> QED
      BY <1>0, <1>1, <3>1 DEF graph, local, To, c
  <2>4. ASSUME NEW d \in Tasks, NotYet(t, d) \/ SkipChild(t, d) \/ ReadyChild(t, d)
        PROVE  child'[u] = c /\ pc'[c] = "idle" /\ state'[c] = "pending"
    <3>1. /\ pc[t] = "children" /\ state' = state
          /\ pc' = pc \/ \E l : pc' = [pc EXCEPT ![t] = l]
          /\ child' = child \/ \E x : child' = [child EXCEPT ![t] = x]
      BY <2>4 DEF NotYet, SkipChild, ReadyChild, CountDown, Goto
    <3> QED
      BY <1>0, <1>1, <3>1 DEF c
  <2>5. CASE SubmitChild(t)
    <3>1. /\ pc[t] = "prepare" /\ UNCHANGED <<state, child>>
          /\ pc' = [pc EXCEPT ![t] = "children", ![child[t]] = "queued"]
          /\ child[t] \in Tasks /\ pc[child[t]] = "idle"
      BY <2>5 DEF SubmitChild, local, Prepared
    <3>2. t # u
      BY <1>0, <3>1
    <3>3. child[t] # c
      BY <1>1, <3>1, <3>2
    <3> QED
      BY <1>0, <1>1, <3>1, <3>2, <3>3 DEF c
  <2>6. CASE RejectInput(t)
    <3>1. /\ pc[t] = "prepare" /\ child' = child
          /\ pc' = [pc EXCEPT ![t] = "childerror"]
          /\ state' = [state EXCEPT ![child[t]] = "exception"]
      BY <2>6 DEF RejectInput, local, Goto
    <3>2. t # u
      BY <1>0, <3>1
    <3>3. child[t] # c
      BY <1>1, <3>1, <3>2
    <3> QED
      BY <1>0, <1>1, <3>1, <3>2, <3>3 DEF c
  <2>7. ASSUME NEW d \in Tasks, SkipVisit(t, d)
        PROVE  child'[u] = c /\ pc'[c] = "idle" /\ state'[c] = "pending"
    <3>1. /\ pc[t] = "skip" /\ state' = state
          /\ pc' = pc \/ \E l : pc' = [pc EXCEPT ![t] = l]
          /\ child' = child \/ \E x : child' = [child EXCEPT ![t] = x]
      BY <2>7 DEF SkipVisit, graph, Goto
    <3> QED
      BY <1>0, <1>1, <3>1 DEF c
  <2>8. CASE SkipSet(t)
    <3>1. /\ pc[t] = "skipset" /\ child' = child
          /\ pc' = [pc EXCEPT ![t] = "skip"]
          /\ state' = [state EXCEPT ![child[t]] = "exception"]
          /\ FailedParent(child[t])
      BY <2>8 DEF SkipSet, Goto, Skipping
    <3>2. child[t] # c
      BY <1>1, <3>1 DEF Released, FailedParent
    <3> QED
      BY <1>0, <1>1, <3>1, <3>2 DEF c
  <2> QED
    BY <1>4, <2>1, <2>2, <2>3, <2>4, <2>5, <2>6, <2>7, <2>8 DEF Step
<1> QED
  BY <1>2, <1>3, <1>4, Cases DEF c

\* The only step that begins to prepare an input.
LEMMA Preparing ==
  ASSUME TasksType, Results, Prepared, Begun, [Next]_vars,
         NEW u \in Tasks, pc[u] # "prepare", pc'[u] = "prepare"
  PROVE  \E c \in Tasks : ReadyChild(u, c)
<1>0. pc \in [Tasks -> Labels]
  BY DEF TasksType
<1>1. ASSUME NEW d \in Tasks PROVE ~Fresh(d)
  BY <1>0 DEF Fresh
<1>2. ASSUME NEW t \in Tasks, Step(t)
      PROVE  \E c \in Tasks : ReadyChild(u, c)
  <2>1. ASSUME NEW l, l # "prepare", pc' = [pc EXCEPT ![t] = l] PROVE FALSE
    BY <1>0, <2>1
  <2>2. ~Start(t) /\ ~Execute(t)
    BY <2>1 DEF Start, Execute, Goto
  <2>3. ~Moves(t)
    BY <2>1, MoveStep DEF To
  <2>4. ~RejectInput(t) /\ ~SkipSet(t)
    BY <2>1 DEF RejectInput, SkipSet, Goto
  <2>5. ~SubmitChild(t)
    BY <1>0 DEF SubmitChild, Prepared
  <2>6. ASSUME NEW e \in Tasks
        PROVE  ~SkipVisit(t, e) /\ ~NotYet(t, e) /\ ~SkipChild(t, e)
    BY <2>1 DEF SkipVisit, NotYet, SkipChild, Goto
  <2>7. PICK c \in Tasks : ReadyChild(t, c)
    BY <1>2, <2>2, <2>3, <2>4, <2>5, <2>6 DEF Step
  <2>8. pc' = [pc EXCEPT ![t] = "prepare"]
    BY <2>7 DEF ReadyChild, Goto
  <2>9. t = u
    BY <1>0, <2>8
  <2> QED
    BY <2>7, <2>9
<1> QED
  BY <1>1, <1>2, Cases DEF Still

LEMMA PreparedStep ==
  ASSUME TasksType, Results, CountedDown, Submitted, Prepared, Skipping,
         Rejected, Counts, Begun, Forward, [Next]_vars
  PROVE  Prepared'
<1>0. /\ pc \in [Tasks -> Labels] /\ todo \in [Tasks -> SUBSET Tasks]
      /\ child \in [Tasks -> Tasks \union {NoTask}]
  BY DEF TasksType
<1> DEFINE Held(u, c) == /\ c \in Tasks /\ u \in Parents[c]
                         /\ pc'[c] = "idle" /\ state'[c] = "pending"
                         /\ \A p \in Parents[c] :
                              state'[p] = "value" /\ c \notin todo'[p]
\* One that goes on.
<1>1. ASSUME NEW u \in Tasks, pc[u] = "prepare", pc'[u] = "prepare"
      PROVE  child'[u] = child[u] /\ Held(u, child[u]) /\ Released(child[u])
  <2>1. /\ child[u] \in Tasks /\ u \in Parents[child[u]] /\ Released(child[u])
    BY <1>1 DEF Prepared
  <2>2. \A p \in Parents[child[u]] : state'[p] = "value" /\ child[u] \notin todo'[p]
    <3>1. Parents[child[u]] \subseteq Tasks
      BY <2>1, ParentsFinite
    <3> QED
      BY <2>1, <3>1 DEF Released, Forward, IsReady
  <2> QED
    BY <1>1, <2>1, <2>2, PreparedKept
\* One that begins.
<1>2. ASSUME NEW u \in Tasks, pc[u] # "prepare", pc'[u] = "prepare"
      PROVE  Held(u, child'[u]) /\ ~Released(child'[u])
             /\ \A w \in Tasks : pc'[w] = "prepare" => w = u \/ pc[w] = "prepare"
  <2>1. PICK c \in Tasks : ReadyChild(u, c)
    BY <1>2, Preparing
  <2>2. /\ child' = [child EXCEPT ![u] = c] /\ todo' = [todo EXCEPT ![u] = @ \ {c}]
        /\ state' = state /\ pc' = [pc EXCEPT ![u] = "prepare"] /\ pc[u] = "children"
    BY <2>1 DEF ReadyChild, CountDown, Goto
  <2>3. /\ u \in Parents[c] /\ c \in todo[u]
        /\ \A p \in Parents[c] : state[p] = "value" /\ (p = u \/ c \notin todo[p])
    BY <2>1, LastParent
  <2>4. pc[c] = "idle" /\ state[c] = "pending"
    BY <2>1, ReleasedPending
  <2>5. child'[u] = c /\ pc'[c] = "idle" /\ state'[c] = "pending"
    BY <1>0, <2>2, <2>4
  <2>6. \A p \in Parents[c] : state'[p] = "value" /\ c \notin todo'[p]
    <3>1. Parents[c] \subseteq Tasks
      BY ParentsFinite
    <3> QED
      BY <1>0, <2>2, <2>3, <3>1
  <2>7. Held(u, c)
    BY <2>3, <2>5, <2>6
  <2>8. ~Released(c)
    BY <2>3 DEF Released
  <2>9. \A w \in Tasks : pc'[w] = "prepare" => w = u \/ pc[w] = "prepare"
    BY <1>0, <2>2
  <2> HIDE DEF Held
  <2> QED
    BY <2>5, <2>7, <2>8, <2>9
<1>3. ASSUME NEW u \in Tasks, pc'[u] = "prepare",
             NEW w \in Tasks, pc'[w] = "prepare", child'[w] = child'[u]
      PROVE  w = u
  <2>1. CASE pc[u] = "prepare" /\ pc[w] = "prepare"
    <3>1. child[w] = child[u]
      BY <1>1, <1>3, <2>1
    <3> QED
      BY <2>1, <3>1 DEF Prepared
  <2>2. CASE pc[u] # "prepare"
    <3>1. w # u => pc[w] = "prepare" /\ ~Released(child'[u])
      BY <1>2, <1>3, <2>2
    <3>2. pc[w] = "prepare" => child'[w] = child[w] /\ Released(child[w])
      BY <1>1, <1>3
    <3> QED
      BY <1>3, <3>1, <3>2
  <2>3. CASE pc[w] # "prepare"
    <3>1. w # u => pc[u] = "prepare" /\ ~Released(child'[w])
      BY <1>2, <1>3, <2>3
    <3>2. pc[u] = "prepare" => child'[u] = child[u] /\ Released(child[u])
      BY <1>1, <1>3
    <3> QED
      BY <1>3, <3>1, <3>2
  <2> QED
    BY <2>1, <2>2, <2>3
<1>4. ASSUME NEW u \in Tasks, pc'[u] = "prepare" PROVE Held(u, child'[u])
  BY <1>1, <1>2, <1>4
<1> QED
  BY <1>3, <1>4 DEF Prepared, Released

\* The steps that put tasks on a list to be skipped, or take one from it.
LEMMA SkippingStep ==
  ASSUME TasksType, Results, Submitted, Skipping, Prepared, Begun, Forward,
         [Next]_vars
  PROVE  Skipping'
<1>0. /\ pc \in [Tasks -> Labels] /\ skip \in [Tasks -> SUBSET Tasks]
      /\ child \in [Tasks -> Tasks \union {NoTask}]
      /\ state \in [Tasks -> {"pending", "running", "value", "exception"}]
  BY DEF TasksType
<1> DEFINE Failed(d) == d \in Tasks /\ \E p \in Parents[d] : state'[p] = "exception"
<1>1. \A d \in Tasks : FailedParent(d) => Failed(d)
  <2> TAKE d \in Tasks
  <2>1. Parents[d] \subseteq Tasks
    BY ParentsFinite
  <2> QED
    BY <2>1 DEF FailedParent, Forward, IsReady
<1>2. \A t \in Tasks : /\ \A d \in skip[t] : Failed(d)
                       /\ pc[t] = "skipset" => Failed(child[t])
  BY <1>0, <1>1 DEF Skipping
<1>3. SUFFICES \A t \in Tasks : /\ \A d \in skip'[t] : Failed(d)
                                /\ pc'[t] = "skipset" => Failed(child'[t])
  BY DEF Skipping, FailedParent
<1> HIDE DEF Failed
<1> DEFINE Goal == \A t \in Tasks : /\ \A d \in skip'[t] : Failed(d)
                                    /\ pc'[t] = "skipset" => Failed(child'[t])
<1>4. CASE Still
  BY <1>2, <1>4 DEF Still, local
<1>5. ASSUME NEW d \in Tasks, Fresh(d) PROVE Goal
  BY <1>0, <1>2, <1>5 DEF Fresh, local
<1>6. ASSUME NEW t \in Tasks, Step(t) PROVE Goal
  <2>0. ASSUME UNCHANGED <<skip, child>>,
               NEW l, l # "skipset", pc' = [pc EXCEPT ![t] = l]
        PROVE  Goal
    BY <1>0, <1>2, <2>0
  <2>1. CASE Start(t) \/ Execute(t) \/ RejectInput(t)
    BY <2>0, <2>1 DEF Start, Execute, RejectInput, Goto, local
  <2>2. CASE Moves(t)
    BY <2>0, <2>2, MoveStep DEF To, local
  <2>3. ASSUME NEW c \in Tasks, NotYet(t, c) \/ SkipChild(t, c) \/ ReadyChild(t, c)
        PROVE  Goal
    <3>1. CASE NotYet(t, c)
      BY <1>2, <3>1 DEF NotYet
    <3>2. CASE SkipChild(t, c)
      <4>1. /\ pc' = [pc EXCEPT ![t] = "skip"] /\ skip' = [skip EXCEPT ![t] = {c}]
            /\ child' = child /\ FailedParent(c)
        BY <3>2 DEF SkipChild, Goto
      <4> QED
        BY <1>0, <1>1, <1>2, <4>1
    <3>3. CASE ReadyChild(t, c)
      <4>1. /\ pc' = [pc EXCEPT ![t] = "prepare"] /\ skip' = skip
            /\ child' = [child EXCEPT ![t] = c]
        BY <3>3 DEF ReadyChild, Goto
      <4> QED
        BY <1>0, <1>2, <4>1
    <3> QED
      BY <2>3, <3>1, <3>2, <3>3
  <2>4. CASE SubmitChild(t)
    <3>1. /\ pc' = [pc EXCEPT ![t] = "children", ![child[t]] = "queued"]
          /\ UNCHANGED <<skip, child>>
      BY <2>4 DEF SubmitChild, local
    <3> QED
      BY <1>0, <1>2, <3>1
  <2>5. ASSUME NEW d \in Tasks, SkipVisit(t, d) PROVE Goal
    <3>1. d \in skip[t] /\ skip' = [skip EXCEPT ![t] = @ \ {d}]
      BY <2>5 DEF SkipVisit
    <3>2. CASE IsReady(d)
      <4>1. UNCHANGED <<pc, child>>
        BY <2>5, <3>2 DEF SkipVisit
      <4> QED
        BY <1>0, <1>2, <3>1, <4>1
    <3>3. CASE ~IsReady(d)
      <4>1. pc' = [pc EXCEPT ![t] = "skipset"] /\ child' = [child EXCEPT ![t] = d]
        BY <2>5, <3>3 DEF SkipVisit, Goto
      <4> QED
        BY <1>0, <1>2, <3>1, <4>1
    <3> QED
      BY <3>2, <3>3
  <2>6. CASE SkipSet(t)
    <3>1. /\ pc[t] = "skipset" /\ pc' = [pc EXCEPT ![t] = "skip"]
          /\ child' = child /\ state' = [state EXCEPT ![child[t]] = "exception"]
          /\ skip' = [skip EXCEPT ![t] = @ \union Children(child[t])]
          /\ child[t] \in Tasks
      BY <2>6 DEF SkipSet, Goto, Skipping
    <3>2. \A d \in Children(child[t]) : Failed(d)
      BY <1>0, <3>1 DEF Children, Failed
    <3> QED
      BY <1>0, <1>2, <3>1, <3>2
  <2> QED
    BY <1>6, <2>1, <2>2, <2>3, <2>4, <2>5, <2>6 DEF Step
<1> QED
  BY <1>4, <1>5, <1>6, Cases

\* An exception without an execution: the combiner, or the skip.
LEMMA Failing ==
  ASSUME TasksType, Prepared, Skipping, Results, Begun, [Next]_vars,
         NEW d \in Tasks, state[d] # "exception", state'[d] = "exception",
         pc'[d] = "idle"
  PROVE  \/ FailedParent(d)
         \/ Parents[d] # {} /\ \A p \in Parents[d] : d \notin todo[p]
<1>0. /\ pc \in [Tasks -> Labels]
      /\ state \in [Tasks -> {"pending", "running", "value", "exception"}]
  BY DEF TasksType
<1>1. ASSUME NEW e \in Tasks PROVE ~Fresh(e)
  BY DEF Fresh
<1>2. ASSUME NEW t \in Tasks, Step(t)
      PROVE  (RejectInput(t) \/ SkipSet(t)) /\ d = child[t]
  <2>1. ~Start(t)
    BY <1>0 DEF Start, Goto
  <2>2. ~Execute(t)
    <3>1. SUFFICES ASSUME Execute(t) PROVE FALSE
      OBVIOUS
    <3>2. pc' = [pc EXCEPT ![t] = "completed"]
          /\ \E x : state' = [state EXCEPT ![t] = x]
      BY <3>1 DEF Execute, Goto
    <3> QED
      BY <1>0, <3>2
  <2>3. ~Moves(t)
    BY MoveStep DEF graph
  <2>4. ~SubmitChild(t)
    BY DEF SubmitChild
  <2>5. ASSUME NEW e \in Tasks
        PROVE  ~SkipVisit(t, e) /\ ~NotYet(t, e) /\ ~SkipChild(t, e)
               /\ ~ReadyChild(t, e)
    BY DEF SkipVisit, NotYet, SkipChild, ReadyChild, CountDown, graph
  <2>6. RejectInput(t) \/ SkipSet(t)
    BY <1>2, <2>1, <2>2, <2>3, <2>4, <2>5 DEF Step
  <2>7. state' = [state EXCEPT ![child[t]] = "exception"]
    BY <2>6 DEF RejectInput, SkipSet
  <2> QED
    BY <1>0, <2>6, <2>7
<1>3. PICK t \in Tasks : (RejectInput(t) \/ SkipSet(t)) /\ d = child[t]
  BY <1>1, <1>2, Cases DEF Still
<1>4. CASE RejectInput(t)
  BY <1>3, <1>4 DEF RejectInput, Prepared, Released
<1>5. CASE SkipSet(t)
  BY <1>3, <1>5 DEF SkipSet, Skipping
<1> QED
  BY <1>3, <1>4, <1>5

LEMMA RejectedStep ==
  ASSUME TasksType, Prepared, Skipping, Results, Rejected, Begun, Forward,
         [Next]_vars
  PROVE  Rejected'
<1> SUFFICES ASSUME NEW d \in Tasks, pc'[d] = "idle", state'[d] = "exception"
             PROVE  \/ FailedParent(d)'
                    \/ Parents[d] # {} /\ \A p \in Parents[d] : d \notin todo'[p]
  BY DEF Rejected
<1>1. \/ FailedParent(d)
      \/ Parents[d] # {} /\ \A p \in Parents[d] : d \notin todo[p]
  <2>1. CASE state[d] = "exception"
    BY <2>1 DEF Rejected, Forward
  <2>2. CASE state[d] # "exception"
    BY <2>2, Failing
  <2> QED
    BY <2>1, <2>2
<1> QED
  BY <1>1, Lasting

-----------------------------------------------------------------------------
\* The calls of schedule() go on in order.
LEMMA CallStep ==
  ASSUME [Next]_vars
  PROVE  \/ Reset
         \/ /\ round' = round
            /\ \/ InitializePendingCounts \/ SubmitSource \/ mpc' = mpc
               \/ /\ mpc \notin {"initialize", "submit"}
                  /\ mpc' \notin {"initialize", "submit"}
<1> USE DEF main
<1>1. CASE Main
  BY <1>1 DEF Main, InitializePendingCounts, SubmitSource, Wait, Stop, Get, Returned
<1>2. CASE TimeOut \/ Interrupt \/ Expire \/ Alarm
  BY <1>2 DEF TimeOut, Interrupt, Expire, Alarm, SetReason, SetShutdown,
     NotifyShutdown, Wake
<1>3. ASSUME NEW t \in Tasks, Worker(t)
      PROVE  /\ round' = round
             /\ \/ mpc' = mpc
                \/ /\ mpc \notin {"initialize", "submit"}
                   /\ mpc' \notin {"initialize", "submit"}
  <2>1. CASE NotifyError(t) \/ NotifyDone(t)
    BY <2>1 DEF NotifyError, NotifyDone, Wake
  <2>2. CASE ~(NotifyError(t) \/ NotifyDone(t))
    BY <1>3, <2>2 DEF Worker, Start, Execute, OnTaskCompleted, HandleTaskError,
       Check, NotYet, SkipChild, ReadyChild, CountDown, SubmitChild, RejectInput,
       SkipVisit, SkipSet, SkipDone, ChildrenDone, Report, CountOut
  <2> QED
    BY <2>1, <2>2
<1>4. ASSUME NEW t \in Tasks, NEW d \in Tasks, SubmitDynamicTask(t, d)
      PROVE  round' = round /\ mpc' = mpc
  BY <1>4 DEF SubmitDynamicTask
<1>5. CASE Terminating \/ UNCHANGED vars
  BY <1>5 DEF Terminating, vars
<1> QED
  BY <1>1, <1>2, <1>3, <1>4, <1>5 DEF Next

LEMMA CallsStay ==
  ASSUME MainType, [Next]_vars, NEW r \in 1 .. Len(Sources)
  PROVE  /\ Started(r) => Started(r)'
         /\ InitializePendingCounts \/ (Initialized(r)' => Initialized(r))
<1>1. round \in Nat /\ r \in Nat
  BY SchedulerAssumption DEF MainType
<1>2. CASE Reset
  BY <1>1, <1>2 DEF Reset, Started, Initialized
<1>3. CASE InitializePendingCounts \/ SubmitSource
  BY <1>1, <1>3 DEF InitializePendingCounts, SubmitSource, Started, Initialized
<1>4. CASE round' = round /\ \/ mpc' = mpc
                             \/ /\ mpc \notin {"initialize", "submit"}
                                /\ mpc' \notin {"initialize", "submit"}
  BY <1>1, <1>4 DEF Started, Initialized
<1> QED
  BY <1>2, <1>3, <1>4, CallStep

LEMMA BegunStep ==
  ASSUME TasksType, MainType, Results, CountedDown, Submitted, Prepared, Skipping,
         Begun, [Next]_vars
  PROVE  Begun'
<1>1. mpc' # "idle" => round' \in 1 .. Len(Sources)
  <2>1. CASE Reset
    BY <2>1 DEF Reset, MainType
  <2>2. CASE round' = round /\ (mpc' # "idle" => mpc # "idle")
    BY <2>2 DEF Begun
  <2>3. round' = round /\ mpc' # "idle" => mpc # "idle" \/ Reset
    <3>1. ASSUME Main, mpc' # "idle" PROVE mpc # "idle" \/ Reset
      BY <3>1 DEF Main, InitializePendingCounts, SubmitSource, Wait, Stop, Get,
         Returned
    <3>2. ASSUME Next, ~Main, mpc = "idle" PROVE mpc' = "idle"
      <4>1. ASSUME NEW t \in Tasks, Worker(t) PROVE mpc' = "idle"
        <5>1. CASE NotifyError(t) \/ NotifyDone(t)
          BY <3>2, <5>1 DEF NotifyError, NotifyDone, Wake
        <5>2. CASE ~(NotifyError(t) \/ NotifyDone(t))
          BY <3>2, <4>1, <5>2 DEF Worker, Start, Execute, OnTaskCompleted,
             HandleTaskError, Check, NotYet, SkipChild, ReadyChild, CountDown,
             SubmitChild, RejectInput, SkipVisit, SkipSet, SkipDone,
             ChildrenDone, Report, CountOut, main
        <5> QED
          BY <5>1, <5>2
      <4> QED
        BY <3>2, <4>1 DEF Next, TimeOut, Interrupt, Expire, Alarm, SetReason,
           SetShutdown, NotifyShutdown, Wake, SubmitDynamicTask, Terminating,
           vars, main
    <3>3. UNCHANGED vars => mpc' = mpc
      BY DEF vars, main
    <3> QED
      BY <3>1, <3>2, <3>3
  <2> QED
    BY <2>1, <2>2, <2>3, CallStep
<1> DEFINE In(d) == \E r \in 1 .. Len(Sources) : Started(r)' /\ d \in Graph[r]
<1>2. ASSUME NEW d \in Tasks, pc'[d] # "idle", d \notin Guests PROVE In(d)
  <2>1. CASE pc[d] # "idle"
    <3>1. PICK r \in 1 .. Len(Sources) : Started(r) /\ d \in Graph[r]
      BY <1>2, <2>1 DEF Begun
    <3> QED
      BY <3>1, CallsStay
  <2>2. CASE pc[d] = "idle"
    <3>1. ASSUME NEW t \in Tasks, SubmitChild(t), d = child[t] PROVE In(d)
      <4>1. pc[t] = "prepare" /\ t \in Parents[d]
        BY <3>1 DEF SubmitChild, Prepared
      <4>2. d \in Children(t)
        BY <4>1 DEF Children
      <4>3. t \notin Guests
        BY <4>2, GraphAssumption
      <4>4. PICK r \in 1 .. Len(Sources) : Started(r) /\ t \in Graph[r]
        BY <4>1, <4>3 DEF Begun
      <4>5. d \in Graph[r]
        BY <4>2, <4>4, GraphClosed
      <4> QED
        BY <4>4, <4>5, CallsStay
    <3>2. ASSUME SubmitSource, d = Sources[round] PROVE In(d)
      <4>1. mpc = "submit" /\ mpc' = "wait" /\ round' = round
        BY <3>2 DEF SubmitSource
      <4>2. round \in 1 .. Len(Sources)
        BY <4>1, SourceIdle
      <4>3. d \in Graph[round]
        BY <3>2, <4>2, GraphClosed
      <4> QED
        BY <4>1, <4>2, <4>3 DEF Started, Initialized
    <3> QED
      BY <1>2, <2>2, <3>1, <3>2, Leaving DEF Fresh
  <2> QED
    BY <2>1, <2>2
<1> QED
  BY <1>1, <1>2 DEF Begun

LEMMA CountsStep ==
  ASSUME TasksType, MainType, Results, CountedDown, Submitted, Counts, Begun,
         [Next]_vars
  PROVE  Counts'
<1>0. /\ pendingParents \in [Tasks -> Int] /\ todo \in [Tasks -> SUBSET Tasks]
      /\ round \in Nat
  BY SchedulerAssumption DEF TasksType, MainType
<1> DEFINE Left(t) == {p \in Parents[t] : t \in todo'[p]}
<1>1. SUFFICES ASSUME NEW r \in 1 .. Len(Sources), Initialized(r)', NEW t \in Graph[r]
               PROVE  pendingParents'[t] = Cardinality(Left(t))
  BY DEF Counts, Waiting
<1>2. t \in Tasks
  BY GraphClosed
<1>3. CASE UNCHANGED <<pendingParents, todo>> /\ ~InitializePendingCounts
  <2>1. Initialized(r)
    BY <1>1, <1>3, CallsStay
  <2> QED
    BY <1>3, <2>1 DEF Counts, Waiting
<1>4. CASE InitializePendingCounts
  <2>1. /\ mpc = "initialize" /\ mpc' = "submit" /\ UNCHANGED <<round, todo>>
        /\ pendingParents' =
             [x \in Tasks |-> IF x \in Graph[round]
                              THEN Cardinality(Parents[x]) ELSE pendingParents[x]]
    BY <1>4 DEF InitializePendingCounts, local
  <2>2. round \in 1 .. Len(Sources)
    BY <2>1 DEF Begun
  <2>3. CASE r = round
    <3>1. ASSUME NEW p \in Parents[t], t \notin todo[p] PROVE FALSE
      <4>1. p \in Tasks /\ t \in Children(p) \ todo[p]
        BY <1>2, <3>1, ParentsFinite DEF Children
      <4>2. pc[p] # "idle"
        BY <4>1 DEF CountedDown, After
      <4>3. p \notin Guests
        BY <4>1, GraphAssumption
      <4>4. PICK i \in 1 .. Len(Sources) : Started(i) /\ p \in Graph[i]
        BY <4>1, <4>2, <4>3 DEF Begun
      <4>5. t \in Graph[i]
        BY <4>1, <4>4, GraphClosed
      <4>6. i = round
        BY <2>3, <4>5, GraphsDisjoint
      <4> QED
        BY <2>1, <4>4, <4>6 DEF Started, Initialized
    <3>2. Left(t) = Parents[t]
      BY <2>1, <3>1
    <3> QED
      BY <1>2, <2>1, <2>3, <3>2
  <2>4. CASE r # round
    <3>1. t \notin Graph[round]
      BY <2>2, <2>4, GraphsDisjoint
    <3>2. Initialized(r)
      BY <1>1, <2>1, <2>4 DEF Initialized
    <3> QED
      BY <1>2, <2>1, <3>1, <3>2 DEF Counts, Waiting
  <2> QED
    BY <2>3, <2>4
<1>5. ASSUME NEW u \in Tasks, NEW d \in Tasks, SubmitDynamicTask(u, d)
      PROVE  pendingParents'[t] = Cardinality(Left(t))
  <2>1. /\ pendingParents' = [pendingParents EXCEPT ![d] = Cardinality(Parents[d])]
        /\ todo' = todo /\ d \in Guests /\ Parents[d] = {}
        /\ UNCHANGED <<round, mpc>>
    BY <1>5, GuestFree DEF SubmitDynamicTask, local, main
  <2>2. Initialized(r)
    BY <1>1, <2>1 DEF Initialized
  <2>3. pendingParents[t] = Cardinality(Left(t))
    BY <2>1, <2>2 DEF Counts, Waiting
  <2>4. CASE t = d
    <3>1. Left(t) = {}
      BY <2>1, <2>4
    <3> QED
      BY <1>0, <1>2, <2>1, <2>4, <3>1
  <2>5. CASE t # d
    BY <1>0, <1>2, <2>1, <2>3, <2>5
  <2> QED
    BY <2>4, <2>5
<1>6. ASSUME NEW u \in Tasks, NEW c \in Tasks, CountDown(u, c)
      PROVE  pendingParents'[t] = Cardinality(Left(t))
  <2>1. /\ pendingParents' = [pendingParents EXCEPT ![c] = @ - 1]
        /\ todo' = [todo EXCEPT ![u] = @ \ {c}] /\ c \in todo[u]
        /\ UNCHANGED <<round, mpc>>
    BY <1>6 DEF CountDown, main
  <2>2. Initialized(r)
    BY <1>1, <2>1 DEF Initialized
  <2>3. pendingParents[t] = Cardinality(Waiting(t))
    BY <2>2 DEF Counts
  <2>4. CASE t = c
    <3>1. u \in Parents[c]
      BY <2>1 DEF CountedDown, Children
    <3>2. Left(t) = Waiting(t) \ {u} /\ u \in Waiting(t)
      BY <1>0, <1>2, <2>1, <2>4, <3>1, ParentsFinite DEF Waiting
    <3>3. IsFiniteSet(Waiting(t))
      BY <1>2, ParentsFinite, FS_Subset DEF Waiting
    <3>4. Cardinality(Left(t)) = Cardinality(Waiting(t)) - 1
      BY <3>2, <3>3, FS_RemoveElement
    <3> QED
      BY <1>0, <1>2, <2>1, <2>3, <2>4, <3>4
  <2>5. CASE t # c
    <3>1. Left(t) = Waiting(t)
      BY <1>0, <1>2, <2>1, <2>5, ParentsFinite DEF Waiting
    <3> QED
      BY <1>0, <1>2, <2>1, <2>3, <2>5, <3>1
  <2> QED
    BY <2>4, <2>5
<1>7. ASSUME ~InitializePendingCounts,
             \A u, d \in Tasks : ~SubmitDynamicTask(u, d) /\ ~CountDown(u, d)
      PROVE  UNCHANGED <<pendingParents, todo>>
  <2>1. CASE Aside
    BY <2>1, AsideStep DEF graph, local
  <2>2. CASE SubmitSource \/ Terminating \/ UNCHANGED vars
    BY <2>2 DEF SubmitSource, Terminating, vars, graph, local
  <2>3. ASSUME NEW u \in Tasks, Step(u) PROVE UNCHANGED <<pendingParents, todo>>
    <3>1. CASE Moves(u)
      BY <3>1, MoveStep DEF graph, local
    <3>2. CASE ~Moves(u)
      BY <1>7, <2>3, <3>2 DEF Step, Start, Execute, NotYet, SkipChild, ReadyChild,
         SubmitChild, RejectInput, SkipVisit, SkipSet, local, graph
    <3> QED
      BY <3>1, <3>2
  <2>4. ASSUME NEW u \in Tasks, Worker(u) PROVE Step(u)
    BY <2>4, Zenon DEF Worker, Step, Moves
  <2> QED
    BY <1>7, <2>1, <2>2, <2>3, <2>4 DEF Next, Main, Aside
<1> QED
  BY <1>3, <1>4, <1>5, <1>6, <1>7

-----------------------------------------------------------------------------
\* The types of the tasks' part.
LEMMA TasksTypeStep ==
  ASSUME TasksType, Prepared, Skipping, Results, CountedDown, Begun, [Next]_vars
  PROVE  TasksType'
<1>0. /\ state \in [Tasks -> {"pending", "running", "value", "exception"}]
      /\ readers \in [Tasks -> Int] /\ pendingParents \in [Tasks -> Int]
      /\ pc \in [Tasks -> Labels]
      /\ todo \in [Tasks -> SUBSET Tasks] /\ skip \in [Tasks -> SUBSET Tasks]
      /\ child \in [Tasks -> Tasks \union {NoTask}]
  BY DEF TasksType
<1>1. \A t \in Tasks : Cardinality(Parents[t]) \in Int
  BY ParentsFinite, FS_CardinalityType
<1>2. \A t \in Tasks : pc[t] = "prepare" \/ pc[t] = "skipset" => child[t] \in Tasks
  BY DEF Prepared, Skipping
<1>3. CASE UNCHANGED <<graph, pc, local>>
  BY <1>0, <1>3 DEF TasksType, graph, local
<1>4. CASE InitializePendingCounts
  <2>1. pendingParents' \in [Tasks -> Int]
    BY <1>0, <1>1, <1>4 DEF InitializePendingCounts
  <2> QED
    BY <1>0, <1>4, <2>1 DEF InitializePendingCounts, local, TasksType
<1>5. CASE SubmitSource
  <2>1. pc' = [pc EXCEPT ![Sources[round]] = "queued"] /\ UNCHANGED <<graph, local>>
    BY <1>5 DEF SubmitSource, Goto
  <2>2. pc' \in [Tasks -> Labels]
    BY <1>0, <2>1 DEF Labels
  <2> QED
    BY <1>0, <2>1, <2>2 DEF graph, local, TasksType
<1>6. ASSUME NEW t \in Tasks, NEW d \in Tasks, SubmitDynamicTask(t, d)
      PROVE  TasksType'
  <2>1. /\ pc' = [pc EXCEPT ![d] = "queued"] /\ UNCHANGED <<state, readers, local>>
        /\ pendingParents' = [pendingParents EXCEPT ![d] = Cardinality(Parents[d])]
    BY <1>6 DEF SubmitDynamicTask, Goto
  <2>2. pc' \in [Tasks -> Labels] /\ pendingParents' \in [Tasks -> Int]
    BY <1>0, <1>1, <2>1 DEF Labels
  <2> QED
    BY <1>0, <2>1, <2>2 DEF local, TasksType
<1>7. ASSUME NEW t \in Tasks, Step(t) PROVE TasksType'
  <2>0. ASSUME NEW l \in Labels, pc' = [pc EXCEPT ![t] = l]
        PROVE  pc' \in [Tasks -> Labels]
    BY <1>0, <2>0
  <2>1. CASE Start(t) \/ Execute(t)
    <3>1. pc' \in [Tasks -> Labels]
      BY <2>0, <2>1 DEF Start, Execute, Goto, Labels
    <3>2. state' \in [Tasks -> {"pending", "running", "value", "exception"}]
      BY <1>0, <2>1 DEF Start, Execute
    <3> QED
      BY <1>0, <2>1, <3>1, <3>2 DEF Start, Execute, local, TasksType
  <2>2. CASE Moves(t)
    <3>1. PICK l : To(t, l)
      BY <2>2, MoveStep
    <3>2. UNCHANGED <<graph, local>>
      BY <2>2, MoveStep
    <3>3. pc' \in [Tasks -> Labels]
      BY <1>0, <3>1 DEF To, After, Labels
    <3> QED
      BY <1>0, <3>2, <3>3 DEF graph, local, TasksType
  <2>3. ASSUME NEW c \in Tasks, NotYet(t, c) \/ SkipChild(t, c) \/ ReadyChild(t, c)
        PROVE  TasksType'
    <3>1. /\ pendingParents' = [pendingParents EXCEPT ![c] = @ - 1]
          /\ todo' = [todo EXCEPT ![t] = @ \ {c}] /\ UNCHANGED <<state, readers>>
      BY <2>3 DEF NotYet, SkipChild, ReadyChild, CountDown
    <3>2. /\ pc' \in {pc, [pc EXCEPT ![t] = "skip"], [pc EXCEPT ![t] = "prepare"]}
          /\ child' \in {child, [child EXCEPT ![t] = c]}
          /\ skip' \in {skip, [skip EXCEPT ![t] = {c}]}
      BY <2>3 DEF NotYet, SkipChild, ReadyChild, Goto
    <3>3. pc' \in [Tasks -> Labels]
      BY <1>0, <3>2 DEF Labels
    <3>4. /\ pendingParents' \in [Tasks -> Int] /\ todo' \in [Tasks -> SUBSET Tasks]
          /\ child' \in [Tasks -> Tasks \union {NoTask}]
          /\ skip' \in [Tasks -> SUBSET Tasks]
      BY <1>0, <3>1, <3>2
    <3> QED
      BY <1>0, <3>1, <3>3, <3>4 DEF TasksType
  <2>4. CASE SubmitChild(t) \/ RejectInput(t)
    <3>1. /\ readers' = [p \in Tasks |-> readers[p] - (IF p \in Parents[child[t]]
                                                       THEN 1 ELSE 0)]
          /\ state' \in {state, [state EXCEPT ![child[t]] = "exception"]}
          /\ pc' \in {[pc EXCEPT ![t] = "childerror"],
                      [pc EXCEPT ![t] = "children", ![child[t]] = "queued"]}
          /\ UNCHANGED <<pendingParents, local>>
      BY <2>4 DEF SubmitChild, RejectInput, ReleaseReaders, Goto
    <3>2. pc' \in [Tasks -> Labels]
      BY <1>0, <3>1 DEF Labels
    <3>3. /\ readers' \in [Tasks -> Int]
          /\ state' \in [Tasks -> {"pending", "running", "value", "exception"}]
      BY <1>0, <3>1
    <3> QED
      BY <1>0, <3>1, <3>2, <3>3 DEF local, TasksType
  <2>5. ASSUME NEW d \in Tasks, SkipVisit(t, d) PROVE TasksType'
    <3>1. /\ skip' = [skip EXCEPT ![t] = @ \ {d}] /\ UNCHANGED <<graph, todo>>
          /\ pc' \in {pc, [pc EXCEPT ![t] = "skipset"]}
          /\ child' \in {child, [child EXCEPT ![t] = d]}
      BY <2>5 DEF SkipVisit, Goto
    <3>2. pc' \in [Tasks -> Labels]
      BY <1>0, <3>1 DEF Labels
    <3>3. /\ skip' \in [Tasks -> SUBSET Tasks]
          /\ child' \in [Tasks -> Tasks \union {NoTask}]
      BY <1>0, <3>1
    <3> QED
      BY <1>0, <3>1, <3>2, <3>3 DEF graph, TasksType
  <2>6. CASE SkipSet(t)
    <3>1. /\ state' = [state EXCEPT ![child[t]] = "exception"]
          /\ skip' = [skip EXCEPT ![t] = @ \union Children(child[t])]
          /\ pc' = [pc EXCEPT ![t] = "skip"]
          /\ UNCHANGED <<readers, pendingParents, todo, child>>
      BY <2>6 DEF SkipSet, Goto
    <3>2. pc' \in [Tasks -> Labels]
      BY <1>0, <3>1 DEF Labels
    <3>3. skip' \in [Tasks -> SUBSET Tasks]
          /\ state' \in [Tasks -> {"pending", "running", "value", "exception"}]
      BY <1>0, <3>1 DEF Children
    <3> QED
      BY <1>0, <3>1, <3>2, <3>3 DEF TasksType
  <2> QED
    BY <1>7, <2>1, <2>2, <2>3, <2>4, <2>5, <2>6 DEF Step
<1>8. ASSUME NEW t \in Tasks, Worker(t) PROVE Step(t)
  BY <1>8, Zenon DEF Worker, Step, Moves
<1>9. Aside => UNCHANGED <<graph, pc, local>>
  BY AsideStep
<1>10. Terminating \/ UNCHANGED vars => UNCHANGED <<graph, pc, local>>
  BY DEF Terminating, vars
<1> QED
  BY <1>3, <1>4, <1>5, <1>6, <1>7, <1>8, <1>9, <1>10 DEF Next, Main, Aside

\* The types of the flags.
LEMMA FlagsTypeStep ==
  ASSUME FlagsType, [Next]_vars
  PROVE  FlagsType'
<1> USE SchedulerAssumption DEF FlagsType, flags
<1>1. CASE Main
  <2>1. CASE Reset
    BY <2>1, Zenon DEF Reset
  <2>2. CASE Stop
    BY <2>2, Zenon DEF Stop
  <2> QED
    BY <1>1, <2>1, <2>2, Zenon DEF Main, InitializePendingCounts, SubmitSource,
       Wait, Get, Returned
<1>2. CASE TimeOut
  BY <1>2, Zenon DEF TimeOut
<1>3. CASE Interrupt \/ Expire \/ Alarm
  BY <1>3, Zenon DEF Interrupt, Expire, Alarm, SetReason, SetShutdown,
     NotifyShutdown
<1>4. ASSUME NEW t \in Tasks, Worker(t) PROVE FlagsType'
  <2>1. CASE OnTaskCompleted(t)
    BY <2>1, Zenon DEF OnTaskCompleted
  <2>2. CASE HandleTaskError(t)
    BY <2>2, Zenon DEF HandleTaskError
  <2>3. CASE ~(OnTaskCompleted(t) \/ HandleTaskError(t))
    <3>1. UNCHANGED flags
      BY <1>4, <2>3, Zenon DEF Worker, Start, Execute, NotifyError, Check,
         NotYet, SkipChild, ReadyChild, CountDown, SubmitChild, RejectInput,
         SkipVisit, SkipSet, SkipDone, ChildrenDone, Report, CountOut, NotifyDone
    <3> QED
      BY <3>1, Zenon
  <2> QED
    BY <2>1, <2>2, <2>3
<1>5. ASSUME NEW t \in Tasks, NEW d \in Tasks, SubmitDynamicTask(t, d)
      PROVE  FlagsType'
  BY <1>5, Zenon DEF SubmitDynamicTask
<1>6. CASE Terminating \/ UNCHANGED vars
  BY <1>6, Zenon DEF Terminating, vars
<1> QED
  BY <1>1, <1>2, <1>3, <1>4, <1>5, <1>6, Zenon DEF Next

\* The types of the caller's part.
LEMMA MainTypeStep ==
  ASSUME MainType, Begun, [Next]_vars
  PROVE  MainType'
<1>0. /\ pendingCount \in Int
      /\ alarm \in {"off", "error", "reason", "flag", "notify", "over"}
      /\ mpc \in {"idle", "initialize", "submit", "wait", "asleep", "stop", "get"}
      /\ round \in 0 .. Len(Sources) /\ Len(Sources) \in Nat
      /\ outcome \in [1 .. Len(Sources) -> Outcomes]
      /\ gets \subseteq Tasks
  BY SchedulerAssumption DEF MainType
<1> USE DEF main
<1>1. CASE Reset
  <2>1. round' \in 0 .. Len(Sources) /\ pendingCount' \in Int /\ mpc' = "initialize"
        /\ UNCHANGED <<alarm, outcome, gets>>
    BY <1>0, <1>1 DEF Reset
  <2> QED
    BY <1>0, <2>1 DEF MainType
<1>2. CASE InitializePendingCounts
  BY <1>0, <1>2 DEF InitializePendingCounts, MainType
<1>3. CASE SubmitSource
  BY <1>0, <1>3 DEF SubmitSource, MainType
<1>4. CASE Wait \/ Returned
  BY <1>0, <1>4 DEF Wait, Returned, MainType
<1>5. CASE Stop
  <2>1. round \in 1 .. Len(Sources)
    BY <1>5 DEF Stop, Begun
  <2>2. PICK o \in Outcomes :
          /\ outcome' = [outcome EXCEPT ![round] = o]
          /\ gets' = (IF o = "ok" THEN Outputs[round] ELSE {})
          /\ mpc' = (IF o = "ok" THEN "get" ELSE "idle")
    BY <1>5 DEF Stop, Finish, Outcomes
  <2>3. Outputs[round] \subseteq Tasks
    BY <2>1, SchedulerAssumption
  <2>4. UNCHANGED <<pendingCount, alarm, round>>
    BY <1>5 DEF Stop
  <2>5. outcome' \in [1 .. Len(Sources) -> Outcomes] /\ gets' \subseteq Tasks
    BY <1>0, <2>2, <2>3
  <2>6. mpc' \in {"get", "idle"}
    BY <2>2
  <2> QED
    BY <1>0, <2>4, <2>5, <2>6 DEF MainType
<1>6. ASSUME NEW t \in Tasks, Get(t) PROVE MainType'
  <2>1. /\ outcome' = outcome \/ outcome' = [outcome EXCEPT ![round] = "error"]
        /\ gets' \subseteq gets
        /\ UNCHANGED <<pendingCount, alarm, mpc, round>>
    BY <1>6 DEF Get, Finish
  <2>2. outcome' \in [1 .. Len(Sources) -> Outcomes]
    BY <1>0, <2>1 DEF Outcomes
  <2> QED
    BY <1>0, <2>1, <2>2 DEF MainType
<1>7. CASE TimeOut
  <2>1. /\ outcome' = outcome \/ outcome' = [outcome EXCEPT ![round] = "timeout"]
        /\ mpc' \in {"stop", "idle"}
        /\ UNCHANGED <<pendingCount, alarm, gets, round>>
    BY <1>7 DEF TimeOut, Finish
  <2>2. outcome' \in [1 .. Len(Sources) -> Outcomes]
    BY <1>0, <2>1 DEF Outcomes
  <2> QED
    BY <1>0, <2>1, <2>2 DEF MainType
<1>8. CASE Interrupt \/ Expire \/ SetReason
  BY <1>0, <1>8 DEF Interrupt, Expire, SetReason, MainType
<1>9. CASE SetShutdown
  BY <1>0, <1>9 DEF SetShutdown, MainType
<1>10. CASE NotifyShutdown
  BY <1>0, <1>10 DEF NotifyShutdown, Wake, MainType
<1>11. ASSUME NEW t \in Tasks, Worker(t) PROVE MainType'
  <2>1. /\ pendingCount' \in {pendingCount, pendingCount + 1, pendingCount - 1}
        /\ mpc' \in {mpc, "wait"} /\ UNCHANGED <<alarm, round, outcome, gets>>
    <3>1. CASE NotifyError(t) \/ NotifyDone(t)
      BY <3>1 DEF NotifyError, NotifyDone, Wake
    <3>2. CASE ~(NotifyError(t) \/ NotifyDone(t))
      BY <1>11, <3>2 DEF Worker, Start, Execute, OnTaskCompleted, HandleTaskError,
         Check, NotYet, SkipChild, ReadyChild, CountDown, SubmitChild,
         RejectInput, SkipVisit, SkipSet, SkipDone, ChildrenDone, Report, CountOut
    <3> QED
      BY <3>1, <3>2
  <2> QED
    BY <1>0, <2>1 DEF MainType
<1>12. ASSUME NEW t \in Tasks, NEW d \in Tasks, SubmitDynamicTask(t, d)
       PROVE  MainType'
  BY <1>0, <1>12 DEF SubmitDynamicTask, MainType
<1>13. CASE Terminating \/ UNCHANGED vars
  BY <1>0, <1>13 DEF Terminating, vars, MainType
<1> QED
  BY <1>1, <1>2, <1>3, <1>4, <1>5, <1>6, <1>7, <1>8, <1>9, <1>10, <1>11, <1>12,
     <1>13 DEF Next, Main, Alarm

-----------------------------------------------------------------------------
\* IInv is an invariant.
LEMMA Inductive ==
  ASSUME IInv, [Next]_vars
  PROVE  IInv' /\ Forward
<1>1. /\ TasksType /\ FlagsType /\ MainType /\ Results /\ CountedDown /\ Submitted
      /\ Prepared /\ Skipping /\ Rejected /\ Counts /\ Begun
  BY DEF IInv, TypeOK
<1>2. Forward
  BY <1>1, GoesForward
<1>3. TypeOK'
  BY <1>1, TasksTypeStep, FlagsTypeStep, MainTypeStep DEF TypeOK
<1>4. Results' /\ CountedDown' /\ Submitted'
  BY <1>1, <1>2, ResultsStep, CountedDownStep, SubmittedStep
<1>5. Prepared' /\ Skipping' /\ Rejected'
  BY <1>1, <1>2, PreparedStep, SkippingStep, RejectedStep
<1>6. Counts' /\ Begun'
  BY <1>1, CountsStep, BegunStep
<1> QED
  BY <1>2, <1>3, <1>4, <1>5, <1>6 DEF IInv

LEMMA Invariance == Spec => []IInv
<1>1. IInv /\ [Next]_vars => IInv'
  BY Inductive
<1> QED
  BY InitIInv, <1>1, PTL DEF Spec

\* Every variable of the scheduler has its type.
THEOREM TypeCorrect == Spec => []TypeOK
<1>1. IInv => TypeOK
  BY DEF IInv
<1> QED
  BY <1>1, Invariance, PTL

\* on_task_completed() submits a child, however the countdowns of its parents
\* interleave, only when all of them have produced a value.
THEOREM Dependencies == Spec => []DependenciesRespected
<1>1. IInv => DependenciesRespected
  BY DEF IInv, Submitted, Released, DependenciesRespected
<1> QED
  BY <1>1, Invariance, PTL

\* What set_result() or set_exception() has published is never overwritten:
\* not by a second skip, and not by an execution after a skip.
THEOREM Final == Spec => ResultIsFinal
<1>1. IInv /\ [Next]_vars => [\A t \in Tasks : IsReady(t) => state'[t] = state[t]]_vars
  BY Inductive DEF Forward
<1> QED
  BY <1>1, Invariance, PTL DEF Spec, ResultIsFinal
-----------------------------------------------------------------------------
(* What is counted: readers never free a value that a child has yet to     *)
(* read, and pending_count_ is the number of tasks in flight, as long as   *)
(* one call of schedule() has not been ended early by an error or a        *)
(* shutdown and another begun; then a normal return finds nothing running, *)
(* and under FAIL_FAST means that the whole graph was executed.            *)

\* Whose worker has a child in its hands, that is not queued yet, or never is.
Hand(u) == pc[u] \in {"prepare", "childerror"}

\* Such a child is in one pair of hands, and nobody has yet to count it down.
Hands ==
  \A t \in Tasks : Hand(t) =>
    /\ child[t] \in Tasks /\ t \in Parents[child[t]]
    /\ pc[child[t]] = "idle"
    /\ \A p \in Parents[child[t]] : child[t] \notin todo[p]
    /\ \A u \in Tasks : Hand(u) /\ child[u] = child[t] => u = t

\* An error that is handled is that of a task with an exception.
Errors ==
  \A t \in Tasks :
    /\ pc[t] \in {"error", "errornotify"} => state[t] = "exception"
    /\ pc[t] = "childerror" => state[child[t]] = "exception"

-----------------------------------------------------------------------------
(* A worker's step changes its own task, and the child in its hands *)

LEMMA OwnStep ==
  ASSUME IInv, NEW t \in Tasks, Step(t), NEW u \in Tasks, u # t
  PROVE  /\ child'[u] = child[u]
         /\ pc'[u] = pc[u] \/ (SubmitChild(t) /\ u = child[t] /\ pc'[u] = "queued")
         /\ \/ state'[u] = state[u]
            \/ (RejectInput(t) \/ SkipSet(t)) /\ u = child[t] /\ state'[u] = "exception"
<1>0. /\ pc \in [Tasks -> Labels] /\ child \in [Tasks -> Tasks \union {NoTask}]
      /\ state \in [Tasks -> {"pending", "running", "value", "exception"}]
      /\ TasksType /\ Results
  BY DEF IInv, TypeOK, TasksType
<1>1. CASE Start(t)
  BY <1>0, <1>1 DEF Start, Goto, local
<1>2. CASE Execute(t)
  BY <1>0, <1>2 DEF Execute, Goto, local
<1>3. CASE Moves(t)
  <2>1. UNCHANGED <<state, child>> /\ \E l : pc' = [pc EXCEPT ![t] = l]
    BY <1>0, <1>3, MoveStep DEF graph, local, To
  <2> QED
    BY <1>0, <2>1
<1>4. ASSUME NEW c \in Tasks, NotYet(t, c) \/ SkipChild(t, c) \/ ReadyChild(t, c)
      PROVE  child'[u] = child[u] /\ pc'[u] = pc[u] /\ state'[u] = state[u]
  <2>1. /\ state' = state
        /\ pc' = pc \/ \E l : pc' = [pc EXCEPT ![t] = l]
        /\ child' = child \/ child' = [child EXCEPT ![t] = c]
    BY <1>4 DEF NotYet, SkipChild, ReadyChild, CountDown, Goto
  <2> QED
    BY <1>0, <2>1
<1>5. CASE SubmitChild(t)
  <2>1. /\ UNCHANGED <<state, child>>
        /\ pc' = [pc EXCEPT ![t] = "children", ![child[t]] = "queued"]
    BY <1>5 DEF SubmitChild, local
  <2> QED
    BY <1>0, <1>5, <2>1
<1>6. CASE RejectInput(t) \/ SkipSet(t)
  <2>1. /\ child' = child /\ \E l : pc' = [pc EXCEPT ![t] = l]
        /\ state' = [state EXCEPT ![child[t]] = "exception"]
    BY <1>6 DEF RejectInput, SkipSet, local, Goto
  <2> QED
    BY <1>0, <1>6, <2>1
<1>7. ASSUME NEW d \in Tasks, SkipVisit(t, d)
      PROVE  child'[u] = child[u] /\ pc'[u] = pc[u] /\ state'[u] = state[u]
  <2>1. /\ state' = state
        /\ pc' = pc \/ \E l : pc' = [pc EXCEPT ![t] = l]
        /\ child' = child \/ child' = [child EXCEPT ![t] = d]
    BY <1>7 DEF SkipVisit, Goto, graph
  <2> QED
    BY <1>0, <2>1
<1> QED
  BY <1>1, <1>2, <1>3, <1>4, <1>5, <1>6, <1>7 DEF Step

\* A step of the owner of a child in hand: it is submitted, rejected, or its
\* rejection is counted.
LEMMA HandStep ==
  ASSUME IInv, NEW t \in Tasks, Step(t)
  PROVE  /\ Hand(t) => /\ child' = child
                       /\ SubmitChild(t) \/ RejectInput(t) \/ HandleTaskError(t)
         /\ ~Hand(t) /\ Hand(t)' => \E c \in Tasks : ReadyChild(t, c)
         /\ pc'[t] = "childerror" => RejectInput(t)
         /\ pc'[t] = "errornotify" => HandleTaskError(t) /\ pc[t] = "error"
         /\ pc'[t] = "error" => OnTaskCompleted(t) /\ state[t] = "exception"
<1>0. /\ pc \in [Tasks -> Labels] /\ TasksType /\ Results /\ Prepared
  BY DEF IInv, TypeOK, TasksType
<1> USE DEF Hand, Goto
<1>1. CASE Start(t)
  BY <1>0, <1>1 DEF Start
<1>2. CASE Execute(t)
  BY <1>0, <1>2 DEF Execute
<1>3. CASE Moves(t)
  BY <1>0, <1>3 DEF Moves, OnTaskCompleted, HandleTaskError, NotifyError, Check,
     SkipDone, ChildrenDone, Report, CountOut, NotifyDone, local
<1>4. ASSUME NEW c \in Tasks, NotYet(t, c) \/ SkipChild(t, c) \/ ReadyChild(t, c)
      PROVE  pc[t] = "children" /\ pc'[t] \in {"children", "skip", "prepare"}
             /\ (pc'[t] = "prepare" => ReadyChild(t, c))
  BY <1>0, <1>4 DEF NotYet, SkipChild, ReadyChild, CountDown
<1>5. CASE SubmitChild(t)
  <2>1. child[t] \in Tasks /\ pc[child[t]] = "idle" /\ pc[t] = "prepare"
    BY <1>0, <1>5 DEF SubmitChild, Prepared
  <2>2. pc'[t] = "children" /\ child' = child
    BY <1>0, <1>5, <2>1 DEF SubmitChild, local
  <2> QED
    BY <1>5, <2>2
<1>6. CASE RejectInput(t)
  BY <1>0, <1>6 DEF RejectInput, local
<1>7. CASE SkipSet(t)
  BY <1>0, <1>7 DEF SkipSet
<1>8. ASSUME NEW d \in Tasks, SkipVisit(t, d)
      PROVE  pc[t] = "skip" /\ pc'[t] \in {"skip", "skipset"}
  BY <1>0, <1>8 DEF SkipVisit
<1> QED
  BY <1>1, <1>2, <1>3, <1>4, <1>5, <1>6, <1>7, <1>8 DEF Step

\* A child in hand stays there until its owner puts it down.
LEMMA HandsStep ==
  ASSUME IInv, Hands, [Next]_vars
  PROVE  Hands'
<1>0. /\ pc \in [Tasks -> Labels] /\ child \in [Tasks -> Tasks \union {NoTask}]
      /\ todo \in [Tasks -> SUBSET Tasks] /\ todo' \in [Tasks -> SUBSET Tasks]
      /\ TasksType /\ Results /\ Submitted /\ Prepared /\ Skipping /\ Begun
      /\ CountedDown /\ Counts /\ Rejected /\ Forward
  BY Inductive DEF IInv, TypeOK, TasksType
<1> DEFINE Held(t, c) == /\ c \in Tasks /\ t \in Parents[c] /\ pc'[c] = "idle"
                         /\ \A p \in Parents[c] : c \notin todo'[p]
\* One that is kept.
<1>1. ASSUME NEW t \in Tasks, Hand(t), Hand(t)'
      PROVE  child'[t] = child[t] /\ Held(t, child[t])
  <2> DEFINE c == child[t]
  <2>0. /\ c \in Tasks /\ t \in Parents[c] /\ pc[c] = "idle"
        /\ \A p \in Parents[c] : c \notin todo[p]
        /\ \A u \in Tasks : Hand(u) /\ child[u] = c => u = t
        /\ Parents[c] \subseteq Tasks
    BY <1>1, ParentsFinite DEF Hands
  <2>1. child'[t] = child[t]
    <3>1. CASE Still \/ \E d \in Tasks : Fresh(d)
      BY <3>1 DEF Still, Fresh, local
    <3>2. ASSUME NEW u \in Tasks, Step(u) PROVE child'[t] = child[t]
      BY <1>1, <3>2, OwnStep, HandStep
    <3> QED
      BY <1>0, <3>1, <3>2, Cases
  <2>2. pc'[c] = "idle"
    <3>1. SUFFICES ASSUME pc'[c] # "idle" PROVE FALSE
      OBVIOUS
    <3>2. CASE Fresh(c)
      BY <2>0, <3>2 DEF Fresh
    <3>3. ASSUME NEW u \in Tasks, SubmitChild(u), c = child[u] PROVE FALSE
      <4>1. pc[u] = "prepare" /\ pc' = [pc EXCEPT ![u] = "children", ![c] = "queued"]
        BY <3>3 DEF SubmitChild
      <4>2. u = t
        BY <2>0, <3>3, <4>1 DEF Hand
      <4>3. t # c
        BY <2>0, <4>1, <4>2
      <4> HIDE DEF c
      <4> QED
        BY <1>0, <1>1, <4>1, <4>2, <4>3 DEF Hand
    <3> QED
      BY <1>0, <2>0, <3>1, <3>2, <3>3, Leaving
  <2>3. \A p \in Parents[c] : c \notin todo'[p]
    BY <1>0, <2>0 DEF Forward
  <2> QED
    BY <2>0, <2>1, <2>2, <2>3
\* One that is taken.
<1>2. ASSUME NEW t \in Tasks, ~Hand(t), Hand(t)'
      PROVE  /\ Held(t, child'[t])
             /\ \A u \in Tasks : u # t /\ Hand(u)' =>
                  Hand(u) /\ child'[u] = child[u] /\ child[u] # child'[t]
  <2>1. Step(t)
    <3>1. CASE Still \/ \E d \in Tasks : Fresh(d)
      BY <1>0, <1>2, <3>1 DEF Still, Fresh, Hand
    <3>2. ASSUME NEW u \in Tasks, Step(u), u # t PROVE FALSE
      BY <1>2, <3>2, OwnStep DEF Hand
    <3> QED
      BY <1>0, <3>1, <3>2, Cases
  <2>2. PICK c \in Tasks : ReadyChild(t, c)
    BY <1>2, <2>1, HandStep
  <2>3. /\ child' = [child EXCEPT ![t] = c] /\ todo' = [todo EXCEPT ![t] = @ \ {c}]
        /\ pc' = [pc EXCEPT ![t] = "prepare"] /\ pc[t] = "children"
    BY <2>2 DEF ReadyChild, CountDown, Goto
  <2>4. /\ t \in Parents[c] /\ c \in todo[t]
        /\ \A p \in Parents[c] : p = t \/ c \notin todo[p]
    BY <1>0, <2>2, LastParent
  <2>5. pc[c] = "idle" /\ Parents[c] \subseteq Tasks
    BY <1>0, <2>2, ReleasedPending, ParentsFinite
  <2>6. Held(t, c) /\ child'[t] = c
    BY <1>0, <2>3, <2>4, <2>5
  <2>7. ASSUME NEW u \in Tasks, u # t, Hand(u)'
        PROVE  Hand(u) /\ child'[u] = child[u] /\ child[u] # c
    <3>1. Hand(u) /\ child'[u] = child[u]
      BY <1>0, <2>3, <2>7 DEF Hand
    <3>2. c \notin Tasks \/ child[u] # c
      BY <2>4, <3>1 DEF Hands
    <3> QED
      BY <3>1, <3>2
  <2> HIDE DEF Held
  <2> QED
    BY <2>6, <2>7
<1>3. ASSUME NEW t \in Tasks, Hand(t)', NEW u \in Tasks, Hand(u)', child'[u] = child'[t]
      PROVE  u = t
  <2>1. CASE Hand(t) /\ Hand(u)
    <3>1. child[u] = child[t]
      BY <1>1, <1>3, <2>1
    <3> QED
      BY <2>1, <3>1 DEF Hands
  <2>2. CASE ~Hand(t)
    BY <1>2, <1>3, <2>2
  <2>3. CASE ~Hand(u)
    BY <1>2, <1>3, <2>3
  <2> QED
    BY <2>1, <2>2, <2>3
<1>4. ASSUME NEW t \in Tasks, Hand(t)' PROVE Held(t, child'[t])
  BY <1>1, <1>2, <1>4
<1> QED
  BY <1>3, <1>4 DEF Hands, Hand

LEMMA ErrorsStep ==
  ASSUME IInv, Hands, Errors, [Next]_vars
  PROVE  Errors'
<1>0. /\ pc \in [Tasks -> Labels] /\ child \in [Tasks -> Tasks \union {NoTask}]
      /\ state \in [Tasks -> {"pending", "running", "value", "exception"}]
      /\ TasksType /\ Begun /\ Forward
  BY Inductive DEF IInv, TypeOK, TasksType
<1> USE DEF Errors
<1>1. CASE Still
  BY <1>1 DEF Still, local
<1>2. ASSUME NEW d \in Tasks, Fresh(d) PROVE Errors'
  BY <1>0, <1>2 DEF Fresh, local
<1>3. ASSUME NEW t \in Tasks, Step(t) PROVE Errors'
  <2>1. ASSUME NEW u \in Tasks, state[u] = "exception" PROVE state'[u] = "exception"
    BY <1>0, <2>1 DEF Forward, IsReady
  <2>2. ASSUME NEW u \in Tasks, pc'[u] \in {"error", "errornotify"}
        PROVE  state'[u] = "exception"
    <3>1. CASE u = t
      BY <1>3, <2>1, <2>2, <3>1, HandStep
    <3>2. CASE u # t
      <4>1. pc'[u] = pc[u]
        BY <1>3, <2>2, <3>2, OwnStep
      <4> QED
        BY <2>1, <2>2, <4>1
    <3> QED
      BY <3>1, <3>2
  <2>3. ASSUME NEW u \in Tasks, pc'[u] = "childerror"
        PROVE  state'[child'[u]] = "exception"
    <3>1. CASE u = t
      <4>1. RejectInput(t) /\ pc[t] = "prepare"
        BY <1>3, <2>3, <3>1, HandStep DEF RejectInput
      <4>2. child' = child /\ state' = [state EXCEPT ![child[t]] = "exception"]
        BY <4>1 DEF RejectInput, local
      <4>3. child[t] \in Tasks
        BY <4>1 DEF Hands, Hand
      <4> QED
        BY <1>0, <3>1, <4>2, <4>3
    <3>2. CASE u # t
      <4>1. pc[u] = "childerror" /\ child'[u] = child[u]
        BY <1>3, <2>3, <3>2, OwnStep
      <4>2. child[u] \in Tasks
        BY <4>1 DEF Hands, Hand
      <4> QED
        BY <2>1, <4>1, <4>2
    <3> QED
      BY <3>1, <3>2
  <2> QED
    BY <2>2, <2>3
<1> QED
  BY <1>0, <1>1, <1>2, <1>3, Cases

-----------------------------------------------------------------------------
(* The readers of a value *)

\* The readers that a task counts on are at least its children that nobody has
\* submitted, rejected or skipped.
Untouched(p) == {c \in Children(p) : pc[c] = "idle" /\ state[c] = "pending"}
ReadersCover == \A p \in Tasks : readers[p] >= Cardinality(Untouched(p))

LEMMA ChildrenFinite ==
  ASSUME NEW p \in Tasks
  PROVE  /\ Children(p) \subseteq Tasks
         /\ IsFiniteSet(Children(p)) /\ IsFiniteSet(Untouched(p))
<1>1. Children(p) \subseteq Tasks
  BY DEF Children
<1>2. IsFiniteSet(Children(p))
  BY <1>1, FS_Subset, SchedulerAssumption
<1>3. Untouched(p) \in SUBSET Children(p)
  BY DEF Untouched
<1> QED
  BY <1>1, <1>2, <1>3, FS_Subset

LEMMA ReadersKept ==
  ASSUME IInv, [Next]_vars, \A t \in Tasks : ~SubmitChild(t) /\ ~RejectInput(t)
  PROVE  readers' = readers
<1>0. TasksType /\ Results
  BY DEF IInv, TypeOK
<1>1. CASE Aside
  BY <1>1, AsideStep DEF graph
<1>2. CASE InitializePendingCounts \/ SubmitSource \/ Terminating \/ UNCHANGED vars
  BY <1>2 DEF InitializePendingCounts, SubmitSource, Terminating, vars, graph
<1>3. ASSUME NEW t \in Tasks, NEW d \in Tasks, SubmitDynamicTask(t, d)
      PROVE  readers' = readers
  BY <1>3 DEF SubmitDynamicTask
<1>4. ASSUME NEW t \in Tasks, Worker(t) PROVE readers' = readers
  <2>1. CASE Moves(t)
    BY <1>0, <2>1, MoveStep DEF graph
  <2>2. CASE ~Moves(t)
    BY <1>4, <2>2 DEF Worker, Moves, Start, Execute, NotYet, SkipChild, ReadyChild,
       CountDown, SkipVisit, SkipSet, graph
  <2> QED
    BY <2>1, <2>2
<1> QED
  BY <1>1, <1>2, <1>3, <1>4 DEF Next, Main, Aside

\* Nobody becomes untouched again.
LEMMA StaysTouched ==
  ASSUME IInv, [Next]_vars, NEW p \in Tasks
  PROVE  Untouched(p)' \subseteq Untouched(p)
<1>0. /\ state \in [Tasks -> {"pending", "running", "value", "exception"}]
      /\ TasksType /\ Begun /\ Forward /\ Results
  BY Inductive DEF IInv, TypeOK, TasksType
<1>1. ASSUME NEW c \in Tasks, state'[c] = "pending" PROVE state[c] = "pending"
  <2>1. CASE Still \/ \E d \in Tasks : Fresh(d)
    BY <1>1, <2>1 DEF Still, Fresh
  <2>2. ASSUME NEW t \in Tasks, Step(t) PROVE state[c] = "pending"
    <3>1. CASE c # t
      BY <1>1, <2>2, <3>1, OwnStep
    <3>2. CASE Moves(t)
      BY <1>0, <1>1, <3>2, MoveStep DEF graph
    <3>3. CASE c = t /\ ~Moves(t)
      BY <1>0, <1>1, <2>2, <3>3 DEF Step, Start, Execute, NotYet, SkipChild, ReadyChild,
         CountDown, SubmitChild, RejectInput, SkipVisit, SkipSet, graph
    <3> QED
      BY <3>1, <3>2, <3>3
  <2> QED
    BY <1>0, <2>1, <2>2, Cases
<1>2. \A c \in Tasks : pc'[c] = "idle" => pc[c] = "idle"
  BY <1>0 DEF Forward
<1> QED
  BY <1>1, <1>2 DEF Untouched, Children

LEMMA ReadersStep ==
  ASSUME IInv, ReadersCover, [Next]_vars
  PROVE  ReadersCover'
<1>0. /\ readers \in [Tasks -> Int] /\ TasksType /\ Prepared
      /\ pc \in [Tasks -> Labels] /\ state \in [Tasks -> {"pending", "running", "value", "exception"}]
  BY DEF IInv, TypeOK, TasksType
<1>1. SUFFICES ASSUME NEW p \in Tasks PROVE readers'[p] >= Cardinality(Untouched(p)')
  BY DEF ReadersCover
<1> DEFINE U == Untouched(p)
<1>2. PICK V : V = Untouched(p)'
  OBVIOUS
<1>3. V \in SUBSET U /\ IsFiniteSet(U) /\ Cardinality(U) \in Nat
  BY <1>2, StaysTouched, ChildrenFinite, FS_CardinalityType
<1>4. IsFiniteSet(V) /\ Cardinality(V) <= Cardinality(U) /\ Cardinality(V) \in Nat
  BY <1>3, FS_Subset, FS_CardinalityType
<1>5. readers[p] >= Cardinality(U) /\ readers[p] \in Int
  BY <1>0 DEF ReadersCover
<1>6. CASE readers'[p] = readers[p]
  <2> HIDE DEF U
  <2> QED
    BY <1>2, <1>3, <1>4, <1>5, <1>6
<1>7. ASSUME NEW t \in Tasks, SubmitChild(t) \/ RejectInput(t), readers'[p] # readers[p]
      PROVE  readers'[p] >= Cardinality(V)
  <2> DEFINE c == child[t]
  <2>1. /\ c \in Tasks /\ pc[t] = "prepare" /\ pc[c] = "idle" /\ state[c] = "pending"
        /\ readers'[p] = readers[p] - (IF p \in Parents[c] THEN 1 ELSE 0)
    BY <1>7 DEF SubmitChild, RejectInput, ReleaseReaders, Prepared, IInv
  <2>2. p \in Parents[c] /\ readers'[p] = readers[p] - 1
    BY <1>0, <1>7, <2>1
  <2>3. c \in U
    BY <2>1, <2>2 DEF Untouched, Children
  <2>4. c \notin V
    <3>1. pc'[c] # "idle" \/ state'[c] # "pending"
      <4>1. CASE SubmitChild(t)
        BY <1>0, <2>1, <4>1 DEF SubmitChild
      <4>2. CASE RejectInput(t)
        BY <1>0, <2>1, <4>2 DEF RejectInput
      <4> QED
        BY <1>7, <4>1, <4>2
    <3> QED
      BY <1>2, <3>1 DEF Untouched
  <2> HIDE DEF c, U
  <2>5. V \in SUBSET (U \ {c})
    BY <1>3, <2>4
  <2>6. IsFiniteSet(U \ {c}) /\ Cardinality(U \ {c}) = Cardinality(U) - 1
    BY <1>3, <2>3, FS_RemoveElement
  <2>7. Cardinality(V) <= Cardinality(U \ {c})
    BY <2>5, <2>6, FS_Subset
  <2> QED
    BY <1>3, <1>4, <1>5, <2>2, <2>6, <2>7
<1> QED
  BY <1>2, <1>6, <1>7, ReadersKept

LEMMA InitReaders ==
  ASSUME Init
  PROVE  Hands /\ Errors /\ ReadersCover
<1>1. Hands /\ Errors
  BY DEF Init, Hands, Hand, Errors
<1>2. ASSUME NEW p \in Tasks PROVE readers[p] >= Cardinality(Untouched(p))
  <2>1. Untouched(p) = Children(p)
    BY DEF Init, Untouched, Children
  <2>2. Cardinality(Children(p)) \in Nat
    BY ChildrenFinite, FS_CardinalityType
  <2> QED
    BY <2>1, <2>2 DEF Init
<1> QED
  BY <1>1, <1>2 DEF ReadersCover

\* release_reader() frees a value only after all children that will ever read
\* it have done so: a skipped child keeps it alive for longer, and no child reads
\* twice.
THEOREM LiveValues == Spec => []ReadsLiveValues
<1>1. IInv /\ ReadersCover /\ [Next]_vars => ReadersCover'
  BY ReadersStep
<1>2. ASSUME IInv, ReadersCover PROVE ReadsLiveValues
  <2> SUFFICES ASSUME NEW t \in Tasks, pc[t] = "prepare", NEW p \in Parents[child[t]]
               PROVE  state[p] = "value" /\ readers[p] # 0
    BY DEF ReadsLiveValues, Freed
  <2>1. /\ child[t] \in Tasks /\ pc[child[t]] = "idle" /\ state[child[t]] = "pending"
        /\ state[p] = "value"
    BY <1>2 DEF IInv, Prepared, Released
  <2>2. p \in Tasks
    BY <2>1, ParentsFinite
  <2>3. child[t] \in Untouched(p)
    BY <2>1 DEF Untouched, Children
  <2>4. IsFiniteSet(Untouched(p)) /\ Cardinality(Untouched(p)) \in Nat
    BY <2>2, ChildrenFinite, FS_CardinalityType
  <2>5. Cardinality(Untouched(p)) # 0
    BY <2>3, <2>4, FS_EmptySet
  <2>6. readers[p] >= Cardinality(Untouched(p)) /\ readers[p] \in Int
    BY <1>2, <2>2 DEF ReadersCover, IInv, TypeOK, TasksType
  <2> QED
    BY <2>1, <2>4, <2>5, <2>6
<1>3. Init => ReadersCover
  BY InitReaders
<1> QED
  BY <1>1, <1>2, <1>3, Invariance, PTL DEF Spec

-----------------------------------------------------------------------------
(* pending_count_ and the tasks in flight *)

\* A task is in flight itself, or as a child in somebody's hands.
Busy(t) ==
  /\ pc[t] \notin Uncounted
  /\ state[t] = "exception" =>
       pc[t] \in {"queued", "running", "completed", "error", "finish"}
Held(c) == \E u \in Tasks : Hand(u) /\ child[u] = c

LEMMA InFlightIs ==
  ASSUME Hands
  PROVE  InFlight = {t \in Tasks : Busy(t) \/ Held(t)}
BY DEF InFlight, Hands, Hand, Held, Busy

\* What a step does to the tasks in flight.
Same == InFlight' = InFlight /\ pendingCount' = pendingCount
Enters(c) == /\ c \in Tasks /\ c \notin InFlight
             /\ InFlight' = InFlight \union {c} /\ pendingCount' = pendingCount + 1
Leaves(c) == /\ c \in Tasks /\ c \in InFlight
             /\ InFlight' = InFlight \ {c} /\ pendingCount' = pendingCount - 1
Abandons == /\ shutdown /\ shutdown' /\ InFlight' \subseteq InFlight

\* A step that leaves everybody's part as it is.
LEMMA SameFlight ==
  ASSUME Hands, Hands',
         \A t \in Tasks : Busy(t)' <=> Busy(t),
         \A t \in Tasks : Hand(t)' <=> Hand(t),
         \A t \in Tasks : Hand(t) => child'[t] = child[t]
  PROVE  InFlight' = InFlight
<1>1. \A c \in Tasks : Held(c)' <=> Held(c)
  BY DEF Held
<1>2. InFlight = {t \in Tasks : Busy(t) \/ Held(t)}
  BY InFlightIs
<1>3. InFlight' = {t \in Tasks : Busy(t)' \/ Held(t)'}
  BY DEF InFlight, Hands, Hand, Held, Busy
<1> QED
  BY <1>1, <1>2, <1>3

\* A worker goes on with its own task, without a child in its hands.
LEMMA OwnFlight ==
  ASSUME IInv, Hands, Hands', NEW t \in Tasks, NEW l, l \in Labels,
         pc' = [pc EXCEPT ![t] = l], l \notin {"idle", "prepare", "childerror"},
         pc[t] # "idle", ~Hand(t), UNCHANGED <<state, child>>
  PROVE  /\ (Busy(t)' <=> Busy(t)) => InFlight' = InFlight
         /\ Busy(t) /\ ~Busy(t)' => t \in InFlight /\ InFlight' = InFlight \ {t}
<1>0. pc \in [Tasks -> Labels]
  BY DEF IInv, TypeOK, TasksType
<1>1. \A u \in Tasks : u # t => (Busy(u)' <=> Busy(u))
  BY <1>0 DEF Busy
<1>2. \A u \in Tasks : Hand(u)' <=> Hand(u)
  BY <1>0 DEF Hand
<1>3. (Busy(t)' <=> Busy(t)) => InFlight' = InFlight
  BY <1>1, <1>2, SameFlight
<1>4. ASSUME Busy(t), ~Busy(t)'
      PROVE  t \in InFlight /\ InFlight' = InFlight \ {t}
  <2>1. ~Held(t)
    BY DEF Held, Hands
  <2>2. \A c \in Tasks : Held(c)' <=> Held(c)
    BY <1>2 DEF Held
  <2>3. InFlight = {u \in Tasks : Busy(u) \/ Held(u)}
    BY InFlightIs
  <2>4. InFlight' = {u \in Tasks : Busy(u)' \/ Held(u)'}
    BY DEF InFlight, Hands, Hand, Held, Busy
  <2> QED
    BY <1>1, <1>4, <2>1, <2>2, <2>3, <2>4
<1> QED
  BY <1>3, <1>4

\* The steps of a worker beside those that put a child into its hands or
\* take it out.
LEMMA MoveFlight ==
  ASSUME IInv, Hands, Hands', Errors, NEW t \in Tasks,
         \/ Moves(t) /\ pc[t] # "childerror"
         \/ Start(t) \/ Execute(t)
         \/ \E c \in Tasks : NotYet(t, c) \/ SkipChild(t, c) \/ SkipVisit(t, c)
         \/ SkipSet(t)
  PROVE  Same \/ Leaves(t) \/ Abandons
<1>0. /\ pc \in [Tasks -> Labels] /\ child \in [Tasks -> Tasks \union {NoTask}]
      /\ state \in [Tasks -> {"pending", "running", "value", "exception"}]
      /\ TasksType /\ Results /\ Skipping /\ Submitted
  BY DEF IInv, TypeOK, TasksType
<1> USE DEF Same, Leaves, Abandons, Goto
<1> DEFINE Move(l) == /\ l \in Labels \ {"idle", "prepare", "childerror"}
                      /\ pc' = [pc EXCEPT ![t] = l]
                      /\ UNCHANGED <<state, child>>
<1>1. ASSUME NEW l, Move(l), pc[t] # "idle", ~Hand(t)
      PROVE  /\ (Busy(t)' <=> Busy(t)) => InFlight' = InFlight
             /\ Busy(t) /\ ~Busy(t)' => t \in InFlight /\ InFlight' = InFlight \ {t}
             /\ pc'[t] = l /\ state'[t] = state[t]
  BY <1>0, <1>1, OwnFlight
<1> HIDE DEF Move
<1>2. CASE OnTaskCompleted(t)
  <2>1. /\ pc[t] = "completed" /\ pendingCount' = pendingCount
        /\ \/ Move("finish")
           \/ state[t] = "exception" /\ Move("error")
           \/ state[t] # "exception" /\ Move("check")
    BY <1>2 DEF OnTaskCompleted, graph, local, Move, Labels
  <2> QED
    BY <1>1, <2>1 DEF Busy, Hand, Uncounted
<1>3. CASE HandleTaskError(t) /\ pc[t] = "error"
  <2>1. /\ state[t] = "exception" /\ pendingCount' = pendingCount - 1
        /\ Move("errornotify")
    BY <1>3 DEF HandleTaskError, Errors, graph, local, Move, Labels
  <2> QED
    BY <1>1, <1>3, <2>1 DEF Busy, Hand, Uncounted
<1>4. CASE NotifyError(t)
  <2>1. /\ pendingCount' = pendingCount
        /\ \/ pc[t] = "errornotify" /\ state[t] = "exception" /\ Move("check")
           \/ pc[t] = "childnotify" /\ Move("children")
    BY <1>4 DEF NotifyError, Errors, graph, local, Move, Labels
  <2> QED
    BY <1>1, <2>1 DEF Busy, Hand, Uncounted
<1>5. CASE Check(t)
  <2>1. /\ pendingCount' = pendingCount /\ pc[t] = "check" /\ shutdown' = shutdown
        /\ \/ shutdown /\ Move("done")
           \/ state[t] = "exception" /\ Move("done")
           \/ Move("children")
    BY <1>5 DEF Check, graph, local, flags, Move, Labels
  <2> QED
    BY <1>1, <2>1 DEF Busy, Hand, Uncounted
<1>6. CASE SkipDone(t) \/ ChildrenDone(t)
  <2>1. /\ pendingCount' = pendingCount
        /\ \/ pc[t] = "skip" /\ Move("children")
           \/ pc[t] = "children" /\ Move("report")
    BY <1>6 DEF SkipDone, ChildrenDone, graph, local, Move, Labels
  <2> QED
    BY <1>1, <2>1 DEF Busy, Hand, Uncounted
<1>7. CASE Report(t)
  <2>1. /\ pendingCount' = pendingCount /\ pc[t] = "report"
        /\ \/ state[t] = "exception" /\ Move("done")
           \/ state[t] # "exception" /\ Move("finish")
    BY <1>7 DEF Report, graph, local, Move, Labels
  <2> QED
    BY <1>1, <2>1 DEF Busy, Hand, Uncounted
<1>8. CASE CountOut(t)
  <2>1. pendingCount' = pendingCount - 1 /\ pc[t] = "finish" /\ Move("notify")
    BY <1>8 DEF CountOut, graph, local, Move, Labels
  <2> QED
    BY <1>1, <2>1 DEF Busy, Hand, Uncounted
<1>9. CASE NotifyDone(t)
  <2>1. pendingCount' = pendingCount /\ pc[t] = "notify" /\ Move("done")
    BY <1>9 DEF NotifyDone, graph, local, Move, Labels
  <2> QED
    BY <1>1, <2>1 DEF Busy, Hand, Uncounted
<1>10. CASE Start(t) \/ Execute(t)
  <2>1. /\ pendingCount' = pendingCount /\ child' = child
        /\ pc[t] \in {"queued", "running"} /\ pc'[t] \in {"running", "completed"}
        /\ \A u \in Tasks : u # t => pc'[u] = pc[u] /\ state'[u] = state[u]
    BY <1>0, <1>10 DEF Start, Execute, local
  <2>2. /\ \A u \in Tasks : Busy(u)' <=> Busy(u)
        /\ \A u \in Tasks : Hand(u)' <=> Hand(u)
    BY <2>1 DEF Busy, Hand, Uncounted
  <2> QED
    BY <2>1, <2>2, SameFlight
<1>11. ASSUME NEW c \in Tasks, NotYet(t, c) \/ SkipChild(t, c) \/ SkipVisit(t, c)
       PROVE  Same
  <2>1. /\ pendingCount' = pendingCount /\ state' = state
        /\ pc[t] \in {"children", "skip"} /\ pc'[t] \in {"children", "skip", "skipset"}
        /\ \A u \in Tasks : u # t => pc'[u] = pc[u] /\ child'[u] = child[u]
    BY <1>0, <1>11 DEF NotYet, SkipChild, CountDown, SkipVisit, graph
  <2>2. /\ \A u \in Tasks : Busy(u)' <=> Busy(u)
        /\ \A u \in Tasks : Hand(u)' <=> Hand(u)
        /\ ~Hand(t)
    BY <2>1 DEF Busy, Hand, Uncounted
  <2> QED
    BY <2>1, <2>2, SameFlight
<1>12. CASE SkipSet(t)
  <2>1. /\ pc[t] = "skipset" /\ child[t] \in Tasks /\ FailedParent(child[t])
        /\ pc' = [pc EXCEPT ![t] = "skip"] /\ UNCHANGED <<child, pendingCount>>
        /\ state' = [state EXCEPT ![child[t]] = "exception"]
    BY <1>0, <1>12 DEF SkipSet, Skipping
  <2>2. pc[child[t]] = "idle"
    BY <1>0, <2>1, ValueNotSkipped
  <2>3. ASSUME NEW u \in Tasks
        PROVE  (Busy(u)' <=> Busy(u)) /\ (Hand(u)' <=> Hand(u))
    BY <1>0, <2>1, <2>2 DEF Busy, Hand, Uncounted
  <2> QED
    BY <2>1, <2>3, SameFlight
<1> QED
  BY <1>2, <1>3, <1>4, <1>5, <1>6, <1>7, <1>8, <1>9, <1>10, <1>11, <1>12
  DEF Moves, HandleTaskError

\* A child is taken into hand, is put down, and is handed to the executor.
LEMMA ChildFlight ==
  ASSUME IInv, Hands, Hands', Errors, NEW t \in Tasks
  PROVE  /\ \A c \in Tasks : ReadyChild(t, c) => Enters(c)
         /\ SubmitChild(t) \/ RejectInput(t) => Same
         /\ HandleTaskError(t) /\ pc[t] = "childerror" => Leaves(child[t])
<1>0. /\ pc \in [Tasks -> Labels] /\ child \in [Tasks -> Tasks \union {NoTask}]
      /\ state \in [Tasks -> {"pending", "running", "value", "exception"}]
      /\ TasksType /\ Prepared
      /\ Results /\ CountedDown /\ Counts /\ Begun /\ Submitted /\ Rejected
  BY DEF IInv, TypeOK, TasksType
<1>1. InFlight = {u \in Tasks : Busy(u) \/ Held(u)}
  BY InFlightIs
<1>2. InFlight' = {u \in Tasks : Busy(u)' \/ Held(u)'}
  BY DEF InFlight, Hands, Hand, Held, Busy
<1>3. ASSUME NEW c \in Tasks, ReadyChild(t, c) PROVE Enters(c)
  <2>1. /\ pc[t] = "children" /\ pc' = [pc EXCEPT ![t] = "prepare"] /\ state' = state
        /\ child' = [child EXCEPT ![t] = c] /\ pendingCount' = pendingCount + 1
    BY <1>3 DEF ReadyChild, CountDown, Goto
  <2>2. pc[c] = "idle" /\ c \in todo[t] /\ t \in Parents[c]
    BY <1>0, <1>3, ReleasedPending, LastParent
  <2>3. ~Busy(c) /\ ~Held(c)
    BY <2>2 DEF Busy, Held, Hands, Uncounted
  <2>4. \A u \in Tasks : Busy(u)' <=> Busy(u)
    BY <1>0, <2>1 DEF Busy, Uncounted
  <2>5. ASSUME NEW u \in Tasks PROVE Held(u)' <=> Held(u) \/ u = c
    <3>1. Hand(t)' /\ child'[t] = c /\ ~Hand(t)
      BY <1>0, <2>1 DEF Hand
    <3>2. \A v \in Tasks : v # t => (Hand(v)' <=> Hand(v)) /\ child'[v] = child[v]
      BY <1>0, <2>1 DEF Hand
    <3> QED
      BY <3>1, <3>2 DEF Held
  <2> QED
    BY <1>1, <1>2, <2>1, <2>3, <2>4, <2>5 DEF Enters
<1>4. ASSUME SubmitChild(t) PROVE Same
  <2>1. /\ pc[t] = "prepare" /\ UNCHANGED <<state, child, pendingCount>>
        /\ pc' = [pc EXCEPT ![t] = "children", ![child[t]] = "queued"]
        /\ child[t] \in Tasks /\ pc[child[t]] = "idle" /\ state[child[t]] = "pending"
    BY <1>0, <1>4 DEF SubmitChild, local, Prepared
  <2>2. PICK c : c = child[t]
    OBVIOUS
  <2>3. \A u \in Tasks : u # c => (Busy(u)' <=> Busy(u))
    BY <1>0, <2>1, <2>2 DEF Busy, Uncounted
  <2>4. Busy(c)' /\ Held(c) /\ c \in Tasks
    BY <1>0, <2>1, <2>2 DEF Busy, Held, Hand, Uncounted
  <2>5. ASSUME NEW u \in Tasks, u # c PROVE Held(u)' <=> Held(u)
    <3>1. \A v \in Tasks : v # t => (Hand(v)' <=> Hand(v))
      BY <1>0, <2>1 DEF Hand
    <3>2. ~Hand(t)'
      BY <1>0, <2>1 DEF Hand
    <3> QED
      BY <2>1, <2>2, <2>5, <3>1, <3>2 DEF Held
  <2>6. \A u \in Tasks : Busy(u)' \/ Held(u)' <=> Busy(u) \/ Held(u)
    BY <2>3, <2>4, <2>5
  <2>7. pendingCount' = pendingCount
    BY <2>1
  <2> QED
    BY <1>1, <1>2, <2>6, <2>7 DEF Same
<1>5. ASSUME RejectInput(t) PROVE Same
  <2>1. /\ pc[t] = "prepare" /\ pc' = [pc EXCEPT ![t] = "childerror"]
        /\ UNCHANGED <<child, pendingCount>>
        /\ state' = [state EXCEPT ![child[t]] = "exception"]
        /\ child[t] \in Tasks /\ pc[child[t]] = "idle" /\ t # child[t]
    BY <1>0, <1>5 DEF RejectInput, local, Prepared, Goto
  <2>2. state[t] # "exception" \/ ~Busy(t)
    BY <2>1 DEF Busy
  <2>3. ASSUME NEW u \in Tasks
        PROVE  (Busy(u)' <=> Busy(u)) /\ (Hand(u)' <=> Hand(u))
    BY <1>0, <2>1 DEF Busy, Hand, Uncounted
  <2>4. child' = child /\ pendingCount' = pendingCount
    BY <2>1
  <2>5. InFlight' = InFlight
    BY <2>3, <2>4, SameFlight
  <2> QED
    BY <2>4, <2>5 DEF Same
<1>6. ASSUME HandleTaskError(t), pc[t] = "childerror" PROVE Leaves(child[t])
  <2>1. /\ pc[t] = "childerror" /\ pc' = [pc EXCEPT ![t] = "childnotify"]
        /\ UNCHANGED <<state, child>> /\ pendingCount' = pendingCount - 1
    BY <1>6 DEF HandleTaskError, graph, local, Goto
  <2>2. PICK c : c = child[t]
    OBVIOUS
  <2>3. /\ c \in Tasks /\ pc[c] = "idle" /\ c # t
        /\ \A u \in Tasks : Hand(u) /\ child[u] = c => u = t
    BY <2>1, <2>2 DEF Hands, Hand
  <2>4. \A u \in Tasks : Busy(u)' <=> Busy(u)
    BY <1>0, <2>1 DEF Busy, Uncounted
  <2>5. Hand(t) /\ ~Hand(t)' /\ \A v \in Tasks : v # t => (Hand(v)' <=> Hand(v))
    BY <1>0, <2>1 DEF Hand
  <2>6. ~Held(c)' /\ Held(c) /\ \A u \in Tasks : u # c => (Held(u)' <=> Held(u))
    BY <2>1, <2>2, <2>3, <2>5 DEF Held
  <2>7. ~Busy(c)
    BY <2>3 DEF Busy, Uncounted
  <2>8. \A u \in Tasks : Busy(u)' \/ Held(u)' <=> (Busy(u) \/ Held(u)) /\ u # c
    BY <2>4, <2>6, <2>7
  <2>9. c \in Tasks /\ c \in InFlight /\ pendingCount' = pendingCount - 1
    BY <1>1, <2>1, <2>3, <2>6
  <2>10. InFlight' = InFlight \ {c}
    BY <1>1, <1>2, <2>8
  <2> QED
    BY <2>2, <2>9, <2>10 DEF Leaves
<1> QED
  BY <1>3, <1>4, <1>5, <1>6

\* A task that is submitted without a parent enters.
LEMMA FreshFlight ==
  ASSUME IInv, Hands, Hands', NEW d \in Tasks, Fresh(d), pendingCount' = pendingCount + 1
  PROVE  Enters(d)
<1>0. /\ pc \in [Tasks -> Labels] /\ TasksType /\ Results /\ Rejected
  BY DEF IInv, TypeOK, TasksType
<1>1. /\ pc[d] = "idle" /\ Parents[d] = {} /\ pc' = [pc EXCEPT ![d] = "queued"]
      /\ UNCHANGED <<state, child>>
  BY DEF Fresh, local
<1>2. ~Busy(d) /\ ~Held(d)
  BY <1>1 DEF Busy, Held, Hands, Uncounted
<1>3. Busy(d)' /\ \A u \in Tasks : u # d => (Busy(u)' <=> Busy(u))
  BY <1>0, <1>1 DEF Busy, Uncounted
<1>4. \A u \in Tasks : Hand(u)' <=> Hand(u)
  BY <1>0, <1>1 DEF Hand
<1>5. \A u \in Tasks : Held(u)' <=> Held(u)
  BY <1>1, <1>4 DEF Held
<1>6. InFlight = {u \in Tasks : Busy(u) \/ Held(u)}
  BY InFlightIs
<1>7. InFlight' = {u \in Tasks : Busy(u)' \/ Held(u)'}
  BY DEF InFlight, Hands, Hand, Held, Busy
<1> QED
  BY <1>2, <1>3, <1>5, <1>6, <1>7 DEF Enters

\* Every step, by what it does to the tasks in flight.
LEMMA FlightCases ==
  ASSUME IInv, Hands, Errors, [Next]_vars
  PROVE  \/ Reset /\ InFlight' = InFlight
         \/ Same
         \/ SubmitSource /\ Enters(Sources[round])
         \/ \E t, d \in Tasks : SubmitDynamicTask(t, d) /\ Enters(d)
         \/ \E t, c \in Tasks : ReadyChild(t, c) /\ Enters(c)
         \/ \E c \in Tasks : Leaves(c)
         \/ Abandons
<1>0. Hands' /\ Begun
  BY HandsStep DEF IInv
<1>1. ASSUME UNCHANGED <<graph, pc, local>> PROVE InFlight' = InFlight
  BY <1>1 DEF InFlight, Hand, graph, local
<1>2. CASE Aside
  <2>1. UNCHANGED <<graph, pc, local>>
    BY <1>2, AsideStep
  <2>2. Reset \/ pendingCount' = pendingCount
    BY <1>2 DEF Aside, Wait, TimeOut, Stop, Returned, Interrupt, Expire, Alarm,
       SetReason, SetShutdown, NotifyShutdown, Get, main
  <2> QED
    BY <1>1, <2>1, <2>2 DEF Same
<1>3. CASE InitializePendingCounts
  <2>1. UNCHANGED <<state, pc, local, pendingCount>>
    BY <1>3 DEF InitializePendingCounts
  <2> QED
    BY <2>1 DEF Same, InFlight, local
<1>4. CASE SubmitSource
  <2>1. mpc = "submit" /\ pc' = [pc EXCEPT ![Sources[round]] = "queued"]
        /\ UNCHANGED <<state, local>> /\ pendingCount' = pendingCount + 1
    BY <1>4 DEF SubmitSource, Goto, graph
  <2>2. round \in 1 .. Len(Sources) /\ pc[Sources[round]] = "idle"
    BY <1>0, <2>1, SourceIdle
  <2>3. Sources[round] \in Tasks /\ Parents[Sources[round]] = {}
    BY <2>2, GraphClosed, SourceFree
  <2>4. Fresh(Sources[round])
    BY <1>4, <2>1, <2>2, <2>3 DEF Fresh
  <2> QED
    BY <1>0, <1>4, <2>1, <2>3, <2>4, FreshFlight
<1>5. ASSUME NEW t \in Tasks, NEW d \in Tasks, SubmitDynamicTask(t, d)
      PROVE  Enters(d)
  <2>1. Fresh(d)
    BY <1>5, GuestFree DEF SubmitDynamicTask, Goto, Fresh
  <2>2. pendingCount' = pendingCount + 1
    BY <1>5 DEF SubmitDynamicTask
  <2> QED
    BY <1>0, <2>1, <2>2, FreshFlight
<1>6. ASSUME NEW t \in Tasks, Worker(t)
      PROVE  \/ Same \/ Abandons \/ (\E c \in Tasks : ReadyChild(t, c) /\ Enters(c))
             \/ \E c \in Tasks : Leaves(c)
  <2>1. CASE \E c \in Tasks : ReadyChild(t, c)
    BY <1>0, <2>1, ChildFlight
  <2>2. CASE SubmitChild(t) \/ RejectInput(t)
    BY <1>0, <2>2, ChildFlight
  <2>3. CASE HandleTaskError(t) /\ pc[t] = "childerror"
    BY <1>0, <2>3, ChildFlight DEF Leaves
  <2>4. CASE \/ Moves(t) /\ pc[t] # "childerror"
             \/ Start(t) \/ Execute(t)
             \/ \E c \in Tasks : NotYet(t, c) \/ SkipChild(t, c) \/ SkipVisit(t, c)
             \/ SkipSet(t)
    BY <1>0, <2>4, MoveFlight
  <2>5. Moves(t) /\ pc[t] = "childerror" => HandleTaskError(t)
    BY DEF Moves, OnTaskCompleted, NotifyError, Check, SkipDone, ChildrenDone,
       Report, CountOut, NotifyDone
  <2>6. Step(t)
    BY <1>6, Zenon DEF Worker, Step, Moves
  <2> QED
    BY <2>1, <2>2, <2>3, <2>4, <2>5, <2>6, Zenon DEF Step
<1>7. CASE Terminating \/ UNCHANGED vars
  <2>1. UNCHANGED vars
    BY <1>7 DEF Terminating
  <2> QED
    BY <1>1, <2>1 DEF vars, Same
<1> QED
  BY <1>2, <1>3, <1>4, <1>5, <1>6, <1>7, Zenon DEF Next, Main, Aside

-----------------------------------------------------------------------------
(* The calls of schedule() *)

\* Neither an error nor a shutdown ends a call early, or there is one call.
Calm == ~FailFast /\ ~MayInterrupt /\ ~HasWatchdog /\ ~Timed
Undisturbed == Len(Sources) <= 1 \/ Calm

\* Before the first call nothing has happened.
Unbegun == round = 0 => \A t \in Tasks : pc[t] = "idle" /\ state[t] = "pending"

\* Between calls nothing is in flight.
AtRest ==
  Calm => /\ ~shutdown /\ ~watching /\ alarm = "off"
          /\ mpc \in {"get", "idle", "initialize", "submit"} => InFlight = {}

\* When the wait on done_cv_ has ended for the count, nothing is in flight.
Drained ==
  mpc = "stop" /\ ~shutdown /\ ~(hasError /\ FailFast) => InFlight = {}

\* What belongs to a call that has returned normally is over.
Own(r) == Graph[r] \union UNION {Dynamic[u] : u \in Graph[r]}
Returns ==
  \A r \in 1 .. Len(Sources) : outcome[r] = "ok" =>
    /\ r <= round /\ (r = round => mpc \in {"get", "idle"})
    /\ Own(r) \intersect InFlight = {}

CountInv == IInv /\ Hands /\ Errors /\ Unbegun /\ AtRest /\ PendingExact
            /\ Drained /\ Returns

\* The steps of the thread in execute().
LEMMA MainStep ==
  ASSUME [Next]_vars
  PROVE  \/ /\ UNCHANGED <<round, outcome>>
            /\ mpc' = mpc \/ (mpc = "asleep" /\ mpc' = "wait")
         \/ Reset \/ InitializePendingCounts \/ SubmitSource \/ Wait \/ TimeOut
         \/ Stop \/ Returned \/ \E t \in Tasks : Get(t)
<1>1. CASE Main \/ TimeOut
  BY <1>1 DEF Main
<1>2. CASE Interrupt \/ Expire \/ Alarm
  BY <1>2 DEF Interrupt, Expire, Alarm, SetReason, SetShutdown, NotifyShutdown,
     Wake, main
<1>3. ASSUME NEW t \in Tasks, Worker(t)
      PROVE  /\ UNCHANGED <<round, outcome>>
             /\ mpc' = mpc \/ (mpc = "asleep" /\ mpc' = "wait")
  BY <1>3 DEF Worker, Start, Execute, OnTaskCompleted, HandleTaskError, NotifyError,
     NotifyDone, Check, NotYet, SkipChild, ReadyChild, CountDown, SubmitChild,
     RejectInput, SkipVisit, SkipSet, SkipDone, ChildrenDone, Report, CountOut,
     Wake, main
<1>4. ASSUME NEW t \in Tasks, NEW d \in Tasks, SubmitDynamicTask(t, d)
      PROVE  UNCHANGED main
  BY <1>4 DEF SubmitDynamicTask
<1>5. CASE Terminating \/ UNCHANGED vars
  BY <1>5 DEF Terminating, vars, main
<1> QED
  BY <1>1, <1>2, <1>3, <1>4, <1>5 DEF Next, main

\* Flags are only cleared by the next call, and only request_shutdown() and
\* the global timeout set shutdown_requested_.
LEMMA FlagStep ==
  ASSUME [Next]_vars, ~Reset
  PROVE  /\ hasError => hasError'
         /\ reason => reason'
         /\ \/ UNCHANGED shutdown
            \/ shutdown' /\ (SetShutdown \/ TimeOut)
<1> USE DEF flags
<1>1. CASE Main \/ TimeOut
  BY <1>1 DEF Main, InitializePendingCounts, SubmitSource, Wait, TimeOut, Stop,
     Returned, Get
<1>2. CASE Interrupt \/ Expire \/ Alarm
  BY <1>2 DEF Interrupt, Expire, Alarm, SetReason, SetShutdown, NotifyShutdown
<1>3. ASSUME NEW t \in Tasks, Worker(t)
      PROVE  /\ hasError => hasError'
             /\ UNCHANGED <<shutdown, reason>>
  BY <1>3 DEF Worker, Start, Execute, OnTaskCompleted, HandleTaskError, NotifyError,
     NotifyDone, Check, NotYet, SkipChild, ReadyChild, CountDown, SubmitChild,
     RejectInput, SkipVisit, SkipSet, SkipDone, ChildrenDone, Report, CountOut
<1>4. ASSUME NEW t \in Tasks, NEW d \in Tasks, SubmitDynamicTask(t, d)
      PROVE  UNCHANGED flags
  BY <1>4 DEF SubmitDynamicTask
<1>5. CASE Terminating \/ UNCHANGED vars
  BY <1>5 DEF Terminating, vars
<1> QED
  BY <1>1, <1>2, <1>3, <1>4, <1>5 DEF Next

\* Dynamic tasks are in nobody's graph; what belongs to a call is begun by
\* what belongs to it.
LEMMA GuestOutside ==
  ASSUME NEW r \in 1 .. Len(Sources), NEW d \in Guests
  PROVE  d \notin Graph[r]
<1>1. SUFFICES ASSUME d \in Graph[r] PROVE FALSE
  OBVIOUS
<1>2. Graph[r] = Reachable(Sources[r])
  BY DEF Graph
<1>3. Parents[d] = {}
  BY GraphAssumption
<1> DEFINE S == Graph[r] \ {d}
<1>4. S \in SUBSET Tasks /\ Sources[r] \in S
  BY GraphClosed, SourceFree
<1>5. ASSUME NEW x \in S PROVE Children(x) \subseteq S
  <2>1. Children(x) \subseteq Graph[r]
    BY GraphClosed
  <2>2. d \notin Children(x)
    BY <1>3 DEF Children
  <2> QED
    BY <2>1, <2>2
<1>6. d \in S
  BY <1>1, <1>2, <1>4, <1>5 DEF Reachable
<1> QED
  BY <1>6

LEMMA OwnApart ==
  ASSUME NEW r \in 1 .. Len(Sources), NEW c \in Own(r)
  PROVE  /\ \A i \in 1 .. Len(Sources) : c = Sources[i] => i = r
         /\ \A t \in Tasks : c \in Dynamic[t] => t \in Graph[r]
         /\ IInv => \A t \in Tasks : ReadyChild(t, c) => t \in Graph[r]
<1>1. \A x \in Graph[r] : x \in Tasks
  BY GraphClosed
<1>2. c \in Graph[r] \/ c \in Guests
  BY <1>1 DEF Own, Guests
<1>3. ASSUME NEW i \in 1 .. Len(Sources), c = Sources[i] PROVE i = r
  <2>1. c \in Graph[i] /\ c \notin Guests
    BY <1>3, GraphClosed, SourceFree
  <2> QED
    BY <1>2, <2>1, GraphsDisjoint
<1>4. ASSUME NEW t \in Tasks, c \in Dynamic[t] PROVE t \in Graph[r]
  <2>1. c \notin Graph[r]
    BY <1>4, GuestFree, GuestOutside
  <2>2. PICK u \in Graph[r] : c \in Dynamic[u]
    BY <2>1 DEF Own
  <2>3. u = t
    BY <1>1, <1>4, <2>2, GraphAssumption
  <2> QED
    BY <2>3
<1>5. ASSUME IInv, NEW t \in Tasks, ReadyChild(t, c) PROVE t \in Graph[r]
  <2>1. pc[t] = "children" /\ c \in todo[t] /\ c \in Children(t)
    BY <1>5 DEF ReadyChild, CountDown, IInv, CountedDown
  <2>2. c \in Graph[r] /\ t \notin Guests
    BY <1>2, <2>1, GraphAssumption DEF Children
  <2>3. PICK i \in 1 .. Len(Sources) : t \in Graph[i]
    BY <1>5, <2>1, <2>2 DEF IInv, Begun
  <2>4. c \in Graph[i]
    BY <2>1, <2>3, GraphClosed
  <2>5. i = r
    BY <2>2, <2>4, GraphsDisjoint
  <2> QED
    BY <2>3, <2>5
<1> QED
  BY <1>3, <1>4, <1>5

\* Who submits another task is in flight itself.
LEMMA SubmitterBusy ==
  ASSUME IInv, Hands, NEW t \in Tasks, NEW c \in Tasks,
         SubmitDynamicTask(t, c) \/ ReadyChild(t, c)
  PROVE  t \in InFlight
<1>1. CASE SubmitDynamicTask(t, c)
  BY <1>1, InFlightIs DEF SubmitDynamicTask, Busy, Uncounted
<1>2. CASE ReadyChild(t, c)
  <2>1. t \in Parents[c] /\ pc[t] = "children" /\ state[t] = "value"
    BY <1>2, LastParent DEF IInv, TypeOK, ReadyChild, CountDown
  <2> QED
    BY <2>1, InFlightIs DEF Busy, Uncounted
<1> QED
  BY <1>1, <1>2

\* When nothing is in flight, only schedule() changes that.
LEMMA StaysQuiet ==
  ASSUME IInv, Hands, Errors, InFlight = {}, ~SubmitSource, [Next]_vars
  PROVE  InFlight' = {}
<1>1. \A t, c \in Tasks : ~SubmitDynamicTask(t, c) /\ ~ReadyChild(t, c)
  BY SubmitterBusy
<1> QED
  BY <1>1, FlightCases DEF Same, Leaves, Abandons

\* The same for the tasks that belong to one call.
LEMMA OwnQuiet ==
  ASSUME IInv, Hands, Errors, NEW r \in 1 .. Len(Sources),
         Own(r) \intersect InFlight = {}, [Next]_vars,
         SubmitSource => round # r
  PROVE  Own(r) \intersect InFlight' = {}
<1> DEFINE O == Own(r)
<1>0. \A t \in Graph[r] : t \in O
  BY DEF Own
<1>1. ASSUME NEW t \in Tasks, NEW c \in Tasks, SubmitDynamicTask(t, c) \/ ReadyChild(t, c)
      PROVE  c \notin O
  <2>1. SUFFICES ASSUME c \in O PROVE FALSE
    OBVIOUS
  <2>2. t \in Graph[r]
    BY <1>1, <2>1, OwnApart DEF SubmitDynamicTask
  <2> QED
    BY <1>0, <1>1, <2>2, SubmitterBusy
<1>2. ASSUME SubmitSource PROVE Sources[round] \notin O
  <2>1. round \in 1 .. Len(Sources) /\ round # r
    BY <1>2, SourceIdle DEF SubmitSource, IInv
  <2> QED
    BY <2>1, OwnApart
<1>3. O \intersect InFlight = {}
  OBVIOUS
<1> HIDE DEF O
<1>4. O \intersect InFlight' = {}
  BY <1>1, <1>2, <1>3, FlightCases DEF Same, Enters, Leaves, Abandons
<1> QED
  BY <1>4 DEF O

LEMMA UnbegunQuiet ==
  ASSUME IInv, Unbegun, round = 0
  PROVE  InFlight = {} /\ mpc = "idle"
BY SchedulerAssumption DEF IInv, Begun, Unbegun, InFlight, Uncounted

LEMMA UnbegunStep ==
  ASSUME IInv, Hands, Errors, Unbegun, [Next]_vars
  PROVE  Unbegun'
<1>0. /\ TypeOK /\ Begun /\ pc \in [Tasks -> Labels] /\ round \in Nat
  BY SchedulerAssumption DEF IInv, TypeOK, TasksType, MainType
<1>1. SUFFICES ASSUME round' = 0 PROVE \A t \in Tasks : pc'[t] = "idle" /\ state'[t] = "pending"
  BY DEF Unbegun
<1>2. round = 0 /\ ~Reset
  <2>1. ~Reset
    BY <1>0, <1>1 DEF Reset
  <2> QED
    BY <1>1, <2>1, CallStep
<1>3. /\ InFlight = {} /\ mpc = "idle"
      /\ \A t \in Tasks : pc[t] = "idle" /\ state[t] = "pending"
  BY <1>2, UnbegunQuiet DEF Unbegun
<1>4. InFlight' = {}
  BY <1>3, StaysQuiet DEF SubmitSource
<1>5. ASSUME NEW d \in Tasks, Fresh(d) PROVE FALSE
  <2>1. pc'[d] = "queued"
    BY <1>0, <1>5 DEF Fresh
  <2>2. d \in InFlight'
    BY <2>1 DEF InFlight, Uncounted
  <2> QED
    BY <1>4, <2>2
<1>6. ASSUME NEW t \in Tasks, Step(t) PROVE FALSE
  <2>1. pc[t] = "idle"
    BY <1>3
  <2> QED
    BY <1>6, <2>1 DEF Step, Start, Execute, Moves, OnTaskCompleted, HandleTaskError,
       NotifyError, Check, NotYet, SkipChild, ReadyChild, CountDown, SubmitChild,
       RejectInput, SkipVisit, SkipSet, SkipDone, ChildrenDone, Report, CountOut,
       NotifyDone
<1>7. Still
  BY <1>0, <1>5, <1>6, Cases
<1> QED
  BY <1>3, <1>7 DEF Still

LEMMA AtRestStep ==
  ASSUME IInv, Hands, Errors, AtRest, Drained, [Next]_vars
  PROVE  AtRest'
<1>0. SUFFICES ASSUME Calm
               PROVE  /\ ~shutdown' /\ ~watching' /\ alarm' = "off"
                      /\ mpc' \in {"get", "idle", "initialize", "submit"} => InFlight' = {}
  BY DEF AtRest, Calm
<1>1. /\ ~shutdown /\ ~watching /\ alarm = "off" /\ ~FailFast /\ ~MayInterrupt
      /\ ~HasWatchdog /\ ~Timed
  BY <1>0 DEF AtRest, Calm
<1>2. ~TimeOut /\ ~Interrupt /\ ~Expire /\ ~Alarm
  BY <1>1 DEF TimeOut, Interrupt, Expire, Alarm, SetReason, SetShutdown, NotifyShutdown
<1>3. ~shutdown'
  <2>1. CASE Reset
    BY <2>1 DEF Reset
  <2>2. CASE ~Reset
    BY <1>1, <1>2, <2>2, FlagStep DEF Alarm
  <2> QED
    BY <2>1, <2>2
<1>4. ~watching' /\ alarm' = "off"
  <2>1. CASE Main
    BY <1>1, <2>1 DEF Main, Reset, InitializePendingCounts, SubmitSource, Wait, Stop,
       Returned, Get, flags
  <2>2. ASSUME NEW t \in Tasks, Worker(t) PROVE UNCHANGED <<watching, alarm>>
    BY <2>2 DEF Worker, Start, Execute, OnTaskCompleted, HandleTaskError, NotifyError,
       NotifyDone, Check, NotYet, SkipChild, ReadyChild, CountDown, SubmitChild,
       RejectInput, SkipVisit, SkipSet, SkipDone, ChildrenDone, Report, CountOut, flags
  <2>3. ASSUME NEW t \in Tasks, NEW d \in Tasks, SubmitDynamicTask(t, d)
        PROVE  UNCHANGED <<watching, alarm>>
    BY <2>3 DEF SubmitDynamicTask, flags
  <2>4. CASE Terminating \/ UNCHANGED vars
    BY <1>1, <2>4 DEF Terminating, vars, flags
  <2> QED
    BY <1>1, <1>2, <2>1, <2>2, <2>3, <2>4 DEF Next
<1>5. ASSUME mpc' \in {"get", "idle", "initialize", "submit"} PROVE InFlight' = {}
  <2>1. ~SubmitSource /\ ~Wait
    BY <1>5 DEF SubmitSource, Wait
  <2>2. mpc \in {"get", "idle", "initialize", "submit", "stop"}
    BY <1>2, <1>5, <2>1, MainStep DEF Reset, InitializePendingCounts, Stop, Returned, Get
  <2>3. InFlight = {}
    BY <1>0, <1>1, <2>2 DEF AtRest, Drained
  <2> QED
    BY <2>1, <2>3, StaysQuiet
<1> QED
  BY <1>3, <1>4, <1>5

\* The tasks in flight are finitely many.
LEMMA FlightFinite ==
  ASSUME Hands
  PROVE  /\ IsFiniteSet(InFlight) /\ Cardinality(InFlight) \in Nat
         /\ Cardinality(InFlight) = 0 <=> InFlight = {}
<1>1. InFlight \in SUBSET Tasks
  BY InFlightIs
<1>2. IsFiniteSet(InFlight)
  BY <1>1, FS_Subset, SchedulerAssumption
<1> QED
  BY <1>2, FS_CardinalityType, FS_EmptySet

LEMMA DrainedStep ==
  ASSUME IInv, Hands, Errors, PendingExact, Drained, [Next]_vars
  PROVE  Drained'
<1>0. SUFFICES ASSUME mpc' = "stop", ~shutdown', ~(hasError' /\ FailFast)
               PROVE  InFlight' = {}
  BY DEF Drained
<1>1. ~SubmitSource /\ ~Reset
  BY <1>0 DEF SubmitSource, Reset
<1>2. ~shutdown /\ ~(hasError /\ FailFast)
  BY <1>0, <1>1, FlagStep
<1>3. CASE mpc = "stop"
  <2>1. InFlight = {}
    BY <1>2, <1>3 DEF Drained
  <2> QED
    BY <1>1, <2>1, StaysQuiet
<1>4. CASE mpc # "stop"
  <2>1. Wait \/ TimeOut
    BY <1>0, <1>1, <1>4, MainStep DEF InitializePendingCounts, Stop, Returned, Get
  <2>2. IsDone
    BY <1>0, <2>1 DEF Wait, TimeOut
  <2>3. pendingCount = 0
    BY <1>2, <2>2 DEF IsDone
  <2>4. InFlight = {}
    BY <1>2, <2>3, FlightFinite DEF PendingExact
  <2> QED
    BY <1>1, <2>4, StaysQuiet
<1> QED
  BY <1>3, <1>4

LEMMA ExactStep ==
  ASSUME Undisturbed, IInv, Hands, Errors, Unbegun, AtRest, PendingExact, [Next]_vars
  PROVE  PendingExact'
<1>0. /\ round \in Nat /\ pendingCount \in Int /\ Len(Sources) \in Nat
      /\ IsFiniteSet(InFlight) /\ Cardinality(InFlight) \in Nat
  BY FlightFinite, SchedulerAssumption DEF IInv, TypeOK, MainType
<1>1. SUFFICES ASSUME ~shutdown' PROVE pendingCount' = Cardinality(InFlight')
  BY DEF PendingExact, InFlight
<1>2. CASE Reset
  <2>1. InFlight = {}
    <3>1. CASE Len(Sources) <= 1
      BY <1>0, <1>2, <3>1, UnbegunQuiet DEF Reset
    <3>2. CASE Calm
      BY <1>2, <3>2 DEF AtRest, Reset
    <3> QED
      BY <3>1, <3>2 DEF Undisturbed
  <2>2. InFlight' = {}
    BY <1>2, <2>1, StaysQuiet DEF Reset, SubmitSource
  <2> QED
    BY <1>2, <2>2, FS_EmptySet DEF Reset
<1>3. CASE ~Reset
  <2>1. ~shutdown
    BY <1>1, <1>3, FlagStep
  <2>2. pendingCount = Cardinality(InFlight)
    BY <2>1 DEF PendingExact
  <2>3. CASE Same
    BY <2>2, <2>3 DEF Same
  <2>4. ASSUME NEW c, Enters(c) PROVE pendingCount' = Cardinality(InFlight')
    BY <1>0, <2>2, <2>4, FS_AddElement DEF Enters
  <2>5. ASSUME NEW c, Leaves(c) PROVE pendingCount' = Cardinality(InFlight')
    BY <1>0, <2>2, <2>5, FS_RemoveElement DEF Leaves
  <2> QED
    BY <1>1, <1>3, <2>3, <2>4, <2>5, FlightCases DEF Abandons
<1> QED
  BY <1>2, <1>3

LEMMA ReturnsStep ==
  ASSUME IInv, Hands, Errors, Drained, Returns, [Next]_vars
  PROVE  Returns'
<1>0. /\ round \in Nat /\ Len(Sources) \in Nat
      /\ outcome \in [1 .. Len(Sources) -> Outcomes]
      /\ mpc # "idle" => round \in 1 .. Len(Sources)
  BY SchedulerAssumption DEF IInv, TypeOK, MainType, Begun
<1>1. SUFFICES ASSUME NEW r \in 1 .. Len(Sources), outcome'[r] = "ok"
               PROVE  /\ r <= round' /\ (r = round' => mpc' \in {"get", "idle"})
                      /\ Own(r) \intersect InFlight' = {}
  BY DEF Returns, Own
<1>2. CASE outcome[r] = "ok"
  <2>1. /\ r <= round /\ (r = round => mpc \in {"get", "idle"})
        /\ Own(r) \intersect InFlight = {}
    BY <1>2 DEF Returns
  <2>2. Own(r) \intersect InFlight' = {}
    BY <2>1, OwnQuiet DEF SubmitSource
  <2>3. CASE Reset
    BY <1>0, <2>1, <2>2, <2>3 DEF Reset
  <2>4. CASE ~Reset
    <3>1. round' = round
      BY <2>4, CallStep
    <3>2. r = round => mpc' \in {"get", "idle"}
      BY <2>1, <2>4, MainStep DEF InitializePendingCounts, SubmitSource, Wait, TimeOut,
         Stop, Returned, Get
    <3> QED
      BY <2>1, <2>2, <3>1, <3>2
  <2> QED
    BY <2>3, <2>4
<1>3. CASE outcome[r] # "ok"
  <2>1. Stop
    <3>1. CASE Reset \/ InitializePendingCounts \/ SubmitSource \/ Wait \/ Returned
      BY <1>1, <1>3, <3>1 DEF Reset, InitializePendingCounts, SubmitSource, Wait, Returned
    <3>2. CASE TimeOut
      BY <1>0, <1>1, <1>3, <3>2 DEF TimeOut, Finish
    <3>3. ASSUME NEW t \in Tasks, Get(t) PROVE FALSE
      BY <1>0, <1>1, <1>3, <3>3 DEF Get, Finish
    <3> QED
      BY <1>1, <1>3, <3>1, <3>2, <3>3, MainStep
  <2>2. PICK o : outcome' = [outcome EXCEPT ![round] = o]
    BY <2>1 DEF Stop, Finish
  <2>3. /\ round' = round /\ r = round /\ mpc' = "get"
        /\ ~shutdown /\ ~(hasError /\ FailFast) /\ mpc = "stop"
    <3>1. r = round
      BY <1>0, <1>1, <1>3, <2>2
    <3>2. mpc = "stop" /\ round' = round
      BY <2>1 DEF Stop
    <3> QED
      BY <1>0, <1>1, <2>1, <3>1, <3>2 DEF Stop, Finish
  <2>4. InFlight' = {}
    BY <2>3, StaysQuiet DEF Drained, SubmitSource
  <2> QED
    BY <2>3, <2>4
<1> QED
  BY <1>2, <1>3

LEMMA CountInvariance ==
  ASSUME Undisturbed
  PROVE  Spec => []CountInv
<1>1. Init => CountInv
  <2>1. ASSUME Init PROVE InFlight = {} /\ Cardinality(InFlight) = 0
    <3>1. InFlight = {}
      BY <2>1 DEF Init, InFlight, Uncounted
    <3> QED
      BY <3>1, FS_EmptySet
  <2>2. Init => Unbegun /\ AtRest /\ PendingExact /\ Drained /\ Returns
    BY <2>1 DEF Init, Unbegun, AtRest, PendingExact, Drained, Returns
  <2> QED
    BY <2>2, InitIInv, InitReaders DEF CountInv
<1>2. CountInv /\ [Next]_vars => CountInv'
  BY Inductive, HandsStep, ErrorsStep, UnbegunStep, AtRestStep, ExactStep, DrainedStep,
     ReturnsStep DEF CountInv
<1> QED
  BY <1>1, <1>2, PTL DEF Spec

\* pending_count_, which on_task_completed() and handle_task_error() of many
\* workers add to and take from without a lock, is the number of tasks in flight
\* until a shutdown, however tasks fail, are skipped or submit others.
THEOREM PendingIsExact ==
  ASSUME Undisturbed
  PROVE  Spec => []PendingExact
<1>1. CountInv => PendingExact
  BY DEF CountInv
<1> QED
  BY <1>1, CountInvariance, PTL

\* When schedule() returns normally, no function of a task of the call, or of a
\* task that these submitted, runs or will ever run.
THEOREM NormalReturn ==
  ASSUME Undisturbed
  PROVE  Spec => []QuietOnReturn
<1>1. ASSUME CountInv PROVE QuietOnReturn
  <2> SUFFICES ASSUME NEW r \in 1 .. Len(Sources), outcome[r] = "ok",
                      NEW t \in Own(r), pc[t] \in {"queued", "running"}
               PROVE  FALSE
    BY DEF QuietOnReturn, Own
  <2>1. t \in Tasks
    BY GraphClosed, GuestFree DEF Own
  <2>2. t \in InFlight
    BY <1>1, <2>1, InFlightIs DEF Busy, Uncounted, CountInv
  <2> QED
    BY <1>1, <2>2 DEF CountInv, Returns
<1> QED
  BY <1>1, CountInvariance, PTL

-----------------------------------------------------------------------------
(* What the outcome of a call means *)

\* An error has a cause: the watchdog, that is about to give its reason or has
\* given it, or a task that failed.
Failed == \E t \in Tasks : state[t] = "exception"
Causes ==
  /\ hasError => reason \/ alarm = "error" \/ Failed
  /\ \A r \in 1 .. Len(Sources) : outcome[r] = "error" => Failed

\* Under FAIL_FAST nobody is skipped.
NoSkip == \A t \in Tasks : pc[t] \notin {"skip", "skipset"}

\* Until a shutdown, an exception is on its way to has_error_, or has got there.
Reported ==
  ~shutdown /\ ~hasError => \A t \in Tasks : state[t] = "exception" =>
    pc[t] = "completed" \/ \E u \in Tasks : pc[u] = "childerror" /\ child[u] = t

\* Who is through with on_task_completed() has looked at all children.
Through ==
  ~shutdown => \A t \in Tasks :
    pc[t] \in {"report", "finish", "notify", "done"} =>
      todo[t] = {} \/ state[t] = "exception"

\* Whom all parents have counted down was taken into hand by one of them.
NotStranded ==
  \A c \in Tasks :
    Parents[c] # {} /\ (\A p \in Parents[c] : c \notin todo[p]) =>
      \/ pc[c] # "idle" \/ state[c] = "exception"
      \/ \E u \in Tasks : pc[u] = "prepare" /\ child[u] = c

SourceBegun == \A r \in 1 .. Len(Sources) : Started(r) => pc[Sources[r]] # "idle"

\* What a normal return means.
Complete ==
  \A r \in 1 .. Len(Sources) : outcome[r] = "ok" =>
    \A t \in Graph[r] : state[t] = "value"

FastInv == FailFast => NoSkip /\ Reported /\ Through /\ NotStranded /\ Complete
OutInv  == CountInv /\ Causes /\ SourceBegun /\ FastInv

\* The shape of the graph: tasks of a call depend on tasks of that call, and
\* not on each other.
Rooted  == \A r \in 1 .. Len(Sources) : \A t \in Graph[r] : Parents[t] \subseteq Graph[r]
Acyclic == \A S \in SUBSET Tasks : S # {} => \E t \in S : Parents[t] \intersect S = {}

\* A worker's own steps, by where they lead.
LEMMA WhereTo ==
  ASSUME IInv, NEW t \in Tasks, Step(t)
  PROVE  /\ FailFast /\ pc'[t] \in {"skip", "skipset"} => pc[t] \in {"skip", "skipset"}
         /\ pc'[t] \in {"report", "finish", "notify", "done"} =>
              \/ pc[t] \in {"report", "finish", "notify", "done"}
              \/ shutdown \/ state[t] = "exception" \/ todo[t] = {}
         /\ pc[t] = "completed" => OnTaskCompleted(t)
<1>0. pc \in [Tasks -> Labels] /\ Prepared
  BY DEF IInv, TypeOK, TasksType
<1> USE DEF Goto
<1>1. CASE Start(t) \/ Execute(t)
  BY <1>0, <1>1 DEF Start, Execute
<1>2. CASE Moves(t)
  BY <1>0, <1>2 DEF Moves, OnTaskCompleted, HandleTaskError, NotifyError, Check,
     SkipDone, ChildrenDone, Report, CountOut, NotifyDone
<1>3. ASSUME NEW c \in Tasks, NotYet(t, c) \/ SkipChild(t, c) \/ ReadyChild(t, c)
      PROVE  /\ pc[t] = "children"
             /\ pc'[t] \in {"children", "prepare"} \/ (~FailFast /\ pc'[t] = "skip")
  BY <1>0, <1>3 DEF NotYet, SkipChild, ReadyChild, CountDown
<1>4. CASE SubmitChild(t)
  <2>1. child[t] \in Tasks /\ pc[child[t]] = "idle" /\ pc[t] = "prepare"
    BY <1>0, <1>4 DEF SubmitChild, Prepared
  <2>2. pc'[t] = "children"
    BY <1>0, <1>4, <2>1 DEF SubmitChild
  <2> QED
    BY <2>1, <2>2
<1>5. CASE RejectInput(t) \/ SkipSet(t)
  BY <1>0, <1>5 DEF RejectInput, SkipSet
<1>6. ASSUME NEW d \in Tasks, SkipVisit(t, d)
      PROVE  pc[t] = "skip" /\ pc'[t] \in {"skip", "skipset"}
  BY <1>0, <1>6 DEF SkipVisit
<1> QED
  BY <1>1, <1>2, <1>3, <1>4, <1>5, <1>6 DEF Step

\* Who takes a child off a list.
LEMMA TodoStep ==
  ASSUME IInv, [Next]_vars, NEW p \in Tasks, NEW c \in Tasks,
         c \in todo[p], c \notin todo'[p]
  PROVE  NotYet(p, c) \/ SkipChild(p, c) \/ ReadyChild(p, c)
<1>0. TasksType /\ Results /\ Begun /\ todo \in [Tasks -> SUBSET Tasks]
  BY DEF IInv, TypeOK, TasksType
<1>1. ASSUME NEW t \in Tasks, Step(t) PROVE NotYet(p, c) \/ SkipChild(p, c) \/ ReadyChild(p, c)
  <2>1. ASSUME NEW e \in Tasks, NotYet(t, e) \/ SkipChild(t, e) \/ ReadyChild(t, e)
        PROVE  t = p /\ e = c
    <3>1. todo' = [todo EXCEPT ![t] = @ \ {e}]
      BY <2>1 DEF NotYet, SkipChild, ReadyChild, CountDown
    <3> QED
      BY <1>0, <3>1
  <2>2. ~Moves(t)
    BY <1>0, MoveStep DEF local
  <2> QED
    BY <1>1, <2>1, <2>2 DEF Step, Start, Execute, SubmitChild, RejectInput, SkipVisit,
       SkipSet, local
<1> QED
  BY <1>0, <1>1, Cases DEF Still, Fresh, local

\* With one call, its beginning finds the tasks untouched.
LEMMA ResetFresh ==
  ASSUME Len(Sources) <= 1, IInv, Unbegun, Reset
  PROVE  \A t \in Tasks : pc'[t] = "idle" /\ state'[t] = "pending"
<1>1. round = 0
  BY SchedulerAssumption DEF IInv, TypeOK, MainType, Reset
<1> QED
  BY <1>1 DEF Unbegun, Reset, graph

LEMMA CausesStep ==
  ASSUME IInv, Hands, Errors, Causes, [Next]_vars
  PROVE  Causes'
<1>0. Forward /\ outcome \in [1 .. Len(Sources) -> Outcomes]
  BY Inductive DEF IInv, TypeOK, MainType
<1>1. Failed => Failed'
  BY <1>0 DEF Failed, Forward, IsReady
<1>2. ~Reset /\ reason => reason'
  BY FlagStep
<1>3. ASSUME hasError' PROVE (reason \/ alarm = "error" \/ Failed)'
  <2>0. ~Reset
    BY <1>3 DEF Reset
  <2>1. CASE Main \/ TimeOut \/ Interrupt \/ Alarm
    <3>1. /\ hasError' = hasError
          /\ alarm = "error" => alarm' = "error" \/ reason'
      BY <2>0, <2>1 DEF Main, InitializePendingCounts, SubmitSource, Wait, Stop,
         Returned, Get, TimeOut, Interrupt, Alarm, SetReason, SetShutdown,
         NotifyShutdown, flags
    <3> QED
      BY <1>1, <1>2, <1>3, <2>0, <3>1 DEF Causes
  <2>2. CASE Expire
    BY <2>2 DEF Expire
  <2>3. ASSUME NEW t \in Tasks, Worker(t), hasError' # hasError
        PROVE  Failed'
    <3>1. CASE OnTaskCompleted(t)
      BY <1>1, <2>3, <3>1 DEF OnTaskCompleted, Failed
    <3>2. CASE HandleTaskError(t)
      BY <1>1, <3>2 DEF HandleTaskError, Errors, Hands, Hand, Failed
    <3>3. CASE ~OnTaskCompleted(t) /\ ~HandleTaskError(t)
      BY <2>3, <3>3 DEF Worker, Start, Execute, NotifyError, NotifyDone, Check, NotYet,
         SkipChild, ReadyChild, CountDown, SubmitChild, RejectInput, SkipVisit, SkipSet,
         SkipDone, ChildrenDone, Report, CountOut, flags
    <3> QED
      BY <3>1, <3>2, <3>3
  <2>4. ASSUME NEW t \in Tasks, Worker(t) PROVE alarm' = alarm
    BY <2>4 DEF Worker, Start, Execute, OnTaskCompleted, HandleTaskError, NotifyError,
       NotifyDone, Check, NotYet, SkipChild, ReadyChild, CountDown, SubmitChild,
       RejectInput, SkipVisit, SkipSet, SkipDone, ChildrenDone, Report, CountOut
  <2>5. ASSUME NEW t \in Tasks, NEW d \in Tasks, SubmitDynamicTask(t, d)
        PROVE  UNCHANGED <<hasError, alarm>>
    BY <2>5 DEF SubmitDynamicTask, flags
  <2>6. CASE Terminating \/ UNCHANGED vars
    <3>1. UNCHANGED <<hasError, alarm>>
      BY <2>6 DEF Terminating, vars, flags
    <3> QED
      BY <1>1, <1>2, <1>3, <2>0, <3>1 DEF Causes
  <2>7. CASE hasError' = hasError /\ alarm' = alarm
    BY <1>1, <1>2, <1>3, <2>0, <2>7 DEF Causes
  <2>8. CASE Failed'
    BY <2>8
  <2> QED
    BY <2>1, <2>2, <2>3, <2>4, <2>5, <2>6, <2>7, <2>8 DEF Next
<1>4. ASSUME NEW r \in 1 .. Len(Sources), outcome'[r] = "error" PROVE Failed'
  <2>1. CASE outcome[r] = "error"
    BY <1>1, <2>1 DEF Causes
  <2>2. CASE outcome[r] # "error"
    <3>1. CASE Reset \/ InitializePendingCounts \/ SubmitSource \/ Wait \/ Returned
      BY <1>4, <2>2, <3>1 DEF Reset, InitializePendingCounts, SubmitSource, Wait, Returned
    <3>2. CASE TimeOut
      BY <1>0, <1>4, <2>2, <3>2 DEF TimeOut, Finish
    <3>3. ASSUME NEW t \in Tasks, Get(t) PROVE Failed'
      <4>1. state[t] = "exception"
        BY <1>4, <2>2, <3>3 DEF Get
      <4> QED
        BY <1>1, <4>1 DEF Failed
    <3>4. CASE Stop
      <4>1. hasError /\ ~reason /\ alarm # "error"
        BY <1>0, <1>4, <2>2, <3>4 DEF Stop, Finish
      <4> QED
        BY <1>1, <4>1 DEF Causes
    <3> QED
      BY <1>4, <2>2, <3>1, <3>2, <3>3, <3>4, MainStep
  <2> QED
    BY <2>1, <2>2
<1> QED
  BY <1>3, <1>4 DEF Causes, Failed

LEMMA SourceBegunStep ==
  ASSUME IInv, SourceBegun, [Next]_vars
  PROVE  SourceBegun'
<1>0. /\ Forward /\ pc \in [Tasks -> Labels] /\ round \in Nat /\ Begun
      /\ Len(Sources) \in Nat
  BY Inductive, SchedulerAssumption DEF IInv, TypeOK, MainType, TasksType
<1>1. SUFFICES ASSUME NEW r \in 1 .. Len(Sources), Started(r)'
               PROVE  pc'[Sources[r]] # "idle"
  BY DEF SourceBegun
<1>2. Sources[r] \in Tasks
  BY GraphClosed
<1>3. CASE Started(r)
  BY <1>0, <1>2, <1>3 DEF SourceBegun, Forward
<1>4. CASE SubmitSource /\ r = round
  BY <1>0, <1>2, <1>4 DEF SubmitSource, Goto
<1>5. Started(r) \/ (SubmitSource /\ r = round)
  <2>1. CASE Reset
    BY <1>0, <1>1, <2>1 DEF Reset, Started, Initialized
  <2>2. CASE InitializePendingCounts
    BY <1>0, <1>1, <2>2 DEF InitializePendingCounts, Started, Initialized
  <2>3. CASE SubmitSource
    BY <1>0, <1>1, <2>3 DEF SubmitSource, Started, Initialized
  <2>4. CASE round' = round /\ \/ mpc' = mpc
                               \/ /\ mpc \notin {"initialize", "submit"}
                                  /\ mpc' \notin {"initialize", "submit"}
    BY <1>1, <2>4 DEF Started, Initialized
  <2> QED
    BY <2>1, <2>2, <2>3, <2>4, CallStep
<1> QED
  BY <1>3, <1>4, <1>5

LEMMA NoSkipStep ==
  ASSUME FailFast, IInv, NoSkip, [Next]_vars
  PROVE  NoSkip'
<1>0. Begun /\ pc \in [Tasks -> Labels]
  BY DEF IInv, TypeOK, TasksType
<1>1. SUFFICES ASSUME NEW u \in Tasks PROVE pc'[u] \notin {"skip", "skipset"}
  BY DEF NoSkip
<1>2. CASE Still \/ \E d \in Tasks : Fresh(d)
  BY <1>0, <1>2 DEF Still, Fresh, NoSkip
<1>3. ASSUME NEW t \in Tasks, Step(t) PROVE pc'[u] \notin {"skip", "skipset"}
  BY <1>3, WhereTo, OwnStep DEF NoSkip
<1> QED
  BY <1>0, <1>2, <1>3, Cases

LEMMA ReportedStep ==
  ASSUME FailFast, Len(Sources) <= 1, IInv, Hands, Unbegun, NoSkip, Reported, [Next]_vars
  PROVE  Reported'
<1>0. /\ pc \in [Tasks -> Labels] /\ Begun /\ Results /\ TasksType
      /\ state \in [Tasks -> {"pending", "running", "value", "exception"}]
  BY DEF IInv, TypeOK, TasksType
<1>1. SUFFICES ASSUME ~shutdown', ~hasError', NEW t \in Tasks, state'[t] = "exception"
               PROVE  \/ pc'[t] = "completed"
                      \/ \E u \in Tasks : pc'[u] = "childerror" /\ child'[u] = t
  BY DEF Reported
<1>2. CASE Reset
  BY <1>1, <1>2, ResetFresh
<1>3. CASE ~Reset
  <2>1. /\ ~shutdown /\ ~hasError
        /\ \A u \in Tasks : ~HandleTaskError(u)
        /\ \A u \in Tasks : ~(OnTaskCompleted(u) /\ state[u] = "exception")
    BY <1>1, <1>3, FlagStep DEF HandleTaskError, OnTaskCompleted
  <2>2. CASE state[t] = "exception" /\ pc[t] = "completed"
    <3>1. CASE Still \/ \E d \in Tasks : Fresh(d)
      BY <1>0, <2>2, <3>1 DEF Still, Fresh
    <3>2. ASSUME NEW u \in Tasks, Step(u) PROVE pc'[t] = "completed"
      <4>1. u # t
        BY <2>1, <2>2, <3>2, WhereTo
      <4>2. pc'[t] = pc[t] \/ (SubmitChild(u) /\ t = child[u])
        BY <3>2, <4>1, OwnStep
      <4>3. SubmitChild(u) => pc[child[u]] = "idle"
        BY DEF SubmitChild, IInv, Prepared
      <4> QED
        BY <2>2, <4>2, <4>3
    <3> QED
      BY <1>0, <3>1, <3>2, Cases
  <2>3. ASSUME NEW u \in Tasks, pc[u] = "childerror", child[u] = t
        PROVE  pc'[u] = "childerror" /\ child'[u] = t
    <3>1. CASE Still \/ \E d \in Tasks : Fresh(d)
      BY <1>0, <2>3, <3>1 DEF Still, Fresh, local
    <3>2. ASSUME NEW v \in Tasks, Step(v) PROVE pc'[u] = "childerror" /\ child'[u] = t
      <4>1. v # u
        BY <2>1, <2>3, <3>2, HandStep DEF Hand, SubmitChild, RejectInput
      <4>2. child'[u] = child[u] /\ (pc'[u] = pc[u] \/ (SubmitChild(v) /\ u = child[v]))
        BY <3>2, <4>1, OwnStep
      <4>3. SubmitChild(v) => pc[child[v]] = "idle"
        BY DEF SubmitChild, IInv, Prepared
      <4> QED
        BY <2>3, <4>2, <4>3
    <3> QED
      BY <1>0, <3>1, <3>2, Cases
  <2>4. CASE state[t] # "exception"
    <3>1. PICK u \in Tasks : Step(u)
      BY <1>0, <1>1, <2>4, Cases DEF Still, Fresh
    <3>2. CASE u # t
      <4>1. (RejectInput(u) \/ SkipSet(u)) /\ t = child[u]
        BY <1>1, <2>4, <3>1, <3>2, OwnStep
      <4>2. RejectInput(u)
        BY <4>1 DEF SkipSet, NoSkip
      <4>3. pc'[u] = "childerror" /\ child'[u] = t
        BY <1>0, <4>1, <4>2 DEF RejectInput, Goto, local
      <4> QED
        BY <4>3
    <3>3. CASE u = t
      <4>1. Execute(t) \/ RejectInput(t)
        <5>1. CASE Moves(t)
          BY <1>0, <1>1, <2>4, <5>1, MoveStep DEF graph
        <5>2. CASE ~Moves(t)
          BY <1>0, <1>1, <2>4, <3>1, <3>3, <5>2 DEF Step, Start, NotYet, SkipChild,
             ReadyChild, CountDown, SubmitChild, SkipVisit, SkipSet, NoSkip, graph
        <5> QED
          BY <5>1, <5>2
      <4>2. CASE Execute(t)
        BY <1>0, <4>2 DEF Execute, Goto
      <4>3. CASE RejectInput(t)
        <5>1. child[t] = t
          BY <1>0, <1>1, <2>4, <4>3 DEF RejectInput
        <5> QED
          BY <4>3, <5>1 DEF RejectInput, IInv, Prepared
      <4> QED
        BY <4>1, <4>2, <4>3
    <3> QED
      BY <3>2, <3>3
  <2> QED
    BY <2>1, <2>2, <2>3, <2>4 DEF Reported
<1> QED
  BY <1>2, <1>3

LEMMA ThroughStep ==
  ASSUME Len(Sources) <= 1, IInv, Unbegun, Through, [Next]_vars
  PROVE  Through'
<1>0. Begun /\ Forward /\ pc \in [Tasks -> Labels]
  BY Inductive DEF IInv, TypeOK, TasksType
<1> DEFINE L == {"report", "finish", "notify", "done"}
<1>1. SUFFICES ASSUME ~shutdown', NEW u \in Tasks, pc'[u] \in L
               PROVE  todo'[u] = {} \/ state'[u] = "exception"
  BY DEF Through
<1>2. CASE Reset
  BY <1>1, <1>2, ResetFresh
<1>3. CASE ~Reset
  <2>1. ~shutdown
    BY <1>1, <1>3, FlagStep
  <2>2. todo[u] = {} \/ state[u] = "exception"
    <3>1. CASE Still \/ \E d \in Tasks : Fresh(d)
      BY <1>0, <1>1, <2>1, <3>1 DEF Still, Fresh, Through
    <3>2. ASSUME NEW t \in Tasks, Step(t) PROVE todo[u] = {} \/ state[u] = "exception"
      BY <1>1, <2>1, <3>2, WhereTo, OwnStep DEF Through
    <3> QED
      BY <1>0, <3>1, <3>2, Cases
  <2> QED
    BY <1>0, <2>2 DEF Forward, IsReady
<1> QED
  BY <1>2, <1>3

LEMMA NotStrandedStep ==
  ASSUME FailFast, IInv, Hands, NotStranded, [Next]_vars
  PROVE  NotStranded'
<1>0. /\ pc \in [Tasks -> Labels] /\ child \in [Tasks -> Tasks \union {NoTask}]
      /\ state \in [Tasks -> {"pending", "running", "value", "exception"}]
      /\ TasksType /\ Begun /\ Forward /\ Results /\ CountedDown /\ Counts
      /\ Prepared /\ todo \in [Tasks -> SUBSET Tasks]
  BY Inductive DEF IInv, TypeOK, TasksType
<1>1. SUFFICES ASSUME NEW c \in Tasks, Parents[c] # {},
                      \A p \in Parents[c] : c \notin todo'[p]
               PROVE  \/ pc'[c] # "idle" \/ state'[c] = "exception"
                      \/ \E u \in Tasks : pc'[u] = "prepare" /\ child'[u] = c
  BY DEF NotStranded
<1>2. CASE pc[c] # "idle" \/ state[c] = "exception"
  BY <1>0, <1>2 DEF Forward, IsReady
\* It was in hand before.
<1>3. ASSUME NEW u \in Tasks, pc[u] = "prepare", child[u] = c
      PROVE  \/ pc'[c] # "idle" \/ state'[c] = "exception"
             \/ pc'[u] = "prepare" /\ child'[u] = c
  <2>1. CASE Still \/ \E d \in Tasks : Fresh(d)
    BY <1>0, <1>3, <2>1 DEF Still, Fresh, local
  <2>2. ASSUME NEW v \in Tasks, Step(v), v # u PROVE pc'[u] = "prepare" /\ child'[u] = c
    <3>1. child'[u] = child[u] /\ (pc'[u] = pc[u] \/ (SubmitChild(v) /\ u = child[v]))
      BY <2>2, OwnStep
    <3>2. SubmitChild(v) => pc[child[v]] = "idle"
      BY <1>0 DEF SubmitChild, Prepared
    <3> QED
      BY <1>3, <3>1, <3>2
  <2>3. CASE Step(u)
    <3>1. SubmitChild(u) \/ RejectInput(u)
      BY <1>3, <2>3, HandStep DEF Hand, HandleTaskError
    <3>2. CASE SubmitChild(u)
      BY <1>0, <1>3, <3>2 DEF SubmitChild
    <3>3. CASE RejectInput(u)
      BY <1>0, <1>3, <3>3 DEF RejectInput
    <3> QED
      BY <3>1, <3>2, <3>3
  <2> QED
    BY <1>0, <2>1, <2>2, <2>3, Cases
\* The last parent that has it on its list takes it off.
<1>4. ASSUME NEW t \in Parents[c], c \in todo[t]
      PROVE  \E u \in Tasks : pc'[u] = "prepare" /\ child'[u] = c
  <2>1. t \in Tasks /\ c \notin todo'[t]
    BY <1>1, <1>4, ParentsFinite
  <2>2. NotYet(t, c) \/ SkipChild(t, c) \/ ReadyChild(t, c)
    BY <1>4, <2>1, TodoStep
  <2>3. ReadyChild(t, c) => pc'[t] = "prepare" /\ child'[t] = c
    BY <1>0, <2>1 DEF ReadyChild, Goto
  <2>4. ~SkipChild(t, c)
    BY DEF SkipChild
  <2>5. ASSUME NotYet(t, c) PROVE FALSE
    <3>1. /\ pc[t] = "children" /\ pendingParents[c] # 1
          /\ todo' = [todo EXCEPT ![t] = @ \ {c}]
      BY <2>5 DEF NotYet, CountDown
    <3>2. \A p \in Parents[c] : p # t => c \notin todo[p]
      BY <1>0, <1>1, <3>1, ParentsFinite
    <3>3. Waiting(c) = {t}
      BY <1>4, <3>2 DEF Waiting
    <3>4. Cardinality(Waiting(c)) = 1
      BY <3>3, FS_Singleton
    <3>5. c \in Children(t)
      BY <1>4 DEF Children
    <3>6. t \notin Guests
      BY <3>5, GraphAssumption
    <3>7. PICK r \in 1 .. Len(Sources) : Started(r) /\ t \in Graph[r]
      BY <1>0, <2>1, <3>1, <3>6 DEF Begun
    <3>8. c \in Graph[r]
      BY <3>5, <3>7, GraphClosed
    <3> QED
      BY <1>0, <3>1, <3>4, <3>7, <3>8 DEF Counts, Started
  <2> QED
    BY <2>1, <2>2, <2>3, <2>4, <2>5
<1>5. CASE \A p \in Parents[c] : c \notin todo[p]
  <2>1. \/ pc[c] # "idle" \/ state[c] = "exception"
        \/ \E u \in Tasks : pc[u] = "prepare" /\ child[u] = c
    BY <1>1, <1>5 DEF NotStranded
  <2> QED
    BY <1>2, <1>3, <2>1
<1> QED
  BY <1>4, <1>5

\* In a graph, only the source has no parents.
LEMMA OnlySource ==
  ASSUME NEW r \in 1 .. Len(Sources), NEW c \in Graph[r], Parents[c] = {}
  PROVE  c = Sources[r]
<1>1. SUFFICES ASSUME c # Sources[r] PROVE FALSE
  OBVIOUS
<1>2. Graph[r] = Reachable(Sources[r])
  BY DEF Graph
<1> DEFINE S == Graph[r] \ {c}
<1>3. S \in SUBSET Tasks /\ Sources[r] \in S
  BY <1>1, GraphClosed
<1>4. ASSUME NEW x \in S PROVE Children(x) \subseteq S
  <2>1. Children(x) \subseteq Graph[r]
    BY GraphClosed
  <2>2. c \notin Children(x)
    BY DEF Children
  <2> QED
    BY <2>1, <2>2
<1>5. c \in S
  BY <1>2, <1>3, <1>4 DEF Reachable
<1> QED
  BY <1>5

\* When the wait has ended for the count, the whole graph has been executed:
\* of the tasks without a value take one whose parents all have one.
LEMMA NobodyLeft ==
  ASSUME FailFast, Rooted, Acyclic, OutInv, mpc = "stop", ~shutdown, ~hasError,
         NEW t \in Graph[round]
  PROVE  state[t] = "value"
<1>0. /\ InFlight = {} /\ round \in 1 .. Len(Sources) /\ Hands /\ Errors
      /\ Results /\ pc \in [Tasks -> Labels] /\ NoSkip /\ Reported /\ Through
      /\ NotStranded /\ SourceBegun
      /\ state \in [Tasks -> {"pending", "running", "value", "exception"}]
  BY DEF OutInv, CountInv, Drained, IInv, Begun, FastInv, TypeOK, TasksType
<1>1. SUFFICES ASSUME state[t] # "value" PROVE FALSE
  OBVIOUS
<1> DEFINE S == {x \in Graph[round] : state[x] # "value"}
<1>2. S \in SUBSET Tasks /\ S # {}
  BY <1>0, <1>1, GraphClosed
<1>3. PICK c \in S : Parents[c] \intersect S = {}
  BY <1>2 DEF Acyclic
<1>4. /\ c \in Tasks /\ c \in Graph[round] /\ state[c] # "value"
      /\ \A p \in Parents[c] : p \in Tasks /\ state[p] = "value"
  BY <1>0, <1>2, <1>3, GraphClosed DEF Rooted
<1>5. \A x \in Tasks : ~Busy(x) /\ ~Held(x)
  BY <1>0, InFlightIs
<1>6. state[c] # "exception"
  <2>1. SUFFICES ASSUME state[c] = "exception" PROVE FALSE
    OBVIOUS
  <2>2. CASE pc[c] = "completed"
    BY <1>4, <1>5, <2>2 DEF Busy, Uncounted
  <2>3. ASSUME NEW u \in Tasks, pc[u] = "childerror", child[u] = c PROVE FALSE
    BY <1>4, <1>5, <2>3 DEF Held, Hand
  <2> QED
    BY <1>0, <1>4, <2>1, <2>2, <2>3 DEF Reported
<1>7. pc[c] = "idle"
  <2>1. pc[c] \notin After
    BY <1>0, <1>4, <1>6 DEF Results, IsReady
  <2>2. pc[c] \notin {"queued", "running"}
    BY <1>4, <1>5, <1>6 DEF Busy, Uncounted
  <2>3. pc[c] \in Labels
    BY <1>0, <1>4
  <2> QED
    BY <2>1, <2>2, <2>3 DEF Labels, After
<1>8. Parents[c] # {}
  <2>1. SUFFICES ASSUME Parents[c] = {} PROVE FALSE
    OBVIOUS
  <2>2. c = Sources[round]
    BY <1>0, <1>4, <2>1, OnlySource
  <2>3. Started(round)
    BY <1>0 DEF Started, Initialized
  <2> QED
    BY <1>0, <1>7, <2>2, <2>3 DEF SourceBegun
<1>9. ASSUME NEW p \in Parents[c] PROVE c \notin todo[p]
  <2>1. p \in Tasks /\ state[p] = "value" /\ pc[p] \in After
    BY <1>0, <1>4 DEF Results
  <2>2. pc[p] \in Uncounted
    BY <1>5, <2>1 DEF Busy
  <2>3. pc[p] # "errornotify"
    BY <1>0, <2>1 DEF Errors
  <2>4. pc[p] \in {"notify", "done"}
    BY <2>1, <2>2, <2>3 DEF Uncounted, After
  <2> QED
    BY <1>0, <2>1, <2>4 DEF Through
<1>10. PICK u \in Tasks : pc[u] = "prepare" /\ child[u] = c
  BY <1>0, <1>4, <1>6, <1>7, <1>8, <1>9 DEF NotStranded
<1> QED
  BY <1>4, <1>5, <1>10 DEF Held, Hand

LEMMA CompleteStep ==
  ASSUME FailFast, Rooted, Acyclic, OutInv, [Next]_vars
  PROVE  Complete'
<1>0. /\ Forward /\ outcome \in [1 .. Len(Sources) -> Outcomes] /\ Complete
  BY Inductive DEF OutInv, CountInv, FastInv, IInv, TypeOK, MainType
<1>1. SUFFICES ASSUME NEW r \in 1 .. Len(Sources), outcome'[r] = "ok", NEW t \in Graph[r]
               PROVE  state'[t] = "value"
  BY DEF Complete
<1>2. SUFFICES state[t] = "value"
  BY <1>0, GraphClosed DEF Forward, IsReady
<1>3. CASE outcome[r] = "ok"
  BY <1>0, <1>3 DEF Complete
<1>4. CASE outcome[r] # "ok"
  <2>1. CASE Reset \/ InitializePendingCounts \/ SubmitSource \/ Wait \/ Returned
    BY <1>1, <1>4, <2>1 DEF Reset, InitializePendingCounts, SubmitSource, Wait, Returned
  <2>2. CASE TimeOut
    BY <1>0, <1>1, <1>4, <2>2 DEF TimeOut, Finish
  <2>3. ASSUME NEW u \in Tasks, Get(u) PROVE FALSE
    BY <1>0, <1>1, <1>4, <2>3 DEF Get, Finish
  <2>4. CASE Stop
    <3>1. r = round /\ ~shutdown /\ ~hasError /\ mpc = "stop"
      BY <1>0, <1>1, <1>4, <2>4 DEF Stop, Finish
    <3> QED
      BY <3>1, NobodyLeft
  <2> QED
    BY <1>1, <1>4, <2>1, <2>2, <2>3, <2>4, MainStep
<1> QED
  BY <1>3, <1>4

\* Under FAIL_FAST, when schedule() and execute() return normally every task of
\* the graph has been executed and has a value, and when they throw an execution
\* error some task has failed: no error is lost between the worker that meets it
\* and the predicate of the wait, and no child is left lying by the parents that
\* count it down together.
THEOREM TrueOutcome ==
  ASSUME Len(Sources) <= 1, Rooted, Acyclic
  PROVE  Spec => []OutcomeIsTrue
<1>1. Undisturbed
  BY DEF Undisturbed
<1>2. Init => Causes /\ SourceBegun /\ FastInv
  <2>1. ASSUME Init PROVE NotStranded
    BY <2>1, ParentsFinite DEF Init, NotStranded, Children
  <2>2. Init => Causes /\ SourceBegun /\ NoSkip /\ Reported /\ Through /\ Complete
    BY DEF Init, Causes, SourceBegun, Started, Initialized, NoSkip, Reported, Through,
       Complete
  <2> QED
    BY <2>1, <2>2 DEF FastInv
<1>3. ASSUME OutInv, [Next]_vars PROVE (Causes /\ SourceBegun /\ FastInv)'
  <2>0. IInv /\ Hands /\ Errors /\ Unbegun /\ Causes /\ SourceBegun
    BY <1>3 DEF OutInv, CountInv
  <2>1. Causes' /\ SourceBegun'
    BY <1>3, <2>0, CausesStep, SourceBegunStep
  <2>2. ASSUME FailFast PROVE (NoSkip /\ Reported /\ Through /\ NotStranded /\ Complete)'
    <3>1. NoSkip /\ Reported /\ Through /\ NotStranded
      BY <1>3, <2>2 DEF OutInv, FastInv
    <3>2. NoSkip' /\ Reported'
      BY <1>3, <2>0, <2>2, <3>1, NoSkipStep, ReportedStep
    <3>3. Through' /\ NotStranded'
      BY <1>3, <2>0, <2>2, <3>1, ThroughStep, NotStrandedStep
    <3>4. Complete'
      BY <1>3, <2>2, CompleteStep
    <3> QED
      BY <3>2, <3>3, <3>4
  <2> QED
    BY <2>1, <2>2 DEF FastInv
<1>4. CountInv /\ Causes /\ SourceBegun /\ FastInv => OutcomeIsTrue
  BY DEF Causes, FastInv, Complete, OutcomeIsTrue, Failed
<1>5. Spec => []CountInv
  BY <1>1, CountInvariance
<1>6. CountInv /\ Causes /\ SourceBegun /\ FastInv /\ [Next]_vars
        => (Causes /\ SourceBegun /\ FastInv)'
  BY <1>3 DEF OutInv
<1> QED
  BY <1>2, <1>4, <1>5, <1>6, PTL DEF Spec
=============================================================================
