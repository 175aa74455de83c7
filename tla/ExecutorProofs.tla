--------------------------- MODULE ExecutorProofs ---------------------------
(***************************************************************************)
(* For pools of any size, any jobs and any races between workers that      *)
(* return and the sysmon that takes their permits: no permit is lost or    *)
(* made.  In a pool of fixed size no more jobs run than there are permits, *)
(* and blocked_workers_ is exact; an elastic pool exceeds its cap by at    *)
(* most the one worker that is being retired.                              *)
(***************************************************************************)
EXTENDS Executor, FiniteSetTheorems, SequenceTheorems, TLAPS

Labels == {"off", "loop", "acquire", "wait", "fetch", "parked", "leave", "run",
           "count", "spawn", "blocked", "exit"}

Types ==
  /\ live \in Seq(Workers)
  /\ pc \in [Workers -> Labels]
  /\ holds \in [Workers -> BOOLEAN] /\ retire \in [Workers -> BOOLEAN]
  /\ blk \in [Workers -> {"none", "syscall", "handed"}]
  /\ permits \in Nat /\ blocked \in Int
  /\ victim \in Workers \union {NoWorker}
  /\ running \in BOOLEAN

\* What a worker's place in the code says of its flags: it is marked as
\* blocked from enter_blocking() to exit_blocking() and then holds_permit is
\* set, though the permit itself may have been handed off.
Region == {"count", "spawn", "blocked", "exit"}
Flags ==
  \A w \in Workers :
    /\ blk[w] # "none" => holds[w] /\ pc[w] \in Region
    /\ blk[w] = "none" /\ pc[w] \in Region => ~holds[w] /\ pc[w] # "count"
    /\ pc[w] \in {"acquire", "wait", "parked"} => ~holds[w]
    /\ pc[w] = "fetch" => holds[w]

\* Every thread is in workers_, or is the one that is being retired; only that
\* one is told to leave, and only an elastic pool has one.
Lives ==
  /\ \A w \in Workers : pc[w] # "off" => w \in Range(live) \/ w = victim
  /\ \A w \in Workers : retire[w] /\ pc[w] # "off" => w = victim
  /\ victim # NoWorker => monitor \in {"tell", "join"}
  /\ monitor # "off" => MinWorkers < NumThreads

\* While the pool runs, only who is being retired runs a job without a permit.
RunsWithPermit ==
  running => \A w \in Workers : pc[w] = "run" /\ ~holds[w] => retire[w]

IInv == Types /\ Flags /\ Lives /\ RunsWithPermit /\ PermitsExact

-----------------------------------------------------------------------------
(* The steps, by what they do to permits *)

\* Nobody's permit moves: the other threads' steps.
Aside ==
  /\ UNCHANGED <<pc, holds, blk, permits, blocked>>
  /\ running' \in BOOLEAN /\ (running' => running)

Added(w) ==
  /\ running /\ pc[w] = "off" /\ w # victim
  /\ Goto(w, "loop") /\ live' = Append(live, w) /\ retire' = Set(retire, w, FALSE)
  /\ UNCHANGED <<holds, blk, permits, blocked, victim, running, monitor>>

Told ==
  /\ monitor = "tell" /\ monitor' = "join"
  /\ retire' = Set(retire, victim, TRUE)
  /\ Aside /\ UNCHANGED <<live, victim, running>>

Shrunk ==
  /\ monitor = "shrink" /\ Len(live) > 0
  /\ victim' = Last(live) /\ live' = Front(live) /\ monitor' = "tell"
  /\ Aside /\ UNCHANGED <<retire, running>>

Joined ==
  /\ monitor = "join" /\ pc[victim] = "off"
  /\ monitor' = "wait" /\ victim' = NoWorker
  /\ Aside /\ UNCHANGED <<live, retire, running>>

AllJoined ==
  /\ \A w \in Range(live) : pc[w] = "off"
  /\ live' = <<>>
  /\ Aside /\ UNCHANGED <<retire, victim, running, monitor>>

Other ==
  /\ Aside /\ UNCHANGED <<live, retire, victim>>
  /\ monitor' # "off" => monitor # "off"
  /\ monitor \in {"tell", "join"} => monitor' = monitor

\* A sequence has no more elements than its length.
LEMMA RangeBound ==
  ASSUME NEW s \in Seq(Workers)
  PROVE  IsFiniteSet(Range(s)) /\ Cardinality(Range(s)) <= Len(s)
<1>1. s \in Surjection(1 .. Len(s), Range(s))
  BY DEF Surjection, Range
<1>2. IsFiniteSet(1 .. Len(s)) /\ Cardinality(1 .. Len(s)) = Len(s)
  <2>1. Len(s) \in Nat
    OBVIOUS
  <2> QED
    BY <2>1, FS_Interval
<1> QED
  BY <1>1, <1>2, FS_Surjection

\* workers_ leaves a slot free while it is below max_live_, beside that of a
\* worker that is being retired.
LEMMA FreeSlot ==
  ASSUME Types, Lives, Len(live) < MaxLive
  PROVE  \E x \in Workers : pc[x] = "off" /\ x # victim
<1> DEFINE R == Range(live)
           V == R \union {victim}
           T == V \intersect Workers
<1>1. IsFiniteSet(R) /\ Cardinality(R) <= Len(live)
  BY RangeBound DEF Types
<1>2. R \subseteq Workers
  BY DEF Types, Range
<1>3. IsFiniteSet(Workers) /\ Cardinality(Workers) \in Nat
  BY ExecutorAssumption, FS_CardinalityType
<1>4. Len(live) \in Nat /\ Cardinality(R) \in Nat
  BY <1>1, FS_CardinalityType DEF Types
<1>5. Cardinality(T) < Cardinality(Workers)
  <2>1. CASE victim = NoWorker
    <3>1. T = R
      BY <1>2, <2>1, ExecutorAssumption
    <3>2. MaxLive \in Nat /\ MaxLive <= Cardinality(Workers)
      BY <1>3, ExecutorAssumption
    <3> HIDE DEF T, R
    <3> QED
      BY <1>1, <1>3, <1>4, <3>1, <3>2
  <2>2. CASE victim # NoWorker
    <3>1. T = V /\ MinWorkers < NumThreads
      BY <1>2, <2>2 DEF Types, Lives
    <3>2. IsFiniteSet(V) /\ Cardinality(V) <= Cardinality(R) + 1
      BY <1>1, <1>4, FS_AddElement
    <3>3. Cardinality(V) \in Nat
      BY <3>2, FS_CardinalityType
    <3>4. MaxLive \in Nat /\ MaxLive + 1 <= Cardinality(Workers)
      BY <1>3, <3>1, ExecutorAssumption
    <3> HIDE DEF T, V, R
    <3> QED
      BY <1>1, <1>3, <1>4, <3>1, <3>2, <3>3, <3>4
  <2> QED
    BY <2>1, <2>2
<1>6. PICK x \in Workers : x \notin T
  <2>1. T # Workers
    <3> HIDE DEF T
    <3> QED
      BY <1>3, <1>5
  <2> QED
    BY <2>1
<1> QED
  BY <1>6 DEF Lives

\* Every step is a worker's, a hand-off, or one that moves no permit.
LEMMA StepCases ==
  ASSUME Types, Lives, [Next]_vars
  PROVE  \/ \E w \in Workers : Worker(w)
         \/ \E w \in Workers : Handoff(w)
         \/ \E w \in Workers : Added(w)
         \/ Told \/ Shrunk \/ Joined \/ AllJoined \/ Other
<1> USE DEF Aside, Types, jobs, contexts, sysmons, monitors, control
<1>1. ASSUME NEW limit, limit <= MaxLive, limit \in Nat, SpawnWorker(limit),
             UNCHANGED <<permits, blocked, monitors, control>>
      PROVE  (\E w \in Workers : Added(w)) \/ Other
  <2>1. CASE running /\ Len(live) < limit
    <3> DEFINE w == CHOOSE x \in Workers : pc[x] = "off" /\ x # victim
    <3>1. Len(live) < MaxLive
      BY <1>1, <2>1, ExecutorAssumption
    <3>2. w \in Workers /\ pc[w] = "off" /\ w # victim
      BY <3>1, FreeSlot
    <3>3. Added(w)
      BY <1>1, <2>1, <3>2 DEF Added, SpawnWorker
    <3> QED
      BY <3>2, <3>3
  <2>2. CASE ~(running /\ Len(live) < limit)
    BY <1>1, <2>2 DEF Other, SpawnWorker
  <2> QED
    BY <2>1, <2>2
<1>2. NumThreads \in Nat /\ MaxLive \in Nat /\ NumThreads <= MaxLive /\ MinWorkers \in Nat
  BY ExecutorAssumption
<1>3. CASE EnsureRunningWorker
  BY <1>1, <1>2, <1>3 DEF EnsureRunningWorker, Other
<1>4. CASE Grow
  BY <1>1, <1>2, <1>4 DEF Grow, Other
<1>5. CASE Tell
  BY <1>5 DEF Tell, Told
<1>6. CASE Shrink
  BY <1>2, <1>6 DEF Shrink, Shrunk
<1>7. CASE Join
  BY <1>7 DEF Join, Joined
<1>8. CASE JoinWorkers
  BY <1>8 DEF JoinWorkers, AllJoined
<1>9. CASE SysmonCheck \/ SysmonLock \/ SysmonUnlock \/ SysmonSleep \/ SysmonSkip
  BY <1>9 DEF SysmonCheck, SysmonLock, SysmonUnlock, SysmonSleep, SysmonSkip, Other
<1>10. CASE Observe \/ NoShrink
  BY <1>10 DEF Observe, NoShrink, Other
<1>11. CASE Peek \/ Peeked \/ Shutdown \/ JoinMonitor \/ JoinSysmon
  BY <1>11 DEF Peek, Peeked, Shutdown, JoinMonitor, JoinSysmon, Other
<1>12. CASE \E j \in Jobs : Submit(j)
  BY <1>12 DEF Submit, Other
<1>13. CASE UNCHANGED vars
  BY <1>13 DEF vars, Other
<1> QED
  BY <1>3, <1>4, <1>5, <1>6, <1>7, <1>8, <1>9, <1>10, <1>11, <1>12, <1>13
  DEF Next, Sysmon, Monitor, Boss

-----------------------------------------------------------------------------
(* The invariant is inductive *)

LEMMA InitTypes ==
  ASSUME Init
  PROVE  Types /\ Flags /\ Lives /\ RunsWithPermit
<1> DEFINE Start == {s \in [1 .. MinWorkers -> Workers] : IsInjective(s)}
<1>1. MinWorkers \in Nat /\ MinWorkers <= Cardinality(Workers)
      /\ IsFiniteSet(Workers) /\ Cardinality(Workers) \in Nat
  BY FS_CardinalityType, ExecutorAssumption
<1>2. PICK f \in Bijection(1 .. Cardinality(Workers), Workers) : TRUE
  BY <1>1, FS_CardinalityType DEF ExistsBijection
<1>3. [i \in 1 .. MinWorkers |-> f[i]] \in Start
  <2>1. f \in [1 .. Cardinality(Workers) -> Workers]
    BY <1>2 DEF Bijection, Injection
  <2>2. \A i, j \in 1 .. Cardinality(Workers) : f[i] = f[j] => i = j
    BY <1>2 DEF Bijection, Injection, IsInjective
  <2>3. 1 .. MinWorkers \subseteq 1 .. Cardinality(Workers)
    BY <1>1
  <2> QED
    BY <2>1, <2>2, <2>3 DEF IsInjective
<1>4. live \in [1 .. MinWorkers -> Workers]
  BY <1>3 DEF Init
<1>5. live \in Seq(Workers)
  BY <1>1, <1>4
<1> QED
  BY <1>5, ExecutorAssumption
  DEF Init, Types, Flags, Lives, RunsWithPermit, Labels, Region

\* The flags follow the worker's place.
LEMMA FlagsNext ==
  ASSUME Types, Flags, Lives, RunsWithPermit, [Next]_vars
  PROVE  Types' /\ Flags' /\ RunsWithPermit'
<1> USE DEF Types, Flags, RunsWithPermit, Labels, Region, Goto, Set
<1>1. ASSUME NEW w \in Workers, Worker(w)
      PROVE  Types' /\ Flags' /\ RunsWithPermit'
  <2> USE DEF jobs, contexts, sysmons, monitors, control
  <2>1. CASE Loop(w)
    BY <2>1 DEF Loop
  <2>2. CASE Acquire(w)
    BY <2>2 DEF Acquire
  <2>3. CASE NoPermit(w)
    BY <2>3 DEF NoPermit
  <2>4. CASE PermitWake(w) \/ Unpark(w)
    BY <2>4 DEF PermitWake, Unpark
  <2>5. CASE \E j \in Jobs : Fetch(w, j)
    BY <2>5 DEF Fetch
  <2>6. CASE Release(w)
    <3>1. CASE ~running \/ retire[w]
      BY <2>6, <3>1 DEF Release
    <3>2. CASE ~(~running \/ retire[w])
      <4>1. /\ pc[w] = "fetch" /\ pc' = [pc EXCEPT ![w] = "parked"]
            /\ holds' = [holds EXCEPT ![w] = FALSE] /\ permits' = permits + 1
            /\ UNCHANGED <<live, blk, retire, blocked, victim, running>>
        BY <2>6, <3>2 DEF Release
      <4>2. blk[w] = "none"
        BY <4>1
      <4> QED
        BY <4>1, <4>2
    <3> QED
      BY <3>1, <3>2
  <2>7. CASE Leave(w)
    BY <2>7 DEF Leave
  <2>8. CASE Enter(w)
    BY <2>8 DEF Enter
  <2>9. CASE Count(w)
    BY <2>9 DEF Count
  <2>10. CASE Spawn(w) \/ Uncount(w)
    BY <2>10 DEF Spawn, Uncount
  <2>11. CASE Exit(w)
    <3>1. CASE blk[w] = "syscall"
      BY <2>11, <3>1 DEF Exit
    <3>2. CASE blk[w] # "syscall"
      BY <2>11, <3>2 DEF Exit
    <3> QED
      BY <3>1, <3>2
  <2>12. CASE Finish(w)
    BY <2>12 DEF Finish
  <2> QED
    BY <1>1, <2>1, <2>2, <2>3, <2>4, <2>5, <2>6, <2>7, <2>8, <2>9, <2>10, <2>11,
       <2>12 DEF Worker
<1>2. ASSUME NEW w \in Workers, Handoff(w)
      PROVE  Types' /\ Flags' /\ RunsWithPermit'
  BY <1>2 DEF Handoff, jobs, contexts, sysmons, monitors, control
<1>3. ASSUME NEW w \in Workers, Added(w)
      PROVE  Types' /\ Flags' /\ RunsWithPermit'
  BY <1>3 DEF Added
<1>4. CASE Told
  BY <1>4 DEF Told, Aside
<1>5. CASE Shrunk
  <2>1. live' \in Seq(Workers) /\ victim' \in Workers
    BY <1>5 DEF Shrunk, Last, Front
  <2> QED
    BY <1>5, <2>1 DEF Shrunk, Aside
<1>6. CASE Joined
  BY <1>6 DEF Joined, Aside
<1>7. CASE AllJoined
  BY <1>7 DEF AllJoined, Aside
<1>8. CASE Other
  BY <1>8 DEF Other, Aside
<1> QED
  BY <1>1, <1>2, <1>3, <1>4, <1>5, <1>6, <1>7, <1>8, StepCases

\* Nobody is forgotten when workers_ shrinks.
LEMMA LivesNext ==
  ASSUME Types, Flags, Lives, [Next]_vars
  PROVE  Lives'
<1> USE DEF Types, Lives, Goto, Set
<1>1. ASSUME NEW w \in Workers, Worker(w)
      PROVE  Lives'
  <2>1. /\ UNCHANGED <<live, retire, victim, monitor>>
        /\ pc[w] # "off"
        /\ \A x \in Workers : x # w => pc'[x] = pc[x]
    BY <1>1 DEF Worker, Loop, Acquire, NoPermit, PermitWake, Unpark, Fetch, Release,
       Leave, Enter, Count, Spawn, Uncount, Exit, Finish,
       jobs, contexts, sysmons, monitors, control
  <2> QED
    BY <2>1
<1>2. ASSUME NEW w \in Workers, Handoff(w)
      PROVE  Lives'
  BY <1>2 DEF Handoff, jobs, contexts, sysmons, monitors, control
<1>3. ASSUME NEW w \in Workers, Added(w)
      PROVE  Lives'
  <2>1. Range(live') = Range(live) \union {w}
    <3>1. /\ Len(live') = Len(live) + 1 /\ live'[Len(live) + 1] = w
          /\ \A i \in 1 .. Len(live) : live'[i] = live[i]
      BY <1>3 DEF Added
    <3>2. \A i \in 1 .. Len(live) + 1 : i \in 1 .. Len(live) \/ i = Len(live) + 1
      OBVIOUS
    <3>3. DOMAIN live = 1 .. Len(live) /\ DOMAIN live' = 1 .. Len(live')
      BY <1>3 DEF Added
    <3>4. Range(live) \union {w} \subseteq Range(live')
      BY <3>1, <3>3 DEF Range
    <3>5. Range(live') \subseteq Range(live) \union {w}
      BY <3>1, <3>2, <3>3 DEF Range
    <3> QED
      BY <3>4, <3>5
  <2> QED
    BY <1>3, <2>1 DEF Added
<1>4. CASE Told
  BY <1>4 DEF Told, Aside
<1>5. CASE Shrunk
  <2>1. Range(live) \subseteq Range(live') \union {victim'}
    <3>1. /\ Len(live') = Len(live) - 1
          /\ \A i \in 1 .. Len(live) - 1 : live'[i] = live[i]
      <4>1. live' = SubSeq(live, 1, Len(live) - 1) /\ Len(live) \in Nat \ {0}
        BY <1>5 DEF Shrunk, Front
      <4>2. \A i \in 1 .. Len(live) - 1 : live[i] \in Workers
        OBVIOUS
      <4>3. Len(live') = IF 1 <= Len(live) - 1 THEN Len(live) - 1 - 1 + 1 ELSE 0
        BY <4>1, <4>2, SubSeqProperties
      <4>4. \A i \in 1 .. Len(live) - 1 - 1 + 1 : live'[i] = live[1 + i - 1]
        BY <4>1, <4>2, SubSeqProperties
      <4>5. Len(live') = Len(live) - 1
        <5> DEFINE n == Len(live)
        <5>1. n \in Nat \ {0} /\ Len(live') = IF 1 <= n - 1 THEN n - 1 - 1 + 1 ELSE 0
          BY <4>1, <4>3
        <5> HIDE DEF n
        <5>2. Len(live') = n - 1
          BY <5>1
        <5> QED
          BY <5>2 DEF n
      <4>6. ASSUME NEW i \in 1 .. Len(live) - 1
            PROVE  live'[i] = live[i]
        <5>1. i \in 1 .. Len(live) - 1 - 1 + 1 /\ 1 + i - 1 = i
          BY <4>1
        <5> QED
          BY <4>4, <5>1
      <4> QED
        BY <4>5, <4>6
    <3>2. victim' = live[Len(live)]
      BY <1>5 DEF Shrunk, Last
    <3>3. \A i \in 1 .. Len(live) : i \in 1 .. Len(live) - 1 \/ i = Len(live)
      OBVIOUS
    <3>4. DOMAIN live = 1 .. Len(live) /\ DOMAIN live' = 1 .. Len(live')
      BY <1>5 DEF Shrunk, Front
    <3>5. ASSUME NEW i \in 1 .. Len(live)
          PROVE  live[i] \in Range(live') \union {victim'}
      BY <3>1, <3>2, <3>3, <3>4 DEF Range
    <3> QED
      BY <3>4, <3>5 DEF Range
  <2> QED
    BY <1>5, <2>1, ExecutorAssumption DEF Shrunk, Aside
<1>6. CASE Joined
  BY <1>6 DEF Joined, Aside
<1>7. CASE AllJoined
  BY <1>7 DEF AllJoined, Aside
<1>8. CASE Other
  BY <1>8 DEF Other, Aside
<1> QED
  BY <1>1, <1>2, <1>3, <1>4, <1>5, <1>6, <1>7, <1>8, StepCases
-----------------------------------------------------------------------------
(* Permits *)

\* Sets of workers are finite, and change by one element at a time.
LEMMA SomeWorkers ==
  ASSUME NEW S \in SUBSET Workers
  PROVE  IsFiniteSet(S) /\ Cardinality(S) \in Nat
BY ExecutorAssumption, FS_Subset, FS_CardinalityType

LEMMA AddWorker ==
  ASSUME NEW S \in SUBSET Workers, NEW w \in Workers
  PROVE  /\ w \notin S => Cardinality(S \union {w}) = Cardinality(S) + 1
         /\ w \in S => Cardinality(S \ {w}) = Cardinality(S) - 1
<1> QED
  BY SomeWorkers, FS_AddElement, FS_RemoveElement

\* What a step does to the permits in workers' hands it makes up for in
\* permits_.
LEMMA PermitsNext ==
  ASSUME Types, Flags, Lives, PermitsExact, [Next]_vars
  PROVE  PermitsExact'
<1> USE DEF Types, Flags, Labels, Region, Goto, Set
<1>0. Holders \in SUBSET Workers
  BY DEF Holders
<1>1. ASSUME Holders' = Holders, permits' = permits
      PROVE  PermitsExact'
  BY <1>1 DEF PermitsExact
<1>2. ASSUME NEW w \in Workers, w \notin Holders, Holders' = Holders \union {w},
             permits' = permits - 1
      PROVE  PermitsExact'
  <2>1. Cardinality(Holders \union {w}) = Cardinality(Holders) + 1
        /\ Cardinality(Holders) \in Nat
    BY <1>0, <1>2, AddWorker, SomeWorkers
  <2>2. Cardinality(Holders') = Cardinality(Holders) + 1
    BY <1>2, <2>1
  <2> QED
    BY <1>2, <2>1, <2>2, ExecutorAssumption DEF PermitsExact
<1>3. ASSUME NEW w \in Workers, w \in Holders, Holders' = Holders \ {w},
             permits' = permits + 1
      PROVE  PermitsExact'
  <2>1. Cardinality(Holders \ {w}) = Cardinality(Holders) - 1
        /\ Cardinality(Holders) \in Nat
    BY <1>0, <1>3, AddWorker, SomeWorkers
  <2>2. Cardinality(Holders') = Cardinality(Holders) - 1
    BY <1>3, <2>1
  <2> QED
    BY <1>3, <2>1, <2>2, ExecutorAssumption DEF PermitsExact
<1>4. ASSUME NEW w \in Workers, Worker(w)
      PROVE  PermitsExact'
  <2> USE DEF jobs, contexts, sysmons, monitors, control
  <2>1. CASE Acquire(w)
    <3>1. w \notin Holders /\ Holders' = Holders \union {w} /\ permits' = permits - 1
      BY <2>1 DEF Acquire, Holders
    <3> QED
      BY <1>2, <3>1
  <2>2. CASE Release(w)
    <3>1. CASE pc'[w] = "parked"
      <4>1. w \in Holders /\ Holders' = Holders \ {w} /\ permits' = permits + 1
        BY <2>2, <3>1 DEF Release, Holders
      <4> QED
        BY <1>3, <4>1
    <3>2. CASE pc'[w] # "parked"
      BY <1>1, <2>2, <3>2 DEF Release, Holders
    <3> QED
      BY <3>1, <3>2
  <2>3. CASE Leave(w)
    <3>1. CASE holds[w]
      <4>1. w \in Holders /\ Holders' = Holders \ {w} /\ permits' = permits + 1
        BY <2>3, <3>1 DEF Leave, Holders
      <4> QED
        BY <1>3, <4>1
    <3>2. CASE ~holds[w]
      <4>1. Holders' = Holders /\ permits' = permits
        BY <2>3, <3>2 DEF Leave, Holders
      <4> QED
        BY <1>1, <4>1
    <3> QED
      BY <3>1, <3>2
  <2>4. CASE Enter(w)
    <3>1. Holders' = Holders /\ permits' = permits
      BY <2>4 DEF Enter, Holders
    <3> QED
      BY <1>1, <3>1
  <2>5. CASE Exit(w)
    <3>1. Holders' = Holders /\ permits' = permits
      <4>1. CASE blk[w] = "syscall"
        BY <2>5, <4>1 DEF Exit, Holders
      <4>2. CASE blk[w] # "syscall"
        <5>1. w \notin Holders
          BY <2>5, <4>2 DEF Exit, Holders
        <5>2. /\ blk' = [blk EXCEPT ![w] = "none"]
              /\ holds' = [holds EXCEPT ![w] = FALSE] /\ permits' = permits
          BY <2>5, <4>2 DEF Exit
        <5> QED
          BY <5>1, <5>2 DEF Holders
      <4> QED
        BY <4>1, <4>2
    <3> QED
      BY <1>1, <3>1
  <2>6. CASE \/ Loop(w) \/ NoPermit(w) \/ PermitWake(w) \/ \E j \in Jobs : Fetch(w, j)
             \/ Unpark(w) \/ Count(w) \/ Spawn(w) \/ Uncount(w) \/ Finish(w)
    <3>1. UNCHANGED <<holds, blk, permits>>
      BY <2>6 DEF Loop, NoPermit, PermitWake, Fetch, Unpark, Count, Spawn, Uncount,
        Finish
    <3> QED
      BY <1>1, <3>1 DEF Holders
  <2> QED
    BY <1>4, <2>1, <2>2, <2>3, <2>4, <2>5, <2>6 DEF Worker
<1>5. ASSUME NEW w \in Workers, Handoff(w)
      PROVE  PermitsExact'
  <2>1. w \in Holders /\ Holders' = Holders \ {w} /\ permits' = permits + 1
    BY <1>5 DEF Handoff, Holders, jobs, contexts, sysmons, monitors, control
  <2> QED
    BY <1>3, <2>1
<1>6. CASE (\E w \in Workers : Added(w)) \/ Told \/ Shrunk \/ Joined \/ AllJoined \/ Other
  <2>1. UNCHANGED <<holds, blk, permits>>
    BY <1>6 DEF Added, Told, Shrunk, Joined, AllJoined, Other, Aside
  <2> QED
    BY <1>1, <2>1 DEF Holders
<1> QED
  BY <1>4, <1>5, <1>6, StepCases

LEMMA InitPermits ==
  ASSUME Init
  PROVE  PermitsExact
<1>1. Holders = {}
  BY DEF Init, Holders
<1> QED
  BY <1>1, FS_EmptySet, ExecutorAssumption DEF Init, PermitsExact

THEOREM Invariance == Spec => []IInv
<1>1. Init => IInv
  BY InitTypes, InitPermits DEF IInv
<1>2. IInv /\ [Next]_vars => IInv'
  BY FlagsNext, LivesNext, PermitsNext DEF IInv
<1> QED
  BY <1>1, <1>2, PTL DEF Spec

\* No permit is lost and none is made, whoever of exit_blocking() and
\* sysmon_loop() wins the CAS on blk_state, and however the pool grows, shrinks
\* and stops.
THEOREM PermitsAreExact == Spec => []PermitsExact
<1>1. IInv => PermitsExact
  BY DEF IInv
<1> QED
  BY <1>1, Invariance, PTL

-----------------------------------------------------------------------------
(* The cap *)

Running == {w \in Workers : pc[w] = "run"}

\* While the pool runs, who runs a job has a permit, except who is being
\* retired.
LEMMA RunnersHold ==
  ASSUME IInv, running
  PROVE  /\ Cardinality(Holders) <= NumThreads
         /\ Running \subseteq Holders \union {victim}
         /\ MinWorkers = NumThreads => Running \subseteq Holders
<1> USE DEF IInv
<1>1. Cardinality(Holders) <= NumThreads
  <2>1. Cardinality(Holders) \in Nat
    <3>1. Holders \in SUBSET Workers
      BY DEF Holders
    <3> QED
      BY <3>1, SomeWorkers
  <2> QED
    BY <2>1, ExecutorAssumption DEF PermitsExact, Types
<1>2. ASSUME NEW w \in Running
      PROVE  w \in Holders \/ w = victim
  <2>1. w \in Workers /\ pc[w] = "run" /\ blk[w] = "none"
    BY <1>2 DEF Running, Flags, Region
  <2>2. holds[w] \/ retire[w]
    BY <2>1 DEF RunsWithPermit
  <2> QED
    BY <2>1, <2>2 DEF Holders, Lives
<1>3. MinWorkers = NumThreads => victim = NoWorker
  BY ExecutorAssumption DEF Lives
<1>4. NoWorker \notin Running
  BY ExecutorAssumption DEF Running
<1> QED
  BY <1>1, <1>2, <1>3, <1>4

\* In a pool of fixed size, no more workers run jobs than there are permits.
THEOREM CapOfFixedPool ==
  ASSUME MinWorkers = NumThreads
  PROVE  Spec => []CapRespected
<1>1. IInv => CapRespected
  <2> SUFFICES ASSUME IInv, running
               PROVE  Cardinality(Running) <= NumThreads
    BY DEF CapRespected, Running
  <2>1. Running \in SUBSET Holders /\ Cardinality(Holders) <= NumThreads
    BY RunnersHold
  <2>2. Running \in SUBSET Workers /\ Holders \in SUBSET Workers
    BY DEF Running, Holders
  <2>3. Cardinality(Running) <= Cardinality(Holders)
    BY <2>1, <2>2, SomeWorkers, FS_Subset
  <2>4. Cardinality(Running) \in Nat /\ Cardinality(Holders) \in Nat
    BY <2>2, SomeWorkers
  <2> QED
    BY <2>1, <2>3, <2>4, ExecutorAssumption
<1> QED
  BY <1>1, Invariance, PTL

\* An elastic pool exceeds it by the worker that retire_worker() tells to leave
\* while it comes back from a blocking region: acquire_permit() then goes on
\* without a permit.
ElasticCap == running => Cardinality(Running) <= NumThreads + 1
THEOREM CapOfElasticPool == Spec => []ElasticCap
<1>1. IInv => ElasticCap
  <2> SUFFICES ASSUME IInv, running
               PROVE  Cardinality(Running) <= NumThreads + 1
    BY DEF ElasticCap
  <2> DEFINE H == Holders \union {victim}
  <2>1. Running \in SUBSET H /\ Cardinality(Holders) <= NumThreads
    BY RunnersHold
  <2>2. Running \in SUBSET Workers /\ Holders \in SUBSET Workers
    BY DEF Running, Holders
  <2>3. /\ IsFiniteSet(H)
        /\ Cardinality(H) = IF victim \in Holders THEN Cardinality(Holders)
                            ELSE Cardinality(Holders) + 1
    BY <2>2, SomeWorkers, FS_AddElement
  <2> HIDE DEF H
  <2>4. Cardinality(Running) <= Cardinality(H)
    BY <2>1, <2>3, FS_Subset
  <2>5. Cardinality(Running) \in Nat /\ Cardinality(Holders) \in Nat
    BY <2>2, SomeWorkers
  <2> QED
    BY <2>1, <2>3, <2>4, <2>5, ExecutorAssumption
<1> QED
  BY <1>1, Invariance, PTL

-----------------------------------------------------------------------------
(* blocked_workers_ *)

InRegion == {w \in Workers : pc[w] \in {"spawn", "blocked"}}

\* While a pool of fixed size runs, a worker enters a blocking region with a
\* permit, so enter_blocking() counts it as often as exit_blocking().
LEMMA BlockedNext ==
  ASSUME MinWorkers = NumThreads, IInv, BlockedExact, [Next]_vars
  PROVE  BlockedExact'
<1> SUFFICES ASSUME running'
             PROVE  blocked' = Cardinality(InRegion')
  BY DEF BlockedExact, InRegion
<1> USE DEF IInv, Types, Labels, Goto, Set
<1>0. InRegion \in SUBSET Workers
  BY DEF InRegion
<1>1. ASSUME running, InRegion' = InRegion, blocked' = blocked
      PROVE  blocked' = Cardinality(InRegion')
  BY <1>1 DEF BlockedExact, InRegion
<1>2. ASSUME NEW w \in Workers, Worker(w)
      PROVE  blocked' = Cardinality(InRegion')
  <2> USE DEF jobs, contexts, sysmons, monitors, control
  <2>0. running
    BY <1>2 DEF Worker, Loop, Acquire, NoPermit, PermitWake, Unpark, Fetch, Release,
       Leave, Enter, Count, Spawn, Uncount, Exit, Finish
  <2>1. blocked = Cardinality(InRegion)
    BY <2>0 DEF BlockedExact, InRegion
  <2>2. CASE Count(w)
    <3>1. w \notin InRegion /\ InRegion' = InRegion \union {w}
      BY <2>2 DEF Count, InRegion
    <3> QED
      BY <1>0, <2>1, <2>2, <3>1, AddWorker DEF Count
  <2>3. CASE Uncount(w)
    <3>1. w \in InRegion /\ InRegion' = InRegion \ {w}
      BY <2>3 DEF Uncount, InRegion
    <3> QED
      BY <1>0, <2>1, <2>3, <3>1, AddWorker DEF Uncount
  <2>4. CASE Enter(w)
    <3>1. w \in Running
      BY <2>4 DEF Enter, Running
    <3>2. holds[w]
      BY <2>0, <3>1, RunnersHold DEF Holders
    <3>3. InRegion' = InRegion /\ blocked' = blocked
      BY <2>4, <3>2 DEF Enter, InRegion
    <3> QED
      BY <1>1, <2>0, <3>3
  <2>5. CASE Spawn(w)
    <3>1. InRegion' = InRegion /\ blocked' = blocked
      BY <2>5 DEF Spawn, InRegion
    <3> QED
      BY <1>1, <2>0, <3>1
  <2>6. CASE \/ Loop(w) \/ Acquire(w) \/ NoPermit(w) \/ PermitWake(w)
             \/ (\E j \in Jobs : Fetch(w, j)) \/ Release(w) \/ Unpark(w) \/ Leave(w)
             \/ Exit(w) \/ Finish(w)
    <3>1. /\ pc[w] \notin {"spawn", "blocked"} /\ pc'[w] \notin {"spawn", "blocked"}
          /\ blocked' = blocked
          /\ \A x \in Workers : x # w => pc'[x] = pc[x]
      BY <2>6 DEF Loop, Acquire, NoPermit, PermitWake, Fetch, Release, Unpark, Leave,
         Exit, Finish
    <3>2. InRegion' = InRegion
      BY <3>1 DEF InRegion
    <3> QED
      BY <1>1, <2>0, <3>1, <3>2
  <2> QED
    BY <1>2, <2>2, <2>3, <2>4, <2>5, <2>6 DEF Worker
<1>3. ASSUME NEW w \in Workers, Handoff(w)
      PROVE  blocked' = Cardinality(InRegion')
  BY <1>1, <1>3
  DEF Handoff, InRegion, jobs, contexts, sysmons, monitors, control
<1>4. ASSUME NEW w \in Workers, Added(w)
      PROVE  blocked' = Cardinality(InRegion')
  <2>1. InRegion' = InRegion /\ blocked' = blocked /\ running
    BY <1>4 DEF Added, InRegion
  <2> QED
    BY <1>1, <2>1
<1>5. CASE Told \/ Shrunk \/ Joined \/ AllJoined \/ Other
  <2>1. InRegion' = InRegion /\ blocked' = blocked /\ running
    BY <1>5 DEF Told, Shrunk, Joined, AllJoined, Other, Aside, InRegion
  <2> QED
    BY <1>1, <2>1
<1> QED
  BY <1>2, <1>3, <1>4, <1>5, StepCases

\* blocked_workers_ is the number of workers in a blocking region.
THEOREM BlockedIsExact ==
  ASSUME MinWorkers = NumThreads
  PROVE  Spec => []BlockedExact
<1>1. Init => BlockedExact
  <2> SUFFICES ASSUME Init
               PROVE  blocked = Cardinality(InRegion)
    BY DEF BlockedExact, InRegion
  <2>1. InRegion = {}
    BY DEF Init, InRegion
  <2> QED
    BY <2>1, FS_EmptySet DEF Init
<1>2. IInv /\ BlockedExact /\ [Next]_vars => BlockedExact'
  BY BlockedNext
<1> QED
  BY <1>1, <1>2, Invariance, PTL DEF Spec
=============================================================================
