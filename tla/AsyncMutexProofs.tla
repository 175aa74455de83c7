-------------------------- MODULE AsyncMutexProofs --------------------------
(***************************************************************************)
(* For any number of coroutines and any number of critical sections:       *)
(* AsyncMutex is a mutex, its asserts hold, and it implements FifoLock.    *)
(*                                                                         *)
(* The inductive invariant IInv ties the pointers to the history: the      *)
(* atomic word and the next_ pointers behind it spell `stacked` backwards, *)
(* waiters_ (or the list under construction) spells `listed` forwards, and *)
(* exactly the coroutines in the two are suspended.                        *)
(***************************************************************************)
EXTENDS AsyncMutex, SequenceTheorems, TLAPS

\* next_ of the first k elements of q leads back to the first one ...
Backward(q, k) ==
  \A i \in 1 .. k : next[q[i]] = IF i = 1 THEN Null ELSE q[i - 1]

\* ... and from the element after the k-th on it leads on to the last.
Forward(q, k) ==
  \A i \in (k + 1) .. Len(q) :
    next[q[i]] = IF i = Len(q) THEN Null ELSE q[i + 1]

\* The atomic word is the top of the stack.
StackShape ==
  /\ stacked = <<>> => state \in {NotLocked, Null}
  /\ stacked # <<>> => state = stacked[Len(stacked)]
  /\ Backward(stacked, Len(stacked))

\* waiters_ is the first of the detached waiters, except while unlock()
\* takes one off or is still turning them round.
First(q) == IF q = <<>> THEN Null ELSE q[1]
Rebuilding(c) == pc[c] \in {"reverse", "pop"}
ListShape ==
  /\ (\A c \in Coros : ~Rebuilding(c)) =>
       waiters = First(listed) /\ Forward(listed, 0)
  /\ \A c \in Coros : pc[c] = "exchange" => listed = <<>> /\ stacked # <<>>
  /\ \A c \in Coros : pc[c] = "pop" =>
       listed # <<>> /\ head[c] = listed[1] /\ Forward(listed, 0)

\* The loop of unlock(): the first j waiters still have the stack's links.
HalfWay(c, j) ==
  /\ cur[c] = listed[j]
  /\ head[c] = IF j = Len(listed) THEN Null ELSE listed[j + 1]
  /\ Backward(listed, j)
  /\ Forward(listed, j)
ReverseShape ==
  \A c \in Coros : pc[c] = "reverse" => \E j \in 1 .. Len(listed) : HalfWay(c, j)

Distinct(q) == \A i, j \in 1 .. Len(q) : q[i] = q[j] => i = j
In(c, q) == \E i \in 1 .. Len(q) : q[i] = c

\* Exactly the suspended coroutines wait, each in one place.
Waiting ==
  /\ Distinct(listed) /\ Distinct(stacked)
  /\ \A c \in Coros : ~(In(c, listed) /\ In(c, stacked))
  /\ \A c \in Coros : pc[c] = "suspended" <=> In(c, listed) \/ In(c, stacked)

\* A locked mutex has an owner, and a free one has no waiters.
Owned ==
  /\ state # NotLocked => \E c \in Coros : Holding(c)
  /\ state = NotLocked => listed = <<>>

IInv == TypeOK /\ MutualExclusion /\ Owned /\ StackShape /\ ListShape
        /\ ReverseShape /\ Waiting

-----------------------------------------------------------------------------
\* What the first element, the tail and an appended element are.
LEMMA SeqFacts ==
  ASSUME NEW S, NEW q \in Seq(S)
  PROVE  /\ Len(q) \in Nat
         /\ \A i \in 1 .. Len(q) : q[i] \in S
         /\ q = <<>> <=> Len(q) = 0
         /\ q # <<>> => /\ Tail(q) \in Seq(S)
                        /\ Len(Tail(q)) = Len(q) - 1
                        /\ \A i \in 1 .. Len(q) - 1 : Tail(q)[i] = q[i + 1]
                        /\ Head(q) = q[1]
         /\ \A e \in S : /\ Append(q, e) \in Seq(S)
                         /\ Len(Append(q, e)) = Len(q) + 1
                         /\ Append(q, e)[Len(q) + 1] = e
                         /\ \A i \in 1 .. Len(q) : Append(q, e)[i] = q[i]
  OBVIOUS

\* The waiters are coroutines.
LEMMA WaitersAreCoros ==
  ASSUME TypeOK
  PROVE  /\ Len(listed) \in Nat /\ Len(stacked) \in Nat
         /\ \A i \in 1 .. Len(listed) : listed[i] \in Coros
         /\ \A i \in 1 .. Len(stacked) : stacked[i] \in Coros
         /\ listed # <<>> => 1 \in 1 .. Len(listed)
         /\ stacked # <<>> => Len(stacked) \in 1 .. Len(stacked)
<1>1. listed \in Seq(Coros) /\ stacked \in Seq(Coros)
  BY DEF TypeOK
<1> QED
  BY <1>1, SeqFacts

\* The initial state.
LEMMA InitIInv == Init => IInv
<1> SUFFICES ASSUME Init PROVE IInv
  OBVIOUS
<1> USE MutexAssumption DEF Init
<1>1. TypeOK
  BY DEF TypeOK, Nodes, Labels
<1>2. MutualExclusion /\ Owned
  BY DEF MutualExclusion, Owned, Holding
<1>3. StackShape /\ ListShape /\ ReverseShape
  BY DEF StackShape, ListShape, ReverseShape, Backward, Forward, First
<1>4. Waiting
  BY DEF Waiting, Distinct, In
<1> QED
  BY <1>1, <1>2, <1>3, <1>4 DEF IInv

\* Every step keeps every variable's type.
LEMMA StepType ==
  ASSUME IInv, NEW c \in Coros, Progress(c) \/ Migrate(c)
  PROVE  TypeOK'
<1> USE MutexAssumption DEF IInv, TypeOK, Nodes, Labels, Goto, Leave, Continue, locals, hist
<1>1. CASE Load(c)
  BY <1>1 DEF Load
<1>2. CASE Retry(c)
  BY <1>2 DEF Retry
<1>3. CASE Take(c)
  BY <1>3 DEF Take
<1>4. CASE Push(c)
  BY <1>4 DEF Push
<1>5. CASE Migrate(c)
  BY <1>5 DEF Migrate
<1>6. CASE Finish(c)
  BY <1>6 DEF Finish
<1>7. CASE UnlockFree(c)
  BY <1>7 DEF UnlockFree
<1>8. CASE UnlockContended(c)
  BY <1>8 DEF UnlockContended
<1>9. CASE UnlockListed(c)
  BY <1>9 DEF UnlockListed
<1>10. CASE Exchange(c)
  <2>1. stacked # <<>> /\ state \in Coros
    BY <1>10, WaitersAreCoros DEF Exchange, StackShape, ListShape
  <2> QED
    BY <1>10, <2>1 DEF Exchange
<1>11. CASE Reverse(c)
  <2>1. cur[c] \in Coros
    <3>1. PICK j \in 1 .. Len(listed) : HalfWay(c, j)
      BY <1>11 DEF Reverse, ReverseShape
    <3> QED
      BY <3>1, WaitersAreCoros DEF HalfWay
  <2> QED
    BY <1>11, <2>1 DEF Reverse
<1>12. CASE Pop(c)
  <2>1. head[c] \in Coros /\ listed # <<>>
    BY <1>12, WaitersAreCoros DEF Pop, ListShape
  <2> QED
    BY <1>12, <2>1, SeqFacts DEF Pop
<1>13. CASE Return(c)
  BY <1>13 DEF Return
<1> QED
  BY <1>1, <1>2, <1>3, <1>4, <1>5, <1>6, <1>7, <1>8, <1>9, <1>10, <1>11,
     <1>12, <1>13 DEF Progress, lock, unlock

-----------------------------------------------------------------------------
\* Before it queues up, after it has been served and in its critical section
\* a coroutine changes nothing that the shapes depend on.
Calm(c) == Load(c) \/ Retry(c) \/ Migrate(c) \/ Finish(c) \/ Return(c)
Shaping == {"suspended", "exchange", "reverse", "pop"}

LEMMA CalmStep ==
  ASSUME TypeOK, NEW c \in Coros, Calm(c)
  PROVE  /\ UNCHANGED <<state, waiters, next, head, cur, listed, stacked>>
         /\ \A d \in Coros : Holding(d)' <=> Holding(d)
         /\ \A d \in Coros, l \in Shaping : pc'[d] = l <=> pc[d] = l
<1> USE DEF TypeOK, Goto, Leave, Continue, locals, hist, Holding, Shaping
<1>1. CASE Load(c)
  BY <1>1 DEF Load
<1>2. CASE Retry(c)
  BY <1>2 DEF Retry
<1>3. CASE Migrate(c)
  BY <1>3 DEF Migrate
<1>4. CASE Finish(c)
  BY <1>4 DEF Finish
<1>5. CASE Return(c)
  BY <1>5 DEF Return
<1> QED
  BY <1>1, <1>2, <1>3, <1>4, <1>5 DEF Calm

\* What a coroutine does is calm or one of the steps that matter.
LEMMA Steps ==
  ASSUME NEW c \in Coros, Progress(c) \/ Migrate(c)
  PROVE  \/ Calm(c) \/ Take(c) \/ Push(c) \/ UnlockFree(c)
         \/ UnlockContended(c) \/ UnlockListed(c) \/ Exchange(c)
         \/ Reverse(c) \/ Pop(c)
  BY DEF Progress, lock, unlock, Calm

\* The head of the list is a suspended coroutine other than the holder.
LEMMA PopHead ==
  ASSUME IInv, NEW c \in Coros, Pop(c)
  PROVE  /\ head[c] = listed[1] /\ listed # <<>>
         /\ head[c] \in Coros /\ head[c] # c /\ pc[head[c]] = "suspended"
         /\ In(head[c], listed)
         /\ Forward(listed, 0)
         /\ pc' = [pc EXCEPT ![c] = "resuming", ![head[c]] = "critical"]
<1>1. /\ TypeOK /\ pc[c] = "pop" /\ head[c] = listed[1] /\ listed # <<>>
      /\ Forward(listed, 0)
  BY DEF Pop, IInv, ListShape
<1>2. head[c] \in Coros /\ In(head[c], listed)
  BY <1>1, WaitersAreCoros DEF In
<1>3. pc[head[c]] = "suspended"
  BY <1>2 DEF IInv, Waiting
<1> QED
  BY <1>1, <1>2, <1>3 DEF Pop

\* Nobody gets the mutex that another one holds.
LEMMA StepMutualExclusion ==
  ASSUME IInv, NEW c \in Coros, Progress(c) \/ Migrate(c)
  PROVE  MutualExclusion'
<1> USE MutexAssumption DEF IInv, TypeOK, Goto, Leave, Continue, locals, hist
<1>1. CASE Calm(c)
  BY <1>1, CalmStep DEF MutualExclusion
<1>2. CASE Take(c)
  BY <1>2 DEF Take, MutualExclusion, Holding
<1>3. CASE Push(c)
  BY <1>3 DEF Push, MutualExclusion, Holding
<1>4. CASE UnlockFree(c)
  BY <1>4 DEF UnlockFree, MutualExclusion, Holding
<1>5. CASE UnlockContended(c)
  BY <1>5 DEF UnlockContended, MutualExclusion, Holding
<1>6. CASE UnlockListed(c)
  BY <1>6 DEF UnlockListed, MutualExclusion, Holding
<1>7. CASE Exchange(c)
  BY <1>7 DEF Exchange, MutualExclusion, Holding
<1>8. CASE Reverse(c)
  BY <1>8 DEF Reverse, MutualExclusion, Holding
<1>9. CASE Pop(c)
  <2>1. \A d \in Coros : Holding(d)' => d = head[c]
    BY <1>9, PopHead DEF MutualExclusion, Holding, Pop
  <2>2. state' # NotLocked
    BY <1>9 DEF MutualExclusion, Holding, Pop
  <2> QED
    BY <2>1, <2>2 DEF MutualExclusion
<1> QED
  BY <1>1, <1>2, <1>3, <1>4, <1>5, <1>6, <1>7, <1>8, <1>9, Steps

\* A locked mutex keeps an owner.
LEMMA StepOwned ==
  ASSUME IInv, NEW c \in Coros, Progress(c) \/ Migrate(c)
  PROVE  Owned'
<1> USE MutexAssumption DEF IInv, TypeOK, Goto, Leave, Continue, locals, hist
<1>1. CASE Calm(c)
  BY <1>1, CalmStep DEF Owned
<1>2. CASE Take(c)
  BY <1>2 DEF Take, Owned, Holding
<1>3. CASE Push(c)
  BY <1>3 DEF Push, Owned, Holding
<1>4. CASE UnlockFree(c)
  <2>1. listed = <<>>
    <3>1. \A d \in Coros : ~Rebuilding(d)
      BY <1>4 DEF UnlockFree, MutualExclusion, Holding, Rebuilding
    <3>2. waiters = First(listed) /\ waiters = Null
      BY <1>4, <3>1 DEF UnlockFree, ListShape
    <3> QED
      BY <3>2, WaitersAreCoros DEF First
  <2> QED
    BY <1>4, <2>1 DEF UnlockFree, Owned
<1>5. CASE UnlockContended(c)
  BY <1>5 DEF UnlockContended, Owned, Holding
<1>6. CASE UnlockListed(c)
  BY <1>6 DEF UnlockListed, Owned, Holding
<1>7. CASE Exchange(c)
  BY <1>7 DEF Exchange, Owned, Holding
<1>8. CASE Reverse(c)
  BY <1>8 DEF Reverse, Owned, Holding
<1>9. CASE Pop(c)
  <2>1. pc'[head[c]] = "critical" /\ head[c] \in Coros
    BY <1>9, PopHead
  <2>2. state' # NotLocked
    BY <1>9 DEF MutualExclusion, Holding, Pop
  <2> QED
    BY <2>1, <2>2 DEF Owned, Holding
<1> QED
  BY <1>1, <1>2, <1>3, <1>4, <1>5, <1>6, <1>7, <1>8, <1>9, Steps

\* The suspended are exactly the waiters: they are queued once, and served
\* once.
LEMMA StepWaiting ==
  ASSUME IInv, NEW c \in Coros, Progress(c) \/ Migrate(c)
  PROVE  Waiting'
<1>0. TypeOK /\ Waiting
  BY DEF IInv
<1> USE DEF Goto, Leave, Continue, locals, hist
<1>1. CASE Calm(c)
  <2>1. \A d \in Coros : pc'[d] = "suspended" <=> pc[d] = "suspended"
    BY <1>0, <1>1, CalmStep DEF Shaping
  <2>2. UNCHANGED <<listed, stacked>>
    BY <1>0, <1>1, CalmStep
  <2> QED
    BY <1>0, <2>1, <2>2 DEF Waiting, Distinct, In
<1>2. CASE Take(c) \/ UnlockFree(c) \/ UnlockContended(c) \/ UnlockListed(c)
           \/ Reverse(c)
  <2>1. \A d \in Coros : pc'[d] = "suspended" <=> pc[d] = "suspended"
    BY <1>0, <1>2 DEF TypeOK, Take, UnlockFree, UnlockContended,
                      UnlockListed, Reverse
  <2>2. UNCHANGED <<listed, stacked>>
    BY <1>2 DEF Take, UnlockFree, UnlockContended, UnlockListed, Reverse
  <2> QED
    BY <1>0, <2>1, <2>2 DEF Waiting, Distinct, In
<1>3. CASE Push(c)
  <2>1. /\ stacked' = Append(stacked, c) /\ listed' = listed
        /\ pc' = [pc EXCEPT ![c] = "suspended"] /\ pc[c] = "cas"
    BY <1>3 DEF Push
  <2>2. ~In(c, listed) /\ ~In(c, stacked)
    BY <1>0, <2>1 DEF Waiting
  <2>3. stacked \in Seq(Coros) /\ pc \in [Coros -> Labels]
    BY <1>0 DEF TypeOK
  <2>4. /\ Len(stacked) \in Nat
        /\ Len(stacked') = Len(stacked) + 1
        /\ stacked'[Len(stacked) + 1] = c
        /\ \A i \in 1 .. Len(stacked) : stacked'[i] = stacked[i]
    BY <2>1, <2>3, SeqFacts
  <2>5. Distinct(stacked')
    BY <1>0, <2>2, <2>4 DEF Waiting, Distinct, In
  <2>6. \A d \in Coros : In(d, stacked') <=> In(d, stacked) \/ d = c
    BY <2>4 DEF In
  <2>7. \A d \in Coros : pc'[d] = "suspended" <=> pc[d] = "suspended" \/ d = c
    BY <2>1, <2>3
  <2> QED
    BY <1>0, <2>1, <2>2, <2>5, <2>6, <2>7 DEF Waiting
<1>4. CASE Exchange(c)
  <2>1. /\ listed = <<>> /\ listed' = stacked /\ stacked' = <<>>
        /\ pc' = [pc EXCEPT ![c] = "reverse"] /\ pc[c] = "exchange"
    BY <1>4 DEF Exchange, IInv, ListShape
  <2>2. \A d \in Coros : pc'[d] = "suspended" <=> pc[d] = "suspended"
    BY <1>0, <2>1 DEF TypeOK
  <2> QED
    BY <1>0, <2>1, <2>2 DEF Waiting, Distinct, In
<1>5. CASE Pop(c)
  <2>1. /\ listed \in Seq(Coros) /\ listed # <<>>
        /\ listed' = Tail(listed) /\ stacked' = stacked
        /\ head[c] = listed[1] /\ head[c] \in Coros /\ head[c] # c
        /\ pc' = [pc EXCEPT ![c] = "resuming", ![head[c]] = "critical"]
        /\ pc[c] = "pop" /\ pc \in [Coros -> Labels]
    BY <1>0, <1>5, PopHead DEF Pop, TypeOK
  <2>2. /\ Len(listed) \in Nat \ {0}
        /\ Len(listed') = Len(listed) - 1
        /\ \A i \in 1 .. Len(listed) - 1 : listed'[i] = listed[i + 1]
    BY <2>1, SeqFacts
  <2>3. Distinct(listed')
    BY <1>0, <2>2 DEF Waiting, Distinct
  <2>4. \A d \in Coros : In(d, listed') <=> In(d, listed) /\ d # head[c]
    <3>1. TAKE d \in Coros
    <3>2. ASSUME NEW i \in 1 .. Len(listed'), listed'[i] = d
          PROVE  In(d, listed) /\ d # head[c]
      BY <1>0, <2>1, <2>2, <3>2 DEF In, Waiting, Distinct
    <3>3. ASSUME NEW i \in 1 .. Len(listed), listed[i] = d, d # head[c]
          PROVE  In(d, listed')
      <4>1. i # 1 /\ i - 1 \in 1 .. Len(listed') /\ listed'[i - 1] = d
        BY <2>1, <2>2, <3>3
      <4> QED
        BY <4>1 DEF In
    <3> QED
      BY <3>2, <3>3 DEF In
  <2>5. \A d \in Coros :
          pc'[d] = "suspended" <=> pc[d] = "suspended" /\ d # head[c]
    BY <2>1
  <2>6. ~In(head[c], stacked)
    BY <1>0, <1>5, <2>1, PopHead DEF Waiting
  <2> QED
    BY <1>0, <2>1, <2>3, <2>4, <2>5, <2>6 DEF Waiting
<1> QED
  BY <1>1, <1>2, <1>3, <1>4, <1>5, Steps

\* The stack keeps its shape: a push puts its node on top, and the exchange
\* takes all of it.
LEMMA StepStackShape ==
  ASSUME IInv, NEW c \in Coros, Progress(c) \/ Migrate(c)
  PROVE  StackShape'
<1>0. TypeOK /\ Waiting /\ StackShape
  BY DEF IInv
<1> USE DEF locals, hist
<1>1. CASE Calm(c)
  BY <1>0, <1>1, CalmStep DEF StackShape, Backward
<1>2. CASE Take(c)
  <2>1. stacked = <<>> /\ state' = Null /\ UNCHANGED <<next, stacked>>
    <3>1. state = NotLocked /\ state' = Null /\ UNCHANGED <<next, stacked>>
      BY <1>2 DEF Take
    <3> QED
      BY <1>0, <3>1, WaitersAreCoros, MutexAssumption DEF StackShape
  <2> QED
    BY <2>1 DEF StackShape, Backward
<1>3. CASE UnlockFree(c)
  <2>1. state = Null /\ state' = NotLocked /\ UNCHANGED <<next, stacked>>
    BY <1>3 DEF UnlockFree
  <2>2. stacked = <<>>
    BY <1>0, <2>1, WaitersAreCoros, MutexAssumption DEF StackShape
  <2> QED
    BY <2>1, <2>2 DEF StackShape, Backward
<1>4. CASE UnlockContended(c) \/ UnlockListed(c) \/ Pop(c)
  <2>1. UNCHANGED <<state, next, stacked>>
    BY <1>4 DEF UnlockContended, UnlockListed, Pop
  <2> QED
    BY <1>0, <2>1 DEF StackShape, Backward
<1>5. CASE Push(c)
  <2>1. /\ stacked' = Append(stacked, c) /\ state' = c /\ state # NotLocked
        /\ next' = [next EXCEPT ![c] = state] /\ pc[c] = "cas"
        /\ stacked \in Seq(Coros) /\ next \in [Coros -> Nodes]
    BY <1>0, <1>5 DEF Push, TypeOK
  <2>2. /\ Len(stacked) \in Nat
        /\ \A i \in 1 .. Len(stacked) : stacked[i] \in Coros /\ stacked[i] # c
    BY <1>0, <2>1, WaitersAreCoros DEF Waiting, In
  <2>3. /\ Len(stacked') = Len(stacked) + 1
        /\ stacked'[Len(stacked) + 1] = c
        /\ \A i \in 1 .. Len(stacked) : stacked'[i] = stacked[i]
        /\ stacked = <<>> <=> Len(stacked) = 0
        /\ stacked' # <<>>
    BY <2>1, SeqFacts
  <2>4. ASSUME NEW i \in 1 .. Len(stacked')
        PROVE  next'[stacked'[i]] = IF i = 1 THEN Null ELSE stacked'[i - 1]
    <3>1. CASE i = Len(stacked) + 1
      BY <1>0, <2>1, <2>2, <2>3, <3>1 DEF StackShape
    <3>2. CASE i # Len(stacked) + 1
      <4>1. i \in 1 .. Len(stacked) /\ (i # 1 => i - 1 \in 1 .. Len(stacked))
        BY <2>2, <2>3, <3>2
      <4> QED
        BY <1>0, <2>1, <2>2, <2>3, <4>1 DEF StackShape, Backward
    <3> QED
      BY <3>1, <3>2
  <2> QED
    BY <2>1, <2>2, <2>3, <2>4 DEF StackShape, Backward
<1>6. CASE Exchange(c)
  BY <1>6 DEF Exchange, StackShape, Backward
<1>7. CASE Reverse(c)
  <2>1. PICK j \in 1 .. Len(listed) : cur[c] = listed[j]
    BY <1>7 DEF Reverse, IInv, ReverseShape, HalfWay
  <2>2. In(cur[c], listed) /\ cur[c] \in Coros
    BY <1>0, <2>1, WaitersAreCoros DEF In
  <2>3. \A i \in 1 .. Len(stacked) : stacked[i] \in Coros /\ stacked[i] # cur[c]
    BY <1>0, <2>2, WaitersAreCoros DEF Waiting, In
  <2>4. /\ UNCHANGED <<state, stacked>>
        /\ next' = [next EXCEPT ![cur[c]] = head[c]]
        /\ next \in [Coros -> Nodes]
    BY <1>0, <1>7 DEF Reverse, TypeOK
  <2>5. \A i \in 1 .. Len(stacked) : next'[stacked[i]] = next[stacked[i]]
    BY <2>3, <2>4
  <2> QED
    BY <1>0, <2>4, <2>5 DEF StackShape, Backward
<1> QED
  BY <1>1, <1>2, <1>3, <1>4, <1>5, <1>6, <1>7, Steps

\* The FIFO list keeps its shape: it is built by the loop and shortened by
\* one waiter per unlock().
LEMMA StepListShape ==
  ASSUME IInv, NEW c \in Coros, Progress(c) \/ Migrate(c)
  PROVE  ListShape'
<1>0. /\ TypeOK /\ Waiting /\ ListShape /\ MutualExclusion
      /\ Len(listed) \in Nat
  BY WaitersAreCoros DEF IInv
<1> USE DEF locals, hist, Goto, Continue, Leave, Holding
<1>1. CASE Calm(c)
  <2>1. /\ UNCHANGED <<state, waiters, next, head, cur, listed, stacked>>
        /\ \A d \in Coros, l \in Shaping : pc'[d] = l <=> pc[d] = l
    BY <1>0, <1>1, CalmStep
  <2>2. \A d \in Coros : /\ Rebuilding(d)' <=> Rebuilding(d)
                         /\ pc'[d] = "exchange" <=> pc[d] = "exchange"
                         /\ pc'[d] = "pop" <=> pc[d] = "pop"
    BY <2>1 DEF Rebuilding, Shaping
  <2> QED
    BY <1>0, <2>1, <2>2 DEF ListShape, Forward, First
<1>2. CASE Take(c)
  <2>1. /\ UNCHANGED <<waiters, next, head, listed, stacked>>
        /\ \A d \in Coros, l \in Shaping : pc'[d] = l <=> pc[d] = l
    BY <1>0, <1>2 DEF Take, TypeOK, Shaping
  <2>2. \A d \in Coros : /\ Rebuilding(d)' <=> Rebuilding(d)
                         /\ pc'[d] = "exchange" <=> pc[d] = "exchange"
                         /\ pc'[d] = "pop" <=> pc[d] = "pop"
    BY <2>1 DEF Rebuilding, Shaping
  <2> QED
    BY <1>0, <2>1, <2>2 DEF ListShape, Forward, First
<1>3. CASE UnlockFree(c)
  <2>1. /\ UNCHANGED <<waiters, next, head, listed, stacked>>
        /\ \A d \in Coros, l \in Shaping : pc'[d] = l <=> pc[d] = l
    BY <1>0, <1>3 DEF UnlockFree, TypeOK, Shaping
  <2>2. \A d \in Coros : /\ Rebuilding(d)' <=> Rebuilding(d)
                         /\ pc'[d] = "exchange" <=> pc[d] = "exchange"
                         /\ pc'[d] = "pop" <=> pc[d] = "pop"
    BY <2>1 DEF Rebuilding, Shaping
  <2> QED
    BY <1>0, <2>1, <2>2 DEF ListShape, Forward, First
<1>4. CASE Push(c)
  <2>1. /\ UNCHANGED <<waiters, head, listed>>
        /\ next' = [next EXCEPT ![c] = state] /\ next \in [Coros -> Nodes]
        /\ pc' = [pc EXCEPT ![c] = "suspended"] /\ pc[c] = "cas"
        /\ stacked' = Append(stacked, c) /\ stacked \in Seq(Coros)
    BY <1>0, <1>4 DEF Push, TypeOK
  <2>2. \A d \in Coros : /\ Rebuilding(d)' <=> Rebuilding(d)
                         /\ pc'[d] = "exchange" => pc[d] = "exchange"
                         /\ pc'[d] = "pop" <=> pc[d] = "pop"
    BY <1>0, <2>1 DEF Rebuilding, TypeOK
  <2>3. \A i \in 1 .. Len(listed) : next'[listed[i]] = next[listed[i]]
    BY <1>0, <2>1, WaitersAreCoros DEF Waiting, In
  <2>4. stacked' # <<>>
    BY <2>1, SeqFacts
  <2>5. Forward(listed, 0) => Forward(listed, 0)'
    BY <1>0, <2>1, <2>3 DEF Forward
  <2> QED
    BY <1>0, <2>1, <2>2, <2>4, <2>5 DEF ListShape, First
<1>5. CASE UnlockContended(c)
  <2>1. /\ UNCHANGED <<state, waiters, next, head, listed, stacked>>
        /\ pc' = [pc EXCEPT ![c] = "exchange"] /\ pc[c] = "unlock"
        /\ state # Null /\ waiters = Null
    BY <1>0, <1>5 DEF UnlockContended
  <2>2. \A d \in Coros : Holding(d) => d = c
    BY <1>0, <2>1 DEF MutualExclusion
  <2>3. /\ \A d \in Coros : ~Rebuilding(d) /\ ~Rebuilding(d)'
        /\ \A d \in Coros : pc'[d] # "pop" /\ (pc'[d] = "exchange" => d = c)
    BY <1>0, <2>1, <2>2 DEF Rebuilding, TypeOK
  <2>4. listed = <<>>
    BY <1>0, <2>1, <2>3, WaitersAreCoros, MutexAssumption DEF ListShape, First
  <2>5. stacked # <<>>
    BY <1>0, <2>1 DEF StackShape, IInv, MutualExclusion
  <2> QED
    BY <1>0, <2>1, <2>3, <2>4, <2>5 DEF ListShape, Forward, First
<1>6. CASE UnlockListed(c)
  <2>1. /\ UNCHANGED <<waiters, next, listed, stacked>>
        /\ pc' = [pc EXCEPT ![c] = "pop"] /\ pc[c] = "unlock"
        /\ waiters # Null /\ head' = [head EXCEPT ![c] = waiters]
    BY <1>0, <1>6 DEF UnlockListed
  <2>2. \A d \in Coros : Holding(d) => d = c
    BY <1>0, <2>1 DEF MutualExclusion
  <2>3. /\ \A d \in Coros : ~Rebuilding(d) /\ pc[d] # "exchange"
        /\ Rebuilding(c)'
        /\ \A d \in Coros : pc'[d] # "exchange" /\ (pc'[d] = "pop" => d = c)
    BY <1>0, <2>1, <2>2 DEF Rebuilding, TypeOK
  <2>4. waiters = First(listed) /\ Forward(listed, 0)
    BY <1>0, <2>3 DEF ListShape
  <2>5. listed # <<>> /\ head'[c] = listed[1]
    BY <1>0, <2>1, <2>4 DEF First, TypeOK
  <2> QED
    BY <2>1, <2>3, <2>4, <2>5 DEF ListShape, Forward
<1>7. CASE Exchange(c)
  <2>1. pc' = [pc EXCEPT ![c] = "reverse"] /\ pc[c] = "exchange"
    BY <1>7 DEF Exchange
  <2>2. \A d \in Coros : Holding(d) => d = c
    BY <1>0, <2>1 DEF MutualExclusion
  <2>3. /\ Rebuilding(c)'
        /\ \A d \in Coros : pc'[d] # "exchange" /\ pc'[d] # "pop"
    BY <1>0, <2>1, <2>2 DEF Rebuilding, TypeOK
  <2> QED
    BY <2>3 DEF ListShape
<1>8. CASE Reverse(c)
  <2>1. /\ UNCHANGED <<listed, stacked>> /\ pc[c] = "reverse"
        /\ next' = [next EXCEPT ![cur[c]] = head[c]]
        /\ next \in [Coros -> Nodes]
        /\ head' = [head EXCEPT ![c] = cur[c]] /\ head \in [Coros -> Nodes]
        /\ pc' = [pc EXCEPT ![c] = IF next[cur[c]] = Null THEN "pop"
                                   ELSE "reverse"]
    BY <1>0, <1>8 DEF Reverse, TypeOK
  <2>2. \A d \in Coros : Holding(d) => d = c
    BY <1>0, <2>1 DEF MutualExclusion
  <2>3. /\ Rebuilding(c)'
        /\ \A d \in Coros : pc'[d] # "exchange" /\ (pc'[d] = "pop" => d = c)
    BY <1>0, <2>1, <2>2 DEF Rebuilding, TypeOK
  <2>4. ASSUME pc'[c] = "pop"
        PROVE  /\ listed' # <<>> /\ head'[c] = listed'[1]
               /\ Forward(listed, 0)'
    <3>1. PICK j \in 1 .. Len(listed) : HalfWay(c, j)
      BY <2>1 DEF IInv, ReverseShape
    <3>2. next[cur[c]] = Null
      BY <1>0, <2>1, <2>4 DEF TypeOK
    <3>3. j = 1
      <4>1. j # 1 => next[cur[c]] = listed[j - 1] /\ j - 1 \in 1 .. Len(listed)
        BY <1>0, <3>1 DEF HalfWay, Backward
      <4> QED
        BY <1>0, <3>2, <4>1, WaitersAreCoros, MutexAssumption
    <3>4. /\ cur[c] = listed[1]
          /\ head[c] = IF 1 = Len(listed) THEN Null ELSE listed[1 + 1]
          /\ Forward(listed, 1)
      BY <3>1, <3>3 DEF HalfWay
    <3>5. ASSUME NEW i \in 1 .. Len(listed)
          PROVE  next'[listed[i]] = IF i = Len(listed) THEN Null
                                    ELSE listed[i + 1]
      <4>1. CASE i = 1
        BY <1>0, <2>1, <3>4, <4>1, WaitersAreCoros
      <4>2. CASE i # 1
        <5>1. listed[i] # cur[c] /\ i \in 1 + 1 .. Len(listed)
          BY <1>0, <3>1, <3>3, <3>4, <4>2 DEF Waiting, Distinct
        <5> QED
          BY <1>0, <2>1, <3>4, <5>1, WaitersAreCoros DEF Forward
      <4> QED
        BY <4>1, <4>2
    <3>6. listed # <<>>
      BY <1>0, <3>1
    <3> QED
      BY <2>1, <3>4, <3>5, <3>6 DEF Forward
  <2> QED
    BY <2>3, <2>4 DEF ListShape
<1>9. CASE Pop(c)
  <2>1. /\ listed \in Seq(Coros) /\ listed # <<>>
        /\ listed' = Tail(listed) /\ UNCHANGED <<stacked, next, head>>
        /\ head[c] = listed[1] /\ head[c] \in Coros /\ head[c] # c
        /\ Forward(listed, 0) /\ waiters' = next[head[c]]
        /\ pc' = [pc EXCEPT ![c] = "resuming", ![head[c]] = "critical"]
        /\ pc[c] = "pop" /\ pc \in [Coros -> Labels]
    BY <1>0, <1>9, PopHead DEF Pop, TypeOK
  <2>2. /\ Len(listed) \in Nat \ {0}
        /\ Len(listed') = Len(listed) - 1
        /\ \A i \in 1 .. Len(listed) - 1 : listed'[i] = listed[i + 1]
    BY <2>1, SeqFacts
  <2>3. \A d \in Coros : Holding(d) => d = c
    BY <1>0, <2>1 DEF MutualExclusion
  <2>7. listed' = <<>> <=> Len(listed) = 1
    <3>1. Tail(listed) \in Seq(Coros)
      BY <2>1, SeqFacts
    <3>2. Tail(listed) = <<>> <=> Len(Tail(listed)) = 0
      BY <3>1, EmptySeq
    <3>3. listed' = Tail(listed)
      BY <2>1
    <3> QED
      BY <2>2, <3>2, <3>3
  <2>8. \A i \in 1 .. Len(listed) :
          next[listed[i]] = IF i = Len(listed) THEN Null ELSE listed[i + 1]
    <3>1. Forward(listed, 0)
      BY <2>1
    <3> QED
      BY <1>0, <3>1 DEF Forward
  <2>4. \A d \in Coros : pc'[d] # "exchange" /\ pc'[d] # "pop"
    BY <2>1, <2>3
  <2>5. waiters' = First(listed')
    <3>1. CASE Len(listed) = 1
      BY <2>1, <2>7, <2>8, <3>1 DEF First
    <3>2. CASE Len(listed) # 1
      <4>1. 1 \in 1 .. Len(listed) - 1 /\ 1 \in 1 .. Len(listed)
        BY <2>2, <3>2
      <4>2. waiters' = listed[1 + 1] /\ listed'[1] = listed[1 + 1]
        BY <2>1, <2>2, <2>8, <3>2, <4>1
      <4> QED
        BY <2>7, <3>2, <4>2 DEF First
    <3> QED
      BY <3>1, <3>2
  <2>6. Forward(listed, 0)'
    <3>1. ASSUME NEW i \in 1 .. Len(listed')
          PROVE  next'[listed'[i]] = IF i = Len(listed') THEN Null
                                     ELSE listed'[i + 1]
      <4>1. /\ i \in 1 .. Len(listed) - 1 /\ i + 1 \in 1 .. Len(listed)
            /\ i # Len(listed') => i + 1 \in 1 .. Len(listed) - 1
            /\ i = Len(listed') <=> i + 1 = Len(listed)
        BY <2>2
      <4>2. next'[listed'[i]] = next[listed[i + 1]]
        BY <2>1, <2>2, <4>1
      <4>3. CASE i = Len(listed')
        BY <2>8, <4>1, <4>2, <4>3
      <4>4. CASE i # Len(listed')
        BY <2>2, <2>8, <4>1, <4>2, <4>4
      <4> QED
        BY <4>3, <4>4
    <3> QED
      BY <3>1 DEF Forward
  <2> QED
    BY <2>4, <2>5, <2>6 DEF ListShape
<1> QED
  BY <1>1, <1>2, <1>3, <1>4, <1>5, <1>6, <1>7, <1>8, <1>9, Steps

\* The loop: one more waiter has its link turned round, and the rest of the
\* stack is as it was.
LEMMA StepReverseShape ==
  ASSUME IInv, NEW c \in Coros, Progress(c) \/ Migrate(c)
  PROVE  ReverseShape'
<1>0. /\ TypeOK /\ Waiting /\ ReverseShape /\ MutualExclusion
      /\ Len(listed) \in Nat
  BY WaitersAreCoros DEF IInv
<1> USE DEF locals, hist, Goto, Continue, Leave, Holding
<1>1. CASE Calm(c)
  <2>1. /\ UNCHANGED <<next, head, cur, listed>>
        /\ \A d \in Coros : pc'[d] = "reverse" <=> pc[d] = "reverse"
    BY <1>0, <1>1, CalmStep DEF Shaping
  <2> QED
    BY <1>0, <2>1 DEF ReverseShape, HalfWay, Backward, Forward
<1>2. CASE Take(c) \/ UnlockFree(c) \/ UnlockContended(c)
  <2>1. /\ UNCHANGED <<next, head, cur, listed>>
        /\ \A d \in Coros : pc'[d] = "reverse" <=> pc[d] = "reverse"
    BY <1>0, <1>2 DEF Take, UnlockFree, UnlockContended, TypeOK
  <2> QED
    BY <1>0, <2>1 DEF ReverseShape, HalfWay, Backward, Forward
<1>3. CASE UnlockListed(c) \/ Pop(c)
  <2>1. \A d \in Coros : pc[d] # "reverse"
    BY <1>0, <1>3 DEF UnlockListed, Pop, MutualExclusion
  <2>2. \A d \in Coros : pc'[d] # "reverse"
    BY <1>0, <1>3, <2>1, PopHead DEF UnlockListed, Pop, TypeOK
  <2> QED
    BY <2>2 DEF ReverseShape
<1>4. CASE Push(c)
  <2>1. /\ UNCHANGED <<head, cur, listed>>
        /\ next' = [next EXCEPT ![c] = state] /\ next \in [Coros -> Nodes]
        /\ pc' = [pc EXCEPT ![c] = "suspended"] /\ pc[c] = "cas"
    BY <1>0, <1>4 DEF Push, TypeOK
  <2>2. \A i \in 1 .. Len(listed) : next'[listed[i]] = next[listed[i]]
    BY <1>0, <2>1, WaitersAreCoros DEF Waiting, In
  <2>3. \A d \in Coros : pc'[d] = "reverse" => pc[d] = "reverse"
    BY <1>0, <2>1 DEF TypeOK
  <2>4. \A d \in Coros, j \in 1 .. Len(listed) : HalfWay(d, j) => HalfWay(d, j)'
    BY <1>0, <2>1, <2>2 DEF HalfWay, Backward, Forward
  <2> QED
    BY <1>0, <2>1, <2>3, <2>4 DEF ReverseShape
<1>5. CASE Exchange(c)
  <2>1. /\ cur' = [cur EXCEPT ![c] = state] /\ head' = [head EXCEPT ![c] = Null]
        /\ listed' = stacked /\ UNCHANGED next
        /\ pc' = [pc EXCEPT ![c] = "reverse"] /\ pc[c] = "exchange"
        /\ stacked # <<>> /\ StackShape
    BY <1>5 DEF Exchange, IInv, ListShape
  <2>2. \A d \in Coros : pc'[d] = "reverse" => d = c
    BY <1>0, <2>1 DEF MutualExclusion, TypeOK
  <2>3. /\ cur'[c] = listed'[Len(listed')] /\ head'[c] = Null
        /\ Len(listed') \in 1 .. Len(listed')
    BY <1>0, <2>1, WaitersAreCoros DEF TypeOK, StackShape
  <2>4. Backward(listed, Len(listed))' /\ Forward(listed, Len(listed))'
    BY <2>1, <2>3 DEF StackShape, Backward, Forward
  <2>5. HalfWay(c, Len(listed))'
    BY <2>3, <2>4 DEF HalfWay
  <2> QED
    BY <2>2, <2>3, <2>5 DEF ReverseShape
<1>6. CASE Reverse(c)
  <2>1. /\ UNCHANGED listed /\ pc[c] = "reverse"
        /\ next' = [next EXCEPT ![cur[c]] = head[c]]
        /\ next \in [Coros -> Nodes]
        /\ head' = [head EXCEPT ![c] = cur[c]] /\ head \in [Coros -> Nodes]
        /\ cur' = [cur EXCEPT ![c] = next[cur[c]]] /\ cur \in [Coros -> Nodes]
        /\ pc' = [pc EXCEPT ![c] = IF next[cur[c]] = Null THEN "pop"
                                   ELSE "reverse"]
    BY <1>0, <1>6 DEF Reverse, TypeOK
  <2>2. \A d \in Coros : pc'[d] = "reverse" => d = c
    BY <1>0, <2>1 DEF MutualExclusion, TypeOK
  <2>3. ASSUME pc'[c] = "reverse"
        PROVE  \E j \in 1 .. Len(listed') : HalfWay(c, j)'
    <3>1. PICK j \in 1 .. Len(listed) : HalfWay(c, j)
      BY <1>0, <2>1 DEF ReverseShape
    <3>2. next[cur[c]] # Null
      BY <1>0, <2>1, <2>3 DEF TypeOK
    <3>3. /\ cur[c] = listed[j] /\ next[cur[c]] = listed[j - 1]
          /\ j - 1 \in 1 .. Len(listed)
      BY <1>0, <3>1, <3>2 DEF HalfWay, Backward
    <3>4. \A i \in 1 .. Len(listed) : i # j => next'[listed[i]] = next[listed[i]]
      BY <1>0, <2>1, <3>3, WaitersAreCoros DEF Waiting, Distinct
    <3>5. next'[listed[j]] = IF j = Len(listed) THEN Null ELSE listed[j + 1]
      BY <1>0, <2>1, <3>1, <3>3, WaitersAreCoros DEF HalfWay
    <3>6. cur'[c] = listed[j - 1] /\ head'[c] = listed[j]
      BY <2>1, <3>3
    <3>7. \A i \in 1 .. j - 1 :
            next'[listed[i]] = IF i = 1 THEN Null ELSE listed[i - 1]
      <4>1. TAKE i \in 1 .. j - 1
      <4>2. i \in 1 .. Len(listed) /\ i # j /\ i \in 1 .. j
        OBVIOUS
      <4>3. next[listed[i]] = IF i = 1 THEN Null ELSE listed[i - 1]
        BY <3>1, <4>2 DEF HalfWay, Backward
      <4> QED
        BY <3>4, <4>2, <4>3
    <3>8. \A i \in j .. Len(listed) :
            next'[listed[i]] = IF i = Len(listed) THEN Null ELSE listed[i + 1]
      <4>1. TAKE i \in j .. Len(listed)
      <4>2. CASE i = j
        BY <3>5, <4>2
      <4>3. CASE i # j
        BY <1>0, <3>1, <3>4, <4>3 DEF HalfWay, Forward
      <4> QED
        BY <4>2, <4>3
    <3>9. HalfWay(c, j - 1)'
      BY <1>0, <2>1, <3>3, <3>6, <3>7, <3>8 DEF HalfWay, Backward, Forward
    <3> QED
      BY <2>1, <3>3, <3>9
  <2> QED
    BY <2>2, <2>3 DEF ReverseShape
<1> QED
  BY <1>1, <1>2, <1>3, <1>4, <1>5, <1>6, Steps

\* The invariant is inductive.
LEMMA NextIInv == IInv /\ [Next]_vars => IInv'
<1> SUFFICES ASSUME IInv, [Next]_vars PROVE IInv'
  OBVIOUS
<1>1. ASSUME NEW c \in Coros, Progress(c) \/ Migrate(c) PROVE IInv'
  BY <1>1, StepType, StepMutualExclusion, StepOwned, StepStackShape,
     StepListShape, StepReverseShape, StepWaiting DEF IInv
<1>2. CASE UNCHANGED vars
  BY <1>2 DEF vars, locals, hist, IInv, TypeOK, MutualExclusion, Owned,
     Holding, StackShape, ListShape, Rebuilding, First, ReverseShape, HalfWay,
     Backward, Forward, Waiting, Distinct, In
<1> QED
  BY <1>1, <1>2 DEF Next, Terminating

\* It holds in every reachable state.
LEMMA Invariance == Spec => []IInv
  BY InitIInv, NextIInv, PTL DEF Spec

-----------------------------------------------------------------------------
\* Every variable of the mutex keeps its type.
THEOREM TypeCorrect == Spec => []TypeOK
<1>1. IInv => TypeOK
  BY DEF IInv
<1> QED
  BY <1>1, Invariance, PTL

\* The critical sections between lock() and unlock() exclude each other, for
\* any number of coroutines.
THEOREM Exclusive == Spec => []MutualExclusion
<1>1. IInv => MutualExclusion
  BY DEF IInv
<1> QED
  BY <1>1, Invariance, PTL

\* The asserts of unlock() cannot fail: the mutex is locked, the detached
\* stack is not empty, and the coroutine it resumes is suspended in lock().
THEOREM Safe == Spec => []Asserts
<1>1. IInv => Asserts
  <2> SUFFICES ASSUME IInv, NEW c \in Coros
               PROVE  /\ pc[c] = "unlock" => state # NotLocked
                      /\ pc[c] = "exchange" => state \in Coros
                      /\ pc[c] = "reverse" => cur[c] \in Coros
                      /\ pc[c] = "pop" =>
                           head[c] \in Coros /\ pc[head[c]] = "suspended"
    BY DEF Asserts
  <2>1. pc[c] = "unlock" => state # NotLocked
    BY DEF IInv, MutualExclusion, Holding
  <2>2. pc[c] = "exchange" => state \in Coros
    BY WaitersAreCoros DEF IInv, ListShape, StackShape
  <2>3. pc[c] = "reverse" => cur[c] \in Coros
    BY WaitersAreCoros DEF IInv, ReverseShape, HalfWay
  <2>4. ASSUME pc[c] = "pop"
        PROVE  head[c] \in Coros /\ pc[head[c]] = "suspended"
    <3>1. head[c] \in Coros /\ In(head[c], listed)
      BY <2>4, WaitersAreCoros DEF IInv, ListShape, In
    <3> QED
      BY <3>1 DEF IInv, Waiting
  <2> QED
    BY <2>1, <2>2, <2>3, <2>4
<1> QED
  BY <1>1, Invariance, PTL

\* When nobody holds the mutex it is free, its lists are empty and nobody is
\* left suspended: no waiter is lost between the stack and the list.
THEOREM NoLostWaiter == Spec => []NobodyLost
<1>1. IInv => NobodyLost
  <2> SUFFICES ASSUME IInv,
                      \A c \in Coros : pc[c] \in {"idle", "suspended", "done"}
               PROVE  /\ state = NotLocked /\ waiters = Null
                      /\ \A c \in Coros : pc[c] # "suspended"
    BY DEF NobodyLost
  <2>1. \A c \in Coros : ~Holding(c) /\ ~Rebuilding(c)
    BY DEF Holding, Rebuilding
  <2>2. state = NotLocked /\ listed = <<>>
    BY <2>1 DEF IInv, Owned
  <2>3. waiters = Null
    BY <2>1, <2>2 DEF IInv, ListShape, First
  <2>4. stacked = <<>>
    BY <2>2, WaitersAreCoros, MutexAssumption DEF IInv, StackShape
  <2>5. \A c \in Coros : ~In(c, listed) /\ ~In(c, stacked)
    <3>1. Len(listed) = 0 /\ Len(stacked) = 0
      BY <2>2, <2>4
    <3>2. 1 .. Len(listed) = {} /\ 1 .. Len(stacked) = {}
      BY <3>1
    <3> QED
      BY <3>2 DEF In
  <2> QED
    BY <2>2, <2>3, <2>5 DEF IInv, Waiting
<1> QED
  BY <1>1, Invariance, PTL

-----------------------------------------------------------------------------
\* The owner of the abstract lock is the one coroutine that holds the mutex.
LEMMA OwnerIs ==
  ASSUME MutualExclusion
  PROVE  /\ \A c \in Coros : Holding(c) => owner = c
         /\ (\A c \in Coros : ~Holding(c)) => owner = NoOne
  BY DEF MutualExclusion, owner

\* Who holds it is all that the abstract owner depends on.
LEMMA SameOwner ==
  ASSUME MutualExclusion, MutualExclusion',
         \A d \in Coros : Holding(d)' <=> Holding(d)
  PROVE  owner' = owner
<1>1. /\ \A d \in Coros : Holding(d)' => owner' = d
      /\ (\A d \in Coros : ~Holding(d)') => owner' = NoOne
  BY DEF MutualExclusion, owner
<1> QED
  BY <1>1, OwnerIs

\* The sequences that make up the abstract queue.
LEMMA QueueFacts ==
  ASSUME NEW S, NEW p \in Seq(S), NEW q \in Seq(S)
  PROVE  /\ \A e \in S : p \o Append(q, e) = Append(p \o q, e)
         /\ <<>> \o q = q /\ q \o <<>> = q
         /\ p # <<>> => /\ p \o q # <<>>
                        /\ Head(p \o q) = p[1]
                        /\ Tail(p \o q) = Tail(p) \o q
<1>1. \A e \in S : p \o Append(q, e) = Append(p \o q, e)
  OBVIOUS
<1>2. <<>> \o q = q /\ q \o <<>> = q
  OBVIOUS
<1>3. ASSUME p # <<>>
      PROVE  /\ p \o q # <<>> /\ Head(p \o q) = p[1]
             /\ Tail(p \o q) = Tail(p) \o q
  BY <1>3
<1> QED
  BY <1>1, <1>2, <1>3

\* Every step of the pointer algorithm is a step of the abstract lock, or
\* none that it can see.
LEMMA StepRefines ==
  ASSUME IInv, IInv', NEW c \in Coros, Progress(c) \/ Migrate(c)
  PROVE  [Lock!Next]_(Lock!vars)
<1>0. /\ TypeOK /\ MutualExclusion /\ MutualExclusion'
      /\ listed \in Seq(Coros) /\ stacked \in Seq(Coros)
  BY DEF IInv, TypeOK
<1>a. ASSUME pc[c] \in {"unlock", "exchange", "reverse", "pop"}
      PROVE  owner = c /\ Holding(c) /\ owner # NoOne
  BY <1>0, <1>a, OwnerIs, MutexAssumption DEF Holding
<1> USE DEF locals, hist, Goto, Leave
<1>1. CASE Calm(c) \/ UnlockContended(c) \/ UnlockListed(c) \/ Exchange(c)
           \/ Reverse(c)
  <2>1. \A d \in Coros : Holding(d)' <=> Holding(d)
    <3>1. CASE Calm(c)
      BY <1>0, <3>1, CalmStep
    <3>2. CASE ~Calm(c)
      BY <1>0, <1>1, <3>2 DEF UnlockContended, UnlockListed, Exchange, Reverse,
                              TypeOK, Holding
    <3> QED
      BY <3>1, <3>2
  <2>2. queue' = queue
    <3>1. CASE Exchange(c)
      <4>1. listed = <<>> /\ listed' = stacked /\ stacked' = <<>>
        BY <3>1 DEF Exchange, IInv, ListShape
      <4> QED
        BY <1>0, <4>1, QueueFacts DEF queue
    <3>2. CASE ~Exchange(c)
      <4>1. UNCHANGED <<listed, stacked>>
        BY <1>0, <1>1, <3>2, CalmStep DEF UnlockContended, UnlockListed, Reverse
      <4> QED
        BY <4>1 DEF queue
    <3> QED
      BY <3>1, <3>2
  <2> QED
    BY <1>0, <2>1, <2>2, SameOwner DEF Lock!vars
<1>2. CASE Take(c)
  <2>1. state = NotLocked /\ pc' = [pc EXCEPT ![c] = "critical"]
        /\ UNCHANGED <<listed, stacked>>
    BY <1>2 DEF Take
  <2>2. owner = NoOne
    BY <1>0, <2>1, OwnerIs DEF MutualExclusion
  <2>3. owner' = c
    BY <1>0, <2>1 DEF MutualExclusion, Holding, TypeOK, owner
  <2>4. listed = <<>> /\ stacked = <<>>
    BY <1>0, <2>1, WaitersAreCoros, MutexAssumption DEF IInv, Owned, StackShape
  <2>5. queue = <<>> /\ queue' = queue
    BY <2>1, <2>4 DEF queue
  <2> QED
    BY <2>2, <2>3, <2>5 DEF Lock!Next, Lock!Acquire
<1>3. CASE Push(c)
  <2>1. /\ state # NotLocked /\ pc[c] = "cas"
        /\ pc' = [pc EXCEPT ![c] = "suspended"]
        /\ listed' = listed /\ stacked' = Append(stacked, c)
    BY <1>3 DEF Push
  <2>2. owner # NoOne
    BY <1>0, <2>1, OwnerIs, MutexAssumption DEF IInv, Owned
  <2>3. \A d \in Coros : Holding(d)' <=> Holding(d)
    BY <1>0, <2>1 DEF TypeOK, Holding
  <2>4. queue' = Append(queue, c)
    BY <1>0, <2>1, QueueFacts DEF queue
  <2> QED
    BY <1>0, <2>2, <2>3, <2>4, SameOwner DEF Lock!Next, Lock!Enqueue
<1>4. CASE UnlockFree(c)
  <2>1. /\ pc[c] = "unlock" /\ waiters = Null /\ state = Null
        /\ state' = NotLocked /\ UNCHANGED <<listed, stacked>>
    BY <1>4 DEF UnlockFree
  <2>2. owner # NoOne
    BY <1>a, <2>1
  <2>3. owner' = NoOne
    BY <1>0, <2>1 DEF MutualExclusion, owner
  <2>4. listed = <<>>
    <3>1. IInv' /\ state' = NotLocked /\ listed' = listed
      BY <2>1
    <3> QED
      BY <3>1 DEF IInv, Owned
  <2>5. stacked = <<>>
    BY <1>0, <2>1, WaitersAreCoros, MutexAssumption DEF IInv, StackShape
  <2>6. queue = <<>> /\ queue' = queue
    BY <2>1, <2>4, <2>5 DEF queue
  <2> QED
    BY <2>2, <2>3, <2>6 DEF Lock!Next, Lock!Release
<1>5. CASE Pop(c)
  <2>1. /\ pc[c] = "pop" /\ listed # <<>> /\ head[c] = listed[1]
        /\ head[c] \in Coros /\ head[c] # c
        /\ pc' = [pc EXCEPT ![c] = "resuming", ![head[c]] = "critical"]
        /\ listed' = Tail(listed) /\ stacked' = stacked
    BY <1>5, PopHead DEF Pop
  <2>2. owner # NoOne
    BY <1>a, <2>1
  <2>3. owner' = listed[1]
    <3>1. pc'[listed[1]] = "critical" /\ listed[1] \in Coros
      BY <1>0, <2>1 DEF TypeOK
    <3> QED
      BY <1>0, <3>1 DEF MutualExclusion, Holding, owner
  <2>4. queue # <<>> /\ Head(queue) = listed[1] /\ queue' = Tail(queue)
    BY <1>0, <2>1, QueueFacts DEF queue
  <2> QED
    BY <2>2, <2>3, <2>4 DEF Lock!Next, Lock!HandOver
<1> QED
  BY <1>1, <1>2, <1>3, <1>4, <1>5, Steps

\* The mutex is a lock without barging that serves its waiters in the order
\* in which they queued up.
THEOREM Refinement == Spec => ImplementsFifoLock
<1>1. Init => Lock!Init
  BY DEF Init, Lock!Init, owner, queue, Holding
<1>2. IInv /\ IInv' /\ [Next]_vars => [Lock!Next]_(Lock!vars)
  <2> SUFFICES ASSUME IInv, IInv', [Next]_vars PROVE [Lock!Next]_(Lock!vars)
    OBVIOUS
  <2>1. ASSUME NEW c \in Coros, Progress(c) \/ Migrate(c)
        PROVE  [Lock!Next]_(Lock!vars)
    BY <2>1, StepRefines
  <2>2. CASE UNCHANGED vars
    <3>1. \A d \in Coros : Holding(d)' <=> Holding(d)
      BY <2>2 DEF vars, Holding
    <3>2. queue' = queue
      BY <2>2 DEF vars, hist, queue
    <3> QED
      BY <3>1, <3>2, SameOwner DEF IInv, Lock!vars
  <2> QED
    BY <2>1, <2>2 DEF Next, Terminating
<1> QED
  BY <1>1, <1>2, Invariance, PTL DEF Spec, ImplementsFifoLock, Lock!Spec
=============================================================================
