-------------------------- MODULE IndexStoreProofs --------------------------
(***************************************************************************)
(* What callers of resolve_and_build_index() rely on, for any number of      *)
(* files, changes and crashes.                                               *)
(*                                                                         *)
(* While the registered hash of a file is the present one, what is stored of *)
(* it is the present content (`Kept'), because a file whose hash differs     *)
(* loses its contents when it is registered again.  That alone does not make *)
(* a fresh file current: a build that has read hash and stamp may register   *)
(* the file after it has changed (`Current'), and what it has read belongs   *)
(* together as long as the stamp is the present one (`Matching').  All three *)
(* are about files that were not changed past their hash.                    *)
(***************************************************************************)
EXTENDS IndexStore, TLAPS

Seen == {f \in Registered : f \notin blind}

Stored(f) == data[f] \cup diskData[f] \cup ({parsed[f]} \ {Nothing})

\* Hashes and stamps only grow, and what was read of them is not ahead.
Bounded ==
    \A f \in Files :
      /\ source[f].hash <= source[f].content
      /\ reg[f].hash <= source[f].hash /\ reg[f].stamp <= source[f].stamp
      /\ draft[f].hash <= source[f].hash /\ draft[f].stamp <= source[f].stamp

Kept ==
    \A f \in Seen : reg[f].hash = source[f].hash =>
      \A v \in Stored(f) : v = source[f].content

Current ==
    \A f \in Seen : Fresh(f) => \A v \in Stored(f) : v = source[f].content

Matching ==
    \A f \in Seen :
      HalfRead(f) \/ (draft[f].stamp # Unread /\ draft[f].stamp = source[f].stamp) =>
        draft[f].hash = source[f].hash

Claimed ==
    \A f \in Files : f \notin Registered =>
      data[f] = {} /\ diskData[f] = {} /\ f \notin unparsed /\ parsed[f] = Nothing

\* Outside of the parse phase everything is flushed and nothing under way.
Closed ==
    pc # "parse" => /\ data = diskData /\ dims = diskDims
                    /\ unparsed = {} /\ \A f \in Files : parsed[f] = Nothing

\* A fresh file that was not lost is whole or still to be written.
Whole ==
    \A f \in Seen \ lost :
      Fresh(f) => data[f] = {source[f].content} \/ f \in unparsed \/ parsed[f] # Nothing

Summed ==
    ~behind /\ pc \in {"idle", "discard", "prepare"} /\ Registered # {} =>
      root = [f \in Registered |-> data[f]]

IInv == TypeOK /\ Bounded /\ Kept /\ Current /\ Matching
        /\ Claimed /\ Closed /\ Whole /\ Summed

LEMMA InitInv == Init => IInv
<1> SUFFICES ASSUME Init PROVE IInv
  OBVIOUS
<1>1. TypeOK
  <2>1. /\ source \in [Files -> [content : Nat \ {0}, hash : Nat \ {0}, stamp : Nat \ {0}]]
        /\ reg \in [Files -> Entries] /\ draft \in [Files -> Entries]
        /\ parsed \in [Files -> Nat]
    BY DEF Init, NoEntry, Nothing, Entries
  <2>2. data \in [Files -> SUBSET Nat] /\ diskData \in [Files -> SUBSET Nat]
    BY DEF Init
  <2> QED BY <2>1, <2>2 DEF Init, TypeOK
<1>2. Registered = {}
  BY DEF Init, Registered
<1>3. Bounded
  BY DEF Init, Bounded, NoEntry
<1> QED
  BY <1>1, <1>2, <1>3 DEF Init, IInv, Seen, Kept, Current, Matching, Claimed, Closed,
                    Whole, Summed, Nothing

LEMMA ChangeInv ==
  ASSUME NEW f \in Files, IInv, Change(f)
  PROVE  IInv'
<1> USE DEF IInv, Change, store, Unnoticed
<1>1. TypeOK'
  BY DEF TypeOK, Entries
<1>2. Bounded'
  BY DEF TypeOK, Entries, Bounded
<1>3. Kept'
  BY DEF TypeOK, Entries, Bounded, Claimed, Kept, Seen, Stored, Registered
<1>4. Current'
  BY DEF TypeOK, Entries, Bounded, Current, Seen, Stored, Registered, Fresh
<1>5. Matching'
  BY DEF TypeOK, Entries, Bounded, Matching, Seen, Registered, HalfRead
<1>6. Claimed'
  BY DEF Claimed, Registered
<1>7. Closed'
  BY DEF Closed
<1>8. Whole'
  BY DEF TypeOK, Entries, Bounded, Whole, Seen, Registered, Fresh
<1>9. Summed'
  BY DEF Summed, Registered
<1> QED BY <1>1, <1>2, <1>3, <1>4, <1>5, <1>6, <1>7, <1>8, <1>9

LEMMA ResolveInv ==
  ASSUME NEW force \in BOOLEAN, NEW bloom \in BOOLEAN, IInv, Resolve(force, bloom)
  PROVE  IInv'
<1> USE DEF IInv, Resolve, store, Work
<1>1. TypeOK'
  BY DEF TypeOK, Entries
<1>2. Bounded'
  BY DEF Bounded
<1>3. Kept'
  BY DEF Kept, Seen, Stored, Registered
<1>4. Current'
  BY DEF Current, Seen, Stored, Registered, Fresh
<1>5. Matching'
  BY DEF Matching, Seen, Registered, HalfRead
<1>6. Claimed'
  BY DEF Claimed, Registered
<1>7. Closed'
  BY DEF Closed
<1>8. Whole'
  BY DEF Whole, Seen, Registered, Fresh
<1>9. Summed'
  BY DEF Summed, Registered
<1> QED BY <1>1, <1>2, <1>3, <1>4, <1>5, <1>6, <1>7, <1>8, <1>9

LEMMA DiscardInv ==
  ASSUME IInv, Discard
  PROVE  IInv'
<1> USE DEF IInv, Discard, store, Emptied, NoEntry, Nothing
<1>1. TypeOK'
  BY DEF TypeOK, Entries
<1>2. Bounded'
  BY DEF TypeOK, Entries, Bounded
<1>3. Kept'
  BY DEF Seen, Registered, Kept
<1>4. Current'
  BY DEF Current, Seen, Registered
<1>5. Matching'
  BY DEF Matching, Seen, Registered
<1>6. Claimed'
  BY DEF Claimed, Closed
<1>7. Closed'
  BY DEF Closed
<1>8. Whole'
  BY DEF Whole, Seen, Registered
<1>9. Summed'
  BY DEF Summed, Registered
<1> QED BY <1>1, <1>2, <1>3, <1>4, <1>5, <1>6, <1>7, <1>8, <1>9

LEMMA DiscardFailsInv ==
  ASSUME IInv, DiscardFails
  PROVE  IInv'
<1> USE DEF IInv, DiscardFails
<1>1. CASE Emptied
  <2> USE <1>1 DEF Emptied, NoEntry, Nothing
  <2>1. TypeOK'
    BY DEF TypeOK, Entries
  <2>2. Bounded'
    BY DEF TypeOK, Entries, Bounded
  <2>3. Kept'
    BY DEF Seen, Registered, Kept
  <2>4. Current'
    BY DEF Current, Seen, Registered
  <2>5. Matching'
    BY DEF Matching, Seen, Registered
  <2>6. Claimed'
    BY DEF Claimed, Closed
  <2>7. Closed'
    BY DEF Closed
  <2>8. Whole'
    BY DEF Whole, Seen, Registered
  <2>9. Summed'
    BY DEF Summed, Registered
  <2> QED BY <2>1, <2>2, <2>3, <2>4, <2>5, <2>6, <2>7, <2>8, <2>9
<1>2. CASE UNCHANGED <<store, lost, behind, blind>>
  <2> USE <1>2 DEF store
  <2>1. TypeOK'
    BY DEF TypeOK, Entries
  <2>2. Bounded'
    BY DEF Bounded
  <2>3. Kept'
    BY DEF Kept, Seen, Stored, Registered
  <2>4. Current'
    BY DEF Current, Seen, Stored, Registered, Fresh
  <2>5. Matching'
    BY DEF Matching, Seen, Registered, HalfRead
  <2>6. Claimed'
    BY DEF Claimed, Registered
  <2>7. Closed'
    BY DEF Closed
  <2>8. Whole'
    BY DEF Whole, Seen, Registered, Fresh
  <2>9. Summed'
    BY DEF Summed, Registered
  <2> QED BY <2>1, <2>2, <2>3, <2>4, <2>5, <2>6, <2>7, <2>8, <2>9
<1> QED BY <1>1, <1>2

LEMMA ReadHashInv ==
  ASSUME NEW f \in Files, IInv, ReadHash(f)
  PROVE  IInv'
<1> USE DEF IInv, ReadHash, store
<1>1. TypeOK'
  BY DEF TypeOK, Entries
<1>2. Bounded'
  BY DEF TypeOK, Entries, Bounded
<1>3. Kept'
  BY DEF Kept, Seen, Stored, Registered
<1>4. Current'
  BY DEF Current, Seen, Stored, Registered, Fresh
<1>5. Matching'
  BY DEF TypeOK, Entries, Matching, Seen, Registered, HalfRead, NoEntry, Unread
<1>6. Claimed'
  BY DEF Claimed, Registered
<1>7. Closed'
  BY DEF Closed
<1>8. Whole'
  BY DEF Whole, Seen, Registered, Fresh
<1>9. Summed'
  BY DEF Summed, Registered
<1> QED BY <1>1, <1>2, <1>3, <1>4, <1>5, <1>6, <1>7, <1>8, <1>9

LEMMA ReadStampInv ==
  ASSUME NEW f \in Files, IInv, ReadStamp(f)
  PROVE  IInv'
<1> USE DEF IInv, ReadStamp, store
<1>1. TypeOK'
  BY DEF TypeOK, Entries
<1>2. Bounded'
  BY DEF TypeOK, Entries, Bounded
<1>3. Kept'
  BY DEF Kept, Seen, Stored, Registered
<1>4. Current'
  BY DEF Current, Seen, Stored, Registered, Fresh
<1>5. Matching'
  BY DEF TypeOK, Entries, Matching, Seen, Registered, HalfRead, Unread
<1>6. Claimed'
  BY DEF Claimed, Registered
<1>7. Closed'
  BY DEF Closed
<1>8. Whole'
  BY DEF Whole, Seen, Registered, Fresh
<1>9. Summed'
  BY DEF Summed, Registered
<1> QED BY <1>1, <1>2, <1>3, <1>4, <1>5, <1>6, <1>7, <1>8, <1>9

LEMMA PrepareInv ==
  ASSUME IInv, Prepare
  PROVE  IInv'
<1> USE DEF IInv, Prepare, store, Outdated, delete_file_contents, NoEntry, Nothing, Unread
<1>1. TypeOK'
  BY DEF TypeOK, Entries
<1>2. Bounded'
  BY DEF TypeOK, Entries, Bounded
<1>3. Kept'
  BY DEF TypeOK, Entries, Kept, Claimed, Closed, Seen, Stored, Registered
<1>4. Current'
  BY DEF TypeOK, Entries, Kept, Current, Matching, Claimed, Closed, Seen, Stored, Registered, Fresh
<1>5. Matching'
  BY DEF Matching, HalfRead, Seen, Registered
<1>6. Claimed'
  BY DEF TypeOK, Entries, Claimed, Registered
<1>7. Closed'
  BY DEF Closed
<1>8. Whole'
  BY DEF Whole, Closed, Seen, Registered, Fresh
<1>9. Summed'
  BY DEF Summed
<1> QED BY <1>1, <1>2, <1>3, <1>4, <1>5, <1>6, <1>7, <1>8, <1>9

LEMMA ParseInv ==
  ASSUME NEW f \in Files, IInv, Parse(f)
  PROVE  IInv'
<1> USE DEF IInv, Parse, store, Nothing
<1>1. TypeOK'
  BY DEF TypeOK, Entries
<1>2. Bounded'
  BY DEF Bounded
<1>3. Kept'
  BY DEF TypeOK, Kept, Seen, Stored, Registered
<1>4. Current'
  BY DEF TypeOK, Current, Seen, Stored, Registered, Fresh
<1>5. Matching'
  BY DEF Matching, Seen, Registered, HalfRead
<1>6. Claimed'
  BY DEF Claimed, Registered
<1>7. Closed'
  BY DEF Closed
<1>8. Whole'
  BY DEF TypeOK, Whole, Seen, Registered, Fresh
<1>9. Summed'
  BY DEF Summed, Registered
<1> QED BY <1>1, <1>2, <1>3, <1>4, <1>5, <1>6, <1>7, <1>8, <1>9

LEMMA ParseFailsInv ==
  ASSUME NEW f \in Files, IInv, ParseFails(f)
  PROVE  IInv'
<1> USE DEF IInv, ParseFails, store
<1>1. TypeOK'
  BY DEF TypeOK, Entries
<1>2. Bounded'
  BY DEF Bounded
<1>3. Kept'
  BY DEF Kept, Seen, Stored, Registered
<1>4. Current'
  BY DEF Current, Seen, Stored, Registered, Fresh
<1>5. Matching'
  BY DEF Matching, Seen, Registered, HalfRead
<1>6. Claimed'
  BY DEF Claimed, Registered
<1>7. Closed'
  BY DEF Closed
<1>8. Whole'
  BY DEF Whole, Seen, Registered, Fresh
<1>9. Summed'
  BY DEF Summed, Registered
<1> QED BY <1>1, <1>2, <1>3, <1>4, <1>5, <1>6, <1>7, <1>8, <1>9

LEMMA CommitInv ==
  ASSUME NEW f \in Files, IInv, Commit(f)
  PROVE  IInv'
<1> USE DEF IInv, Commit, store, Nothing
<1>1. TypeOK'
  BY DEF TypeOK, Entries
<1>2. Bounded'
  BY DEF Bounded
<1>3. Kept'
  BY DEF TypeOK, Kept, Seen, Stored, Registered
<1>4. Current'
  BY DEF TypeOK, Current, Seen, Stored, Registered, Fresh
<1>5. Matching'
  BY DEF Matching, Seen, Registered, HalfRead
<1>6. Claimed'
  BY DEF Claimed, Registered
<1>7. Closed'
  BY DEF Closed
<1>8. Whole'
  <2> SUFFICES ASSUME NEW g \in (Seen \ lost)', Fresh(g)'
               PROVE  \/ data'[g] = {source[g].content}
                      \/ g \in unparsed \/ parsed'[g] # Nothing
    BY DEF Whole
  <2>1. g \in Seen /\ Fresh(g)
    BY DEF Seen, Registered, Fresh
  <2>2. CASE g = f
    <3>1. data'[f] = data[f] \cup {parsed[f]}
      BY DEF TypeOK
    <3>2. parsed[f] = source[f].content
      BY <2>1, <2>2 DEF Current, Stored
    <3>3. \A v \in data[f] : v = source[f].content
      BY <2>1, <2>2 DEF Current, Stored
    <3> QED BY <2>2, <3>1, <3>2, <3>3
  <2>3. CASE g # f
    BY <2>1, <2>3 DEF TypeOK, Whole, Seen
  <2> QED BY <2>2, <2>3
<1>9. Summed'
  BY DEF Summed, Registered
<1> QED BY <1>1, <1>2, <1>3, <1>4, <1>5, <1>6, <1>7, <1>8, <1>9

LEMMA WriteFailsInv ==
  ASSUME NEW f \in Files, IInv, WriteFails(f)
  PROVE  IInv'
<1> USE DEF IInv, WriteFails, store, Nothing
<1>1. TypeOK'
  <2>1. data' \in [Files -> SUBSET Nat]
    BY DEF TypeOK
  <2>2. dims' \subseteq Files /\ parsed' \in [Files -> Nat] /\ lost' \subseteq Files
    BY DEF TypeOK
  <2> QED BY <2>1, <2>2 DEF TypeOK
<1>2. Bounded'
  BY DEF Bounded
<1>3. Kept'
  BY DEF TypeOK, Kept, Seen, Stored, Registered
<1>4. Current'
  BY DEF TypeOK, Current, Seen, Stored, Registered, Fresh
<1>5. Matching'
  BY DEF Matching, Seen, Registered, HalfRead
<1>6. Claimed'
  BY DEF TypeOK, Claimed, Registered
<1>7. Closed'
  BY DEF Closed
<1>8. Whole'
  BY DEF TypeOK, Whole, Seen, Registered, Fresh
<1>9. Summed'
  BY DEF Summed, Registered
<1> QED BY <1>1, <1>2, <1>3, <1>4, <1>5, <1>6, <1>7, <1>8, <1>9

LEMMA FlushDataInv ==
  ASSUME IInv, FlushData
  PROVE  IInv'
<1> USE DEF IInv, FlushData, store
<1>1. TypeOK'
  BY DEF TypeOK, Entries
<1>2. Bounded'
  BY DEF Bounded
<1>3. Kept'
  BY DEF Kept, Seen, Stored, Registered
<1>4. Current'
  BY DEF Current, Seen, Stored, Registered, Fresh
<1>5. Matching'
  BY DEF Matching, Seen, Registered, HalfRead
<1>6. Claimed'
  BY DEF Claimed, Registered
<1>7. Closed'
  BY DEF Closed
<1>8. Whole'
  BY DEF Whole, Seen, Registered, Fresh
<1>9. Summed'
  BY DEF Summed, Registered
<1> QED BY <1>1, <1>2, <1>3, <1>4, <1>5, <1>6, <1>7, <1>8, <1>9

LEMMA FlushDimsInv ==
  ASSUME IInv, FlushDims
  PROVE  IInv'
<1> USE DEF IInv, FlushDims, store
<1>1. TypeOK'
  BY DEF TypeOK, Entries
<1>2. Bounded'
  BY DEF Bounded
<1>3. Kept'
  BY DEF Kept, Seen, Stored, Registered
<1>4. Current'
  BY DEF Current, Seen, Stored, Registered, Fresh
<1>5. Matching'
  BY DEF Matching, Seen, Registered, HalfRead
<1>6. Claimed'
  BY DEF Claimed, Registered
<1>7. Closed'
  BY DEF Closed
<1>8. Whole'
  BY DEF Whole, Seen, Registered, Fresh
<1>9. Summed'
  BY DEF Summed, Registered
<1> QED BY <1>1, <1>2, <1>3, <1>4, <1>5, <1>6, <1>7, <1>8, <1>9

LEMMA FinishInv ==
  ASSUME IInv, Finish
  PROVE  IInv'
<1> USE DEF IInv, Finish, store
<1>1. TypeOK'
  BY DEF TypeOK, Entries
<1>2. Bounded'
  BY DEF Bounded
<1>3. Kept'
  BY DEF Kept, Seen, Stored, Registered
<1>4. Current'
  BY DEF Current, Seen, Stored, Registered, Fresh
<1>5. Matching'
  BY DEF Matching, Seen, Registered, HalfRead
<1>6. Claimed'
  BY DEF Claimed, Registered
<1>7. Closed'
  BY DEF Closed
<1>8. Whole'
  BY DEF Whole, Seen, Registered, Fresh
<1>9. Summed'
  BY DEF Summed, Registered
<1> QED BY <1>1, <1>2, <1>3, <1>4, <1>5, <1>6, <1>7, <1>8, <1>9

LEMMA SummariseInv ==
  ASSUME IInv, Summarise
  PROVE  IInv'
<1> USE DEF IInv, Summarise, store
<1>1. TypeOK'
  BY DEF TypeOK, Entries
<1>2. Bounded'
  BY DEF Bounded
<1>3. Kept'
  BY DEF Kept, Seen, Stored, Registered
<1>4. Current'
  BY DEF Current, Seen, Stored, Registered, Fresh
<1>5. Matching'
  BY DEF Matching, Seen, Registered, HalfRead
<1>6. Claimed'
  BY DEF Claimed, Registered
<1>7. Closed'
  BY DEF Closed
<1>8. Whole'
  BY DEF Whole, Seen, Registered, Fresh
<1>9. Summed'
  BY DEF Summed, Registered
<1> QED BY <1>1, <1>2, <1>3, <1>4, <1>5, <1>6, <1>7, <1>8, <1>9

LEMMA CrashInv ==
  ASSUME IInv, Crash
  PROVE  IInv'
<1> USE DEF IInv, Crash, store, Nothing, NoEntry, Unread
<1>1. TypeOK'
  BY DEF TypeOK, Entries
<1>2. Bounded'
  BY DEF TypeOK, Entries, Bounded
<1>3. Kept'
  BY DEF TypeOK, Kept, Seen, Stored, Registered
<1>4. Current'
  BY DEF TypeOK, Current, Seen, Stored, Registered, Fresh
<1>5. Matching'
  BY DEF Matching, HalfRead, Seen, Registered
<1>6. Claimed'
  BY DEF Claimed, Registered
<1>7. Closed'
  BY DEF Closed
<1>8. Whole'
  BY DEF Whole, Seen, Registered, Fresh
<1>9. Summed'
  BY DEF TypeOK, Summed, Closed, Registered
<1> QED BY <1>1, <1>2, <1>3, <1>4, <1>5, <1>6, <1>7, <1>8, <1>9

LEMMA StepInv == IInv /\ [Next]_vars => IInv'
<1> SUFFICES ASSUME IInv, [Next]_vars PROVE IInv'
  OBVIOUS
<1>1. CASE UNCHANGED vars
  BY <1>1 DEF vars, IInv, TypeOK, Bounded, Kept, Current, Matching, Claimed, Closed,
              Whole, Summed, Seen, Stored, HalfRead, Registered, Fresh
<1>2. CASE Next
  BY <1>2, ChangeInv, ResolveInv, DiscardInv, DiscardFailsInv, ReadHashInv,
     ReadStampInv, PrepareInv, ParseInv, ParseFailsInv, CommitInv, WriteFailsInv,
     FlushDataInv, FlushDimsInv, FinishInv, SummariseInv, CrashInv DEF Next
<1> QED BY <1>1, <1>2

LEMMA Inductive == Spec => []IInv
BY InitInv, StepInv, PTL DEF Spec

\* The variables keep their types in every step of calls, changes and crashes.
THEOREM TypeCorrect == Spec => []TypeOK
<1>1. IInv => TypeOK
  BY DEF IInv
<1> QED BY <1>1, Inductive, PTL

\* What resolves as fresh is described by the data of its present content only,
\* with changes, failed writes and removals, and crashes at any moment: only for
\* a registered file that changes past the samples of its hash, or between the
\* reading of its hash and of its stamp, does resolve_and_build_index() serve a
\* changed source.
THEOREM NeverStale == Spec => []FreshIsCurrent
<1>1. IInv => FreshIsCurrent
  BY DEF IInv, Current, Stored, Seen, FreshIsCurrent
<1> QED BY <1>1, Inductive, PTL

\* Only a failed parse, a failed write or a crash leaves a registered file
\* without its data, changes past the hash excepted.
THEOREM NothingForgotten == Spec => []FreshIsWhole
<1>1. IInv => FreshIsWhole
  BY DEF IInv, Closed, Whole, Seen, FreshIsWhole, Registered
<1> QED BY <1>1, Inductive, PTL

\* The root statistics are the sum of the registered files' data, unless a
\* build died between prepare_file_identities() and rebuild_root_summaries().
THEOREM SumsAreRight == Spec => []RootIsSum
<1>1. IInv => RootIsSum
  BY DEF IInv, Summed, RootIsSum
<1> QED BY <1>1, Inductive, PTL
============================================================================
