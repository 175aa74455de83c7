-------------------------- MODULE ViewStoreProofs --------------------------
(***************************************************************************)
(* For any number of builders and readers and any trace: two builders never*)
(* write in one directory, whatever happens; and, as long as nobody appends*)
(* during a build, a view that readers trust is whole, and they answer as  *)
(* the trace would.                                                        *)
(*                                                                         *)
(* The lock alone does not exclude builders: a reader removes a stale      *)
(* directory under its builder, lock file and all, and whoever created it  *)
(* again would get a new lock.  Nobody does: a directory bears the version *)
(* it was chosen at, its manifest one at least as late, and what is stale  *)
(* was written for an earlier version than the present one.                *)
(***************************************************************************)
EXTENDS ViewStore, FiniteSetTheorems, TLAPS

\* The labels at which a builder owns, or owned, the lock of its directory.
Inside == {"recheck", "gather", "build", "register", "write", "unlock"}

Types ==
  /\ base \in Versions
  /\ dirs \subseteq Dirs
  /\ bpc \in [Builders -> Inside \union {"fresh", "mkdir", "lock", "done"}]
  /\ dir \in [Builders -> Dirs \union {NoDir}]
  /\ manifest \in [Dirs -> Int]
  /\ holder \in [Dirs -> Builders \union {NoOne}]

\* A manifest is no older than its directory, and not from the future.
ManifestsInTime ==
  \A d \in Dirs : manifest[d] \in {NoManifest, Torn} \union (d[2]..base)

\* A builder's directory is one it chose at this version or an earlier one.
ChosenInTime ==
  \A b \in Builders :
    bpc[b] \in Inside \union {"lock"} => dir[b] \in Dirs /\ dir[b][2] <= base

\* Either it holds the lock, or its directory is gone for good.
HoldsOrGone ==
  \A b \in Builders : bpc[b] \in Inside =>
    /\ dir[b] \in dirs => holder[dir[b]] = b
    /\ dir[b] \notin dirs => dir[b][2] < base

IInv == Types /\ ManifestsInTime /\ ChosenInTime /\ HoldsOrGone

LEMMA VersionsAreInts == Versions \subseteq Int /\ \A v \in Versions : v > 0
BY ChunksAssumption DEF Versions

LEMMA DirsAreDated == \A d \in Dirs : d[2] \in Versions
BY DEF Dirs

LEMMA InitInv == Init => IInv
<1> SUFFICES ASSUME Init PROVE IInv
  OBVIOUS
<1>1. Types
  BY ChunksAssumption DEF Init, Types, Versions, NoManifest
<1>2. ManifestsInTime
  BY DEF Init, ManifestsInTime
<1>3. ChosenInTime /\ HoldsOrGone
  BY DEF Init, ChosenInTime, HoldsOrGone, Inside
<1> QED BY <1>1, <1>2, <1>3 DEF IInv

\* The variables the invariant speaks of.
shared == <<base, dirs, bpc, dir, manifest, holder>>

LEMMA StutterInv == IInv /\ UNCHANGED shared => IInv'
BY DEF IInv, Types, ManifestsInTime, ChosenInTime, HoldsOrGone, shared

\* Steps of a builder that change its label alone and keep it outside, or
\* inside.
LEMMA MoveInv ==
  ASSUME NEW b \in Builders, IInv,
         UNCHANGED <<base, dirs, dir, manifest, holder>>,
         NEW l \in Inside \union {"mkdir", "done"},
         bpc' = [bpc EXCEPT ![b] = l],
         l \in Inside => bpc[b] \in Inside
  PROVE  IInv'
<1>1. Types'
  BY DEF IInv, Types
<1>2. ManifestsInTime'
  BY DEF IInv, ManifestsInTime
<1>3. \A c \in Builders : bpc'[c] \in Inside \union {"lock"} => bpc[c] \in Inside \union {"lock"}
  BY DEF IInv, Types, Inside
<1>4. \A c \in Builders : bpc'[c] \in Inside => bpc[c] \in Inside
  BY DEF IInv, Types, Inside
<1>5. ChosenInTime'
  BY <1>3 DEF IInv, ChosenInTime
<1>6. HoldsOrGone'
  BY <1>4 DEF IInv, HoldsOrGone
<1> QED BY <1>1, <1>2, <1>5, <1>6 DEF IInv

\* The directory chosen has the version the trace has now: it is not one that
\* was removed under a builder.
LEMMA MkdirInv ==
  ASSUME NEW b \in Builders, IInv, materialize_view_dir(b)
  PROVE  IInv'
<1> DEFINE d == <<Plan[b], base>>
<1>1. d \in Dirs /\ d[2] = base
  BY DEF IInv, Types, Dirs, Plans
<1>2. Types'
  BY <1>1 DEF IInv, Types, materialize_view_dir, GoB, Inside
<1>3. ManifestsInTime'
  BY DEF IInv, ManifestsInTime, materialize_view_dir
<1>4. ChosenInTime'
  <2> SUFFICES ASSUME NEW c \in Builders, bpc'[c] \in Inside \union {"lock"}
               PROVE  dir'[c] \in Dirs /\ dir'[c][2] <= base
    BY DEF ChosenInTime, materialize_view_dir
  <2>1. CASE c = b
    BY <2>1, <1>1, VersionsAreInts DEF IInv, Types, materialize_view_dir
  <2>2. CASE c # b
    BY <2>2 DEF IInv, Types, ChosenInTime, materialize_view_dir, GoB
  <2> QED BY <2>1, <2>2
<1>5. HoldsOrGone'
  <2> SUFFICES ASSUME NEW c \in Builders, bpc'[c] \in Inside
               PROVE  /\ dir'[c] \in dirs' => holder'[dir'[c]] = c
                      /\ dir'[c] \notin dirs' => dir'[c][2] < base'
    BY DEF HoldsOrGone
  <2>1. c # b /\ bpc[c] \in Inside /\ dir'[c] = dir[c]
    BY DEF IInv, Types, materialize_view_dir, GoB, Inside
  <2>2. /\ dir[c] \in dirs => holder[dir[c]] = c
        /\ dir[c] \notin dirs => dir[c][2] < base
    BY <2>1 DEF IInv, HoldsOrGone
  <2>3. dir[c] \notin dirs => dir[c] # d
    BY <2>2, <1>1, VersionsAreInts DEF IInv, Types
  <2> QED BY <2>1, <2>2, <2>3 DEF materialize_view_dir
<1> QED BY <1>2, <1>3, <1>4, <1>5 DEF IInv

LEMMA LockInv ==
  ASSUME NEW b \in Builders, IInv, lock_view_dir(b)
  PROVE  IInv'
<1>1. Types'
  BY DEF IInv, Types, lock_view_dir, GoB, Inside
<1>2. ManifestsInTime'
  BY DEF IInv, ManifestsInTime, lock_view_dir
<1>3. ChosenInTime'
  BY DEF IInv, Types, ChosenInTime, lock_view_dir, GoB, Inside
<1>4. HoldsOrGone'
  <2> SUFFICES ASSUME NEW c \in Builders, bpc'[c] \in Inside
               PROVE  /\ dir[c] \in dirs => holder'[dir[c]] = c
                      /\ dir[c] \notin dirs => dir[c][2] < base
    BY DEF HoldsOrGone, lock_view_dir
  <2>1. CASE c = b
    BY <2>1 DEF IInv, Types, lock_view_dir
  <2>2. CASE c # b
    <3>1. bpc[c] \in Inside
      BY <2>2 DEF IInv, Types, lock_view_dir, GoB
    <3>2. /\ dir[c] \in dirs => holder[dir[c]] = c
          /\ dir[c] \notin dirs => dir[c][2] < base
      BY <3>1 DEF IInv, HoldsOrGone
    <3>3. dir[c] \in dirs => dir[c] # dir[b]
      BY <3>2, ChunksAssumption DEF lock_view_dir
    <3> QED BY <3>2, <3>3 DEF IInv, Types, lock_view_dir
  <2> QED BY <2>1, <2>2
<1> QED BY <1>1, <1>2, <1>3, <1>4 DEF IInv

\* A builder that leaves gives up its own lock only.
LEMMA LeaveInv ==
  ASSUME NEW b \in Builders, IInv,
         UNCHANGED <<base, dirs, manifest>>,
         NEW l \in {"fresh", "done"},
         bpc' = [bpc EXCEPT ![b] = l],
         dir' = [dir EXCEPT ![b] = NoDir],
         holder' = holder \/ holder' = Unlocked(b)
  PROVE  IInv'
<1>1. Types'
  BY DEF IInv, Types, Unlocked
<1>2. ManifestsInTime'
  BY DEF IInv, ManifestsInTime
<1>3. \A c \in Builders : bpc'[c] \in Inside \union {"lock"} =>
        c # b /\ bpc'[c] = bpc[c] /\ dir'[c] = dir[c]
  BY DEF IInv, Types, Inside
<1>4. ChosenInTime'
  BY <1>3 DEF IInv, ChosenInTime
<1>5. HoldsOrGone'
  <2> SUFFICES ASSUME NEW c \in Builders, bpc'[c] \in Inside
               PROVE  /\ dir'[c] \in dirs => holder'[dir'[c]] = c
                      /\ dir'[c] \notin dirs => dir'[c][2] < base
    BY DEF HoldsOrGone
  <2>1. c # b /\ bpc[c] \in Inside /\ dir'[c] = dir[c]
    BY <1>3
  <2>2. /\ dir[c] \in dirs => holder[dir[c]] = c
        /\ dir[c] \notin dirs => dir[c][2] < base
    BY <2>1 DEF IInv, HoldsOrGone
  <2>3. \A e \in Dirs : holder[e] = c => holder'[e] = c
    BY <2>1 DEF Unlocked
  <2> QED BY <2>1, <2>2, <2>3 DEF IInv, Types
<1> QED BY <1>1, <1>2, <1>4, <1>5 DEF IInv

\* A manifest is written with the version of the moment.
LEMMA ManifestInv ==
  ASSUME NEW b \in Builders, IInv,
         UNCHANGED <<base, dirs, dir, holder>>,
         bpc[b] \in Inside,
         NEW l \in Inside, bpc' = [bpc EXCEPT ![b] = l],
         NEW m \in {Torn, base},
         \/ manifest' = manifest
         \/ manifest' = [manifest EXCEPT ![dir[b]] = m]
  PROVE  IInv'
<1>1. Types'
  BY VersionsAreInts DEF IInv, Types, Torn
<1>2. ManifestsInTime'
  <2> SUFFICES ASSUME NEW d \in Dirs
               PROVE  manifest'[d] \in {NoManifest, Torn} \union (d[2]..base)
    BY DEF ManifestsInTime
  <2>1. manifest'[d] = manifest[d] \/ (d = dir[b] /\ manifest'[d] = m)
    BY DEF IInv, Types
  <2>2. CASE manifest'[d] = manifest[d]
    BY <2>2 DEF IInv, ManifestsInTime
  <2>3. CASE d = dir[b] /\ manifest'[d] = m
    <3>1. d[2] <= base /\ d[2] \in Int /\ base \in Int
      BY <2>3, DirsAreDated, VersionsAreInts DEF IInv, Types, ChosenInTime
    <3> QED BY <3>1, <2>3
  <2> QED BY <2>1, <2>2, <2>3
<1>3. \A c \in Builders : bpc'[c] \in Inside \union {"lock"} => bpc[c] \in Inside \union {"lock"}
  BY DEF IInv, Types, Inside
<1>4. \A c \in Builders : bpc'[c] \in Inside => bpc[c] \in Inside
  BY DEF IInv, Types, Inside
<1>5. ChosenInTime' /\ HoldsOrGone'
  BY <1>3, <1>4 DEF IInv, ChosenInTime, HoldsOrGone
<1> QED BY <1>1, <1>2, <1>5 DEF IInv

LEMMA AppendInv == IInv /\ AppendChunk => IInv'
<1> SUFFICES ASSUME IInv, AppendChunk PROVE IInv'
  OBVIOUS
<1> USE VersionsAreInts, DirsAreDated
<1>1. base' = base + 1 /\ base' \in Versions /\ base \in Int
  BY ChunksAssumption DEF AppendChunk, IInv, Types, Versions
<1>2. Types'
  BY <1>1 DEF IInv, Types, AppendChunk, store, builder
<1>3. ManifestsInTime'
  <2> SUFFICES ASSUME NEW d \in Dirs
               PROVE  manifest[d] \in {NoManifest, Torn} \union (d[2]..base')
    BY DEF ManifestsInTime, AppendChunk, store
  <2> QED BY <1>1 DEF IInv, ManifestsInTime
<1>4. ChosenInTime'
  <2> SUFFICES ASSUME NEW b \in Builders, bpc[b] \in Inside \union {"lock"}
               PROVE  dir[b] \in Dirs /\ dir[b][2] <= base'
    BY DEF ChosenInTime, AppendChunk, builder
  <2>1. dir[b] \in Dirs /\ dir[b][2] <= base /\ dir[b][2] \in Int
    BY DEF IInv, ChosenInTime
  <2> QED BY <2>1, <1>1
<1>5. HoldsOrGone'
  <2> SUFFICES ASSUME NEW b \in Builders, bpc[b] \in Inside
               PROVE  /\ dir[b] \in dirs => holder[dir[b]] = b
                      /\ dir[b] \notin dirs => dir[b][2] < base'
    BY DEF HoldsOrGone, AppendChunk, builder, store
  <2>1. dir[b] \in Dirs /\ dir[b][2] \in Int
    BY DEF IInv, ChosenInTime
  <2> QED BY <2>1, <1>1 DEF IInv, HoldsOrGone
<1> QED BY <1>2, <1>3, <1>4, <1>5 DEF IInv

\* What a reader removes is of an earlier version: its manifest is.
LEMMA VisitInv ==
  ASSUME NEW r \in Readers, NEW d, IInv, Visit(r, d)
  PROVE  IInv'
<1> DEFINE stale == d \in dirs /\ manifest[d] \in Versions /\ manifest_is_stale(d)
<1> USE VersionsAreInts, DirsAreDated
<1>1. UNCHANGED <<base, bpc, dir>>
  BY DEF Visit, builder
<1>2. CASE ~stale
  <2>1. UNCHANGED shared
    BY <1>1, <1>2 DEF Visit, shared
  <2> QED BY <2>1, StutterInv
<1>3. CASE stale
  <2>1. /\ dirs' = dirs \ {d}
        /\ manifest' = [manifest EXCEPT ![d] = NoManifest]
        /\ holder' = [holder EXCEPT ![d] = NoOne]
    BY <1>3 DEF Visit
  <2>2. d \in Dirs /\ manifest[d] \in d[2]..base /\ manifest[d] # base
    BY <1>3 DEF IInv, Types, ManifestsInTime, manifest_is_stale, NoManifest, Torn
  <2>3. d[2] < base
    <3>1. d[2] \in Int /\ base \in Int
      BY <2>2 DEF IInv, Types
    <3> QED BY <2>2, <3>1
  <2>4. Types'
    <3>1. dirs' \subseteq Dirs
      BY <2>1 DEF IInv, Types
    <3>2. manifest' \in [Dirs -> Int]
      <4>1. NoManifest \in Int /\ manifest \in [Dirs -> Int]
        BY DEF IInv, Types, NoManifest
      <4> HIDE VersionsAreInts, DirsAreDated
      <4> QED BY <4>1, <2>1
    <3>3. holder' \in [Dirs -> Builders \union {NoOne}]
      BY <2>1 DEF IInv, Types
    <3> QED BY <1>1, <3>1, <3>2, <3>3 DEF IInv, Types
  <2>5. ManifestsInTime'
    BY <1>1, <2>1 DEF IInv, Types, ManifestsInTime
  <2>6. ChosenInTime'
    BY <1>1 DEF IInv, ChosenInTime
  <2>7. HoldsOrGone'
    <3> SUFFICES ASSUME NEW b \in Builders, bpc[b] \in Inside
                 PROVE  /\ dir[b] \in dirs' => holder'[dir[b]] = b
                        /\ dir[b] \notin dirs' => dir[b][2] < base
      BY <1>1 DEF HoldsOrGone
    <3>1. /\ dir[b] \in dirs => holder[dir[b]] = b
          /\ dir[b] \notin dirs => dir[b][2] < base
      BY DEF IInv, HoldsOrGone
    <3>2. CASE dir[b] = d
      BY <3>2, <2>1, <2>3
    <3>3. CASE dir[b] # d
      BY <3>3, <3>1, <2>1 DEF IInv, Types
    <3> QED BY <3>2, <3>3
  <2> QED BY <2>4, <2>5, <2>6, <2>7 DEF IInv
<1> QED BY <1>2, <1>3

LEMMA BuilderInv ==
  ASSUME NEW b \in Builders, IInv, BuilderStep(b)
  PROVE  IInv'
<1> USE DEF GoB, store, builder, reader
<1>1. CASE AlreadyBuilt(b)
  BY <1>1, MoveInv DEF AlreadyBuilt, Inside
<1>2. CASE NotFresh(b)
  BY <1>2, MoveInv DEF NotFresh, Inside
<1>3. CASE materialize_view_dir(b)
  BY <1>3, MkdirInv
<1>4. CASE lock_view_dir(b)
  BY <1>4, LockInv
<1>5. CASE LockFails(b)
  BY <1>5, LeaveInv DEF LockFails
<1>6. CASE Recheck(b)
  <2>1. bpc[b] \in Inside /\ \E l \in Inside : bpc' = [bpc EXCEPT ![b] = l]
    BY <1>6 DEF Recheck, Inside
  <2> QED BY <2>1, <1>6, MoveInv DEF Recheck
<1>7. CASE Gather(b)
  BY <1>7, MoveInv DEF Gather, StartBuild, Inside
<1>8. CASE \E u \in todo[b] : Produce(b, u)
  BY <1>8, StutterInv DEF Produce, shared
<1>9. CASE \E u \in chan[b] : Consume(b, u)
  BY <1>9, StutterInv DEF Consume, shared
<1>10. CASE Join(b)
  <2>1. bpc[b] \in Inside /\ \E l \in Inside : bpc' = [bpc EXCEPT ![b] = l]
    BY <1>10 DEF Join, Inside
  <2> QED BY <2>1, <1>10, MoveInv DEF Join
<1>11. CASE register_view(b)
  BY <1>11, ManifestInv DEF register_view, Inside
<1>12. CASE WriteManifest(b)
  BY <1>12, ManifestInv DEF WriteManifest, Inside
<1>13. CASE unlock_view_dir(b)
  BY <1>13, LeaveInv DEF unlock_view_dir
<1> QED
  BY <1>1, <1>2, <1>3, <1>4, <1>5, <1>6, <1>7, <1>8, <1>9, <1>10, <1>11, <1>12, <1>13
  DEF BuilderStep

LEMMA ReaderInv ==
  ASSUME NEW r \in Readers, IInv, ReaderStep(r)
  PROVE  IInv'
<1> USE DEF store, builder
<1>1. CASE PlanBases(r)
  BY <1>1, StutterInv DEF PlanBases, shared
<1>2. CASE \E d \in left[r] : Visit(r, d)
  BY <1>2, VisitInv
<1>3. CASE Size(r)
  BY <1>3, StutterInv DEF Size, shared
<1>4. CASE Scan(r)
  BY <1>4, StutterInv DEF Scan, ScanBut, shared
<1> QED BY <1>1, <1>2, <1>3, <1>4 DEF ReaderStep

LEMMA FaultInv == IInv /\ Fault => IInv'
<1> SUFFICES ASSUME IInv, Fault PROVE IInv'
  OBVIOUS
<1> USE DEF store, builder
<1>1. CASE AppendChunk
  BY <1>1, AppendInv
<1>2. ASSUME NEW b \in Builders, GatherFails(b) PROVE IInv'
  BY <1>2, MoveInv DEF GatherFails, StartBuild, GoB, Inside
<1>3. ASSUME NEW b \in Builders, ScanFails(b) \/ WriteFails(b) PROVE IInv'
  BY <1>3, StutterInv DEF ScanFails, WriteFails, shared
<1>4. ASSUME NEW b \in Builders, NEW us \in SUBSET chan[b], ConsumerThrows(b, us) PROVE IInv'
  BY <1>4, StutterInv DEF ConsumerThrows, shared
<1>5. ASSUME NEW b \in Builders, Crash(b) PROVE IInv'
  BY <1>5, LeaveInv DEF Crash
<1>6. ASSUME NEW r \in Readers, ReadFails(r) PROVE IInv'
  BY <1>6, StutterInv DEF ReadFails, ScanBut, shared
<1> QED BY <1>1, <1>2, <1>3, <1>4, <1>5, <1>6 DEF Fault, BuilderFault

LEMMA NextInv == IInv /\ [Next]_vars => IInv'
<1> SUFFICES ASSUME IInv, [Next]_vars PROVE IInv'
  OBVIOUS
<1>1. CASE Next
  <2>1. CASE Terminating
    BY <2>1, StutterInv DEF Terminating, vars, store, builder, shared
  <2> QED BY <1>1, <2>1, BuilderInv, ReaderInv, FaultInv DEF Next
<1>2. CASE UNCHANGED vars
  BY <1>2, StutterInv DEF vars, store, builder, shared
<1> QED BY <1>1, <1>2

LEMMA InvOneBuilder == IInv => OneBuilder
BY DEF IInv, HoldsOrGone, OneBuilder, Building, Inside

\* Single-flight: two builders never write in one directory, whoever crashes,
\* appends to the trace or removes directories meanwhile.
THEOREM SingleFlight == Spec => []OneBuilder
<1>1. Spec => []IInv
  BY InitInv, NextInv, PTL DEF Spec
<1> QED BY <1>1, InvOneBuilder, PTL

-----------------------------------------------------------------------------
(* RegisteredIsWhole.  With no append during a build the trace stays as it   *)
(* was when the builder chose its directory, which nobody removes then, and  *)
(* the lock makes its parts its own.                                         *)

\* The parts, among the first n of s, that hold chunk u.
Held(s, n, u) == {i \in 1..n : u \in s[i]}

\* The parts of a directory.
Files == Seq(SUBSET Nat)

Wanted(p) == {u \in 1..base : Selected(p, u) # {}}

WTypes ==
  /\ parts \in [Dirs -> Files]
  /\ faults \in Nat
  /\ todo \in [Builders -> SUBSET Nat] /\ chan \in [Builders -> SUBSET Nat]
  /\ part \in [Builders -> Nat]
  /\ consumer \in [Builders -> {"reads", "failed", "threw"}]
  /\ omitted \in [Builders -> SUBSET Nat]
  /\ holes \in [Dirs -> SUBSET Nat]

ChosenNow ==
  \A b \in Builders : bpc[b] \in Inside \union {"lock"} => dir[b] = <<Plan[b], base>>

\* A build starts where there is no manifest, and writes it at its end.
ManifestAtEnd ==
  \A b \in Builders :
    /\ bpc[b] \in {"gather", "build", "register"} => manifest[dir[b]] = NoManifest
    /\ bpc[b] = "write" => manifest[dir[b]] = Torn

ManifestHasParts == \A d \in Dirs : manifest[d] # NoManifest => parts[d] # <<>>

Idle(d) == \A b \in Builders : Building(b) => dir[b] # d

\* Parts without a manifest are those of a build that was cut short.
CutShort ==
  /\ \A d \in Dirs : faults = 0 /\ manifest[d] = NoManifest /\ Idle(d) => parts[d] = <<>>
  /\ \A b \in Builders : faults = 0 => consumer[b] = "reads"

\* During a build: what is neither to be scanned nor on its way to the consumer
\* nor lost is in one of the parts it opened, the last of which is open.
Packed(b) ==
  /\ part[b] \in 1..Len(parts[dir[b]])
  /\ faults = 0 => part[b] = Len(parts[dir[b]])
  /\ todo[b] \intersect chan[b] = {}
  /\ \A u \in Wanted(Plan[b]) \ omitted[b] :
       IF u \in todo[b] \union chan[b]
       THEN Held(parts[dir[b]], part[b], u) = {}
       ELSE \E i \in 1..part[b] : Held(parts[dir[b]], part[b], u) = {i}

Packing == \A b \in Builders : bpc[b] = "build" => Packed(b)

WholeBut(d, lost) ==
  \E n \in 1..Len(parts[d]) :
    /\ \A u \in Wanted(d[1]) \ lost : \E i \in 1..n : Held(parts[d], n, u) = {i}
    /\ faults = 0 => n = Len(parts[d])

Built(b)   == WholeBut(dir[b], omitted[b])
Trusted(d) == WholeBut(d, holes[d])

BuiltIsWhole == \A b \in Builders : bpc[b] \in {"register", "write"} => Built(b)
TrustedIsWhole == \A d \in Dirs : manifest[d] = base /\ Idle(d) => Trusted(d)

WInv ==
  /\ WTypes /\ ManifestAtEnd /\ ManifestHasParts /\ CutShort
  /\ Packing /\ BuiltIsWhole /\ TrustedIsWhole

\* The directory of a builder that is inside is there, and nobody else's.
LEMMA OwnDirectory ==
  ASSUME IInv, ChosenNow, NEW b \in Builders, bpc[b] \in Inside
  PROVE  /\ dir[b] = <<Plan[b], base>> /\ dir[b] \in Dirs /\ dir[b] \in dirs
         /\ \A c \in Builders : bpc[c] \in Inside /\ dir[c] = dir[b] => c = b
<1>1. \A c \in Builders : bpc[c] \in Inside => dir[c] \in dirs /\ holder[dir[c]] = c
  <2> SUFFICES ASSUME NEW c \in Builders, bpc[c] \in Inside
               PROVE  dir[c] \in dirs /\ holder[dir[c]] = c
    OBVIOUS
  <2>1. dir[c][2] = base /\ base \in Int
    BY VersionsAreInts DEF ChosenNow, IInv, Types
  <2>2. ~(base < base)
    BY <2>1
  <2> QED BY <2>1, <2>2 DEF IInv, HoldsOrGone
<1> QED BY <1>1 DEF IInv, Types, ChosenNow

\* Nobody appends while a builder has a directory.
LEMMA ChosenInit == Init => ChosenNow
BY DEF Init, ChosenNow, Inside

LEMMA ChosenNext ==
  ASSUME "append" \notin Faults, IInv, ChosenNow, [Next]_vars
  PROVE  ChosenNow'
<1> USE DEF GoB, store, builder, reader
<1>1. CASE AppendChunk
  <2>1. \A b \in Builders : bpc[b] \notin Inside \union {"lock"}
    BY <1>1, ChunksAssumption DEF AppendChunk, IInv, ChosenInTime, Dirs, Plans, Versions
  <2> QED BY <1>1, <2>1 DEF AppendChunk, ChosenNow
<1>2. ASSUME NEW b \in Builders, BuilderStep(b) \/ BuilderFault(b)
      PROVE  ChosenNow'
  <2>1. base' = base
    BY <1>2 DEF BuilderStep, AlreadyBuilt, NotFresh, materialize_view_dir, lock_view_dir, LockFails,
                Recheck, Gather, StartBuild, Produce, Consume, Join, register_view, WriteManifest,
                unlock_view_dir, BuilderFault, GatherFails, ScanFails, WriteFails, ConsumerThrows, Crash, Fails
  <2>2. \A c \in Builders : c # b => bpc'[c] = bpc[c] /\ dir'[c] = dir[c]
    BY <1>2 DEF BuilderStep, AlreadyBuilt, NotFresh, materialize_view_dir, lock_view_dir, LockFails,
                Recheck, Gather, StartBuild, Produce, Consume, Join, register_view, WriteManifest,
                unlock_view_dir, BuilderFault, GatherFails, ScanFails, WriteFails,
                ConsumerThrows, Crash, Fails, IInv, Types
  <2>3. bpc'[b] \in Inside \union {"lock"} =>
          \/ bpc[b] \in Inside \union {"lock"} /\ dir'[b] = dir[b]
          \/ dir'[b] = <<Plan[b], base>>
    BY <1>2 DEF BuilderStep, AlreadyBuilt, NotFresh, materialize_view_dir, lock_view_dir, LockFails,
                Recheck, Gather, StartBuild, Produce, Consume, Join, register_view, WriteManifest,
                unlock_view_dir, BuilderFault, GatherFails, ScanFails, WriteFails,
                ConsumerThrows, Crash, Fails, IInv, Types, Inside
  <2> QED BY <2>1, <2>2, <2>3 DEF ChosenNow
<1>3. ASSUME UNCHANGED <<base, bpc, dir>> PROVE ChosenNow'
  BY <1>3 DEF ChosenNow
<1>4. ASSUME NEW r \in Readers, ReaderStep(r) \/ ReadFails(r) PROVE UNCHANGED <<base, bpc, dir>>
  BY <1>4 DEF ReaderStep, ReadFails, PlanBases, Visit, Size, Scan, ScanBut
<1>5. CASE UNCHANGED vars
  BY <1>5, <1>3 DEF vars
<1>6. CASE Terminating
  BY <1>6, <1>3 DEF vars, Terminating
<1> QED BY <1>1, <1>2, <1>3, <1>4, <1>5, <1>6 DEF Next, Fault

\* Opening the next part hides what is left of an earlier build in it.
LEMMA OpenedType ==
  ASSUME NEW s \in Files, NEW n \in 0..Len(s), NEW t, t = Opened(s, n + 1)
  PROVE  /\ t \in Files /\ t # <<>> /\ n + 1 \in 1..Len(t)
         /\ Len(s) = n => Len(t) = n + 1
<1>1. CASE n + 1 <= Len(s)
  <2>1. t = [s EXCEPT ![n + 1] = {}]
    BY <1>1 DEF Opened
  <2>2. t \in Files /\ Len(t) = Len(s)
    BY <2>1, <1>1 DEF Files
  <2> QED BY <2>2, <1>1
<1>2. CASE ~(n + 1 <= Len(s))
  <2>1. t = Append(s, {}) /\ n = Len(s)
    BY <1>2 DEF Opened
  <2>2. t \in Files /\ Len(t) = n + 1
    BY <2>1 DEF Files
  <2> QED BY <2>2
<1> QED BY <1>1, <1>2

LEMMA HeldOpened ==
  ASSUME NEW s \in Files, NEW n \in 0..Len(s), NEW u
  PROVE  Held(Opened(s, n + 1), n + 1, u) = Held(s, n, u)
<1> PICK t : t = Opened(s, n + 1)
  OBVIOUS
<1>1. t[n + 1] = {} /\ \A i \in 1..n : t[i] = s[i]
  BY DEF Opened, Files
<1> QED BY <1>1 DEF Held

LEMMA WrittenType ==
  ASSUME NEW s \in Files, NEW p \in 1..Len(s), NEW v \in Nat,
         NEW w, w = [s EXCEPT ![p] = @ \union {v}]
  PROVE  w \in Files /\ Len(w) = Len(s)
<1>1. s[p] \union {v} \in SUBSET Nat
  BY DEF Files
<1> QED BY <1>1 DEF Files

LEMMA HeldWritten ==
  ASSUME NEW s \in Files, NEW p \in 1..Len(s), NEW v \in Nat, Held(s, p, v) = {}
  PROVE  Held([s EXCEPT ![p] = @ \union {v}], p, v) = {p}
BY DEF Held, Files

LEMMA HeldOther ==
  ASSUME NEW s \in Files, NEW p \in 1..Len(s), NEW v \in Nat, NEW u, u # v
  PROVE  Held([s EXCEPT ![p] = @ \union {v}], p, u) = Held(s, p, u)
BY DEF Held, Files

\* What the invariant says of a directory depends on its parts, its manifest
\* and those who build there.
LEMMA WholeFrame ==
  ASSUME NEW d, base' = base, parts'[d] = parts[d], holes'[d] = holes[d],
         faults' = 0 => faults = 0, Trusted(d)
  PROVE  Trusted(d)'
BY DEF Trusted, WholeBut, Wanted

LEMMA BuiltFrame ==
  ASSUME NEW b, base' = base, dir'[b] = dir[b], parts'[dir[b]] = parts[dir[b]],
         omitted'[b] = omitted[b], faults' = 0 => faults = 0, Built(b)
  PROVE  Built(b)'
BY DEF Built, WholeBut, Wanted

LEMMA PackedFrame ==
  ASSUME NEW b, base' = base, dir'[b] = dir[b], parts'[dir[b]] = parts[dir[b]],
         part'[b] = part[b], todo'[b] = todo[b], chan'[b] = chan[b],
         omitted'[b] = omitted[b], faults' = 0 => faults = 0, Packed(b)
  PROVE  Packed(b)'
BY DEF Packed, Wanted

LEMMA WInit == Init => WInv
<1> SUFFICES ASSUME Init PROVE WInv
  OBVIOUS
<1>1. WTypes
  BY DEF Init, WTypes, Files
<1>2. ManifestAtEnd /\ ManifestHasParts /\ CutShort /\ Packing /\ BuiltIsWhole
  BY DEF Init, ManifestAtEnd, ManifestHasParts, CutShort, Packing, BuiltIsWhole
<1>3. TrustedIsWhole
  <2>1. base # NoManifest
    BY VersionsAreInts, ChunksAssumption DEF Init, NoManifest
  <2> QED BY <2>1 DEF Init, TrustedIsWhole
<1> QED BY <1>1, <1>2, <1>3 DEF WInv

\* Steps that leave the parts and the manifests alone and concern nobody who
\* builds.
LEMMA QuietNext ==
  ASSUME IInv, IInv', ChosenNow, ChosenNow', WInv,
         UNCHANGED <<base, manifest, parts, holes, todo, chan, part, consumer>>,
         faults' \in Nat, faults' = 0 => faults = 0,
         omitted' \in [Builders -> SUBSET Nat],
         \A c \in Builders : Building(c) \/ Building(c)' =>
           bpc'[c] = bpc[c] /\ dir'[c] = dir[c] /\ omitted'[c] = omitted[c],
         \A c \in Builders : bpc'[c] = "gather" => manifest[dir'[c]] = NoManifest
  PROVE  WInv'
<1>1. WTypes' /\ ManifestHasParts'
  BY DEF WInv, WTypes, ManifestHasParts
<1>2. \A c \in Builders : Building(c)' =>
        Building(c) /\ bpc'[c] = bpc[c] /\ dir'[c] = dir[c] /\ omitted'[c] = omitted[c]
  BY DEF Building
<1>3. \A d : Idle(d)' => Idle(d)
  BY DEF Idle, Building
<1>4. ManifestAtEnd'
  BY <1>2 DEF WInv, ManifestAtEnd, Building
<1>5. CutShort'
  BY <1>3 DEF WInv, CutShort
<1>6. Packing'
  BY <1>2, PackedFrame DEF WInv, Packing, Building
<1>7. BuiltIsWhole'
  BY <1>2, BuiltFrame DEF WInv, BuiltIsWhole, Building
<1>8. TrustedIsWhole'
  BY <1>3, WholeFrame DEF WInv, TrustedIsWhole
<1> QED BY <1>1, <1>4, <1>5, <1>6, <1>7, <1>8 DEF WInv

\* Only a stale view is removed, and nobody builds one for the present trace
\* in its directory.
LEMMA VisitWhole ==
  ASSUME IInv, IInv', ChosenNow, ChosenNow', WInv,
         NEW r \in Readers, NEW d, Visit(r, d)
  PROVE  WInv'
<1> DEFINE stale == d \in dirs /\ manifest[d] \in Versions /\ manifest_is_stale(d)
<1>1. UNCHANGED <<base, faults, bpc, dir, todo, chan, part, consumer, omitted>>
  BY DEF Visit, builder
<1>2. CASE ~stale
  <2>1. UNCHANGED <<manifest, parts, holes>>
    BY <1>2 DEF Visit
  <2> QED BY <1>1, <2>1, QuietNext DEF WInv, WTypes, ManifestAtEnd
<1>3. CASE stale
  <2>1. /\ manifest' = [manifest EXCEPT ![d] = NoManifest]
        /\ parts' = [parts EXCEPT ![d] = <<>>]
        /\ holes' = [holes EXCEPT ![d] = {}]
    BY <1>3 DEF Visit
  <2>2. d \in Dirs /\ d[2] # base
    <3>1. d \in Dirs /\ d[2] \in Int /\ base \in Int
      BY <1>3, DirsAreDated, VersionsAreInts DEF IInv, Types
    <3>2. manifest[d] \in d[2]..base /\ manifest[d] # base
      BY <1>3, VersionsAreInts, <3>1 DEF IInv, ManifestsInTime, manifest_is_stale, NoManifest, Torn
    <3> QED BY <3>1, <3>2
  <2>3. manifest \in [Dirs -> Int] /\ parts \in [Dirs -> Files] /\ holes \in [Dirs -> SUBSET Nat]
    BY DEF IInv, Types, WInv, WTypes
  <2>4. \A c \in Builders : bpc[c] \in Inside =>
          /\ dir[c] # d /\ dir[c] \in Dirs
          /\ parts'[dir[c]] = parts[dir[c]] /\ manifest'[dir[c]] = manifest[dir[c]]
    BY <2>1, <2>2, <2>3, OwnDirectory
  <2>5. \A e \in Dirs : e # d =>
          parts'[e] = parts[e] /\ manifest'[e] = manifest[e] /\ holes'[e] = holes[e]
    BY <2>1, <2>3
  <2>6. manifest'[d] = NoManifest /\ parts'[d] = <<>>
    BY <2>1, <2>2, <2>3
  <2>7. \A e : Idle(e)' <=> Idle(e)
    BY <1>1 DEF Idle, Building
  <2>8. WTypes'
    <3>1. <<>> \in Files
      BY DEF Files
    <3>2. parts' \in [Dirs -> Files]
      BY <2>1, <2>3, <3>1
    <3>3. holes' \in [Dirs -> SUBSET Nat]
      BY <2>1, <2>3
    <3> QED BY <1>1, <3>2, <3>3 DEF WInv, WTypes
  <2>9. ManifestAtEnd'
    BY <1>1, <2>4 DEF WInv, ManifestAtEnd, Inside
  <2>10. ManifestHasParts'
    BY <2>5, <2>6 DEF WInv, ManifestHasParts
  <2>11. CutShort'
    BY <1>1, <2>5, <2>6, <2>7 DEF WInv, CutShort
  <2>12. Packing'
    BY <1>1, <2>4, PackedFrame DEF WInv, Packing, Inside
  <2>13. BuiltIsWhole'
    BY <1>1, <2>4, BuiltFrame DEF WInv, BuiltIsWhole, Inside
  <2>14. TrustedIsWhole'
    <3>1. base # NoManifest
      BY VersionsAreInts DEF IInv, Types, NoManifest
    <3> QED BY <1>1, <3>1, <2>5, <2>6, <2>7, WholeFrame DEF WInv, TrustedIsWhole
  <2> QED BY <2>8, <2>9, <2>10, <2>11, <2>12, <2>13, <2>14 DEF WInv
<1> QED BY <1>2, <1>3

LEMMA ReaderWhole ==
  ASSUME IInv, IInv', ChosenNow, ChosenNow', WInv,
         NEW r \in Readers, ReaderStep(r) \/ ReadFails(r)
  PROVE  WInv'
<1> USE DEF store, builder
<1>0. /\ \A c \in Builders : bpc[c] = "gather" => manifest[dir[c]] = NoManifest
      /\ faults \in Nat /\ omitted \in [Builders -> SUBSET Nat]
  BY DEF WInv, WTypes, ManifestAtEnd
<1>1. CASE PlanBases(r)
  BY <1>0, <1>1, QuietNext DEF PlanBases
<1>2. CASE \E d \in left[r] : Visit(r, d)
  BY <1>2, VisitWhole
<1>3. CASE Size(r)
  BY <1>0, <1>3, QuietNext DEF Size
<1>4. CASE Scan(r)
  BY <1>0, <1>4, QuietNext DEF Scan, ScanBut
<1>5. CASE ReadFails(r)
  BY <1>0, <1>5, QuietNext DEF ReadFails, ScanBut, Fails
<1> QED BY <1>1, <1>2, <1>3, <1>4, <1>5 DEF ReaderStep

\* Nobody builds when the trace grows, and no manifest is of the new version.
LEMMA AppendWhole ==
  ASSUME "append" \notin Faults, IInv, IInv', ChosenNow, WInv, AppendChunk
  PROVE  WInv'
<1>1. \A b \in Builders : bpc[b] \notin Inside \union {"lock"}
  BY ChunksAssumption DEF AppendChunk, ChosenNow, IInv, ChosenInTime, Dirs, Plans, Versions
<1>2. UNCHANGED <<manifest, parts, holes, faults, bpc, dir, todo, chan, part, consumer, omitted>>
  BY DEF AppendChunk, store, builder
<1>3. WTypes' /\ ManifestAtEnd' /\ ManifestHasParts' /\ Packing' /\ BuiltIsWhole'
  BY <1>1, <1>2 DEF WInv, WTypes, ManifestAtEnd, ManifestHasParts, Packing, BuiltIsWhole, Inside
<1>4. CutShort'
  BY <1>2 DEF WInv, CutShort, Idle, Building
<1>5. TrustedIsWhole'
  <2>1. \A d \in Dirs : manifest[d] # base + 1
    <3> SUFFICES ASSUME NEW d \in Dirs PROVE manifest[d] # base + 1
      OBVIOUS
    <3>1. d[2] \in Int /\ base \in Int /\ base > 0
      BY DirsAreDated, VersionsAreInts DEF IInv, Types
    <3>2. manifest[d] \in {NoManifest, Torn} \union (d[2]..base)
      BY DEF IInv, ManifestsInTime
    <3> QED BY <3>1, <3>2 DEF NoManifest, Torn
  <2> QED BY <2>1, <1>2 DEF AppendChunk, TrustedIsWhole
<1> QED BY <1>3, <1>4, <1>5 DEF WInv

\* A step of a builder that is inside touches its own directory only: what is
\* to be shown of it speaks of that builder and that directory.
LEMMA OwnStep ==
  ASSUME IInv, IInv', ChosenNow, ChosenNow', WInv, WTypes',
         NEW b \in Builders, bpc[b] \in Inside, NEW d \in Dirs, d = dir[b],
         base' = base, faults' = 0 => faults = 0,
         \A c \in Builders : c # b =>
           /\ bpc'[c] = bpc[c] /\ dir'[c] = dir[c] /\ todo'[c] = todo[c]
           /\ chan'[c] = chan[c] /\ part'[c] = part[c]
           /\ consumer'[c] = consumer[c] /\ omitted'[c] = omitted[c],
         \A e \in Dirs : e # d =>
           parts'[e] = parts[e] /\ manifest'[e] = manifest[e] /\ holes'[e] = holes[e],
         bpc'[b] \in {"gather", "build", "register", "write"} => dir'[b] = d,
         bpc'[b] \in {"gather", "build", "register"} => manifest'[d] = NoManifest,
         bpc'[b] = "write" => manifest'[d] = Torn,
         manifest'[d] # NoManifest => parts'[d] # <<>>,
         faults' = 0 /\ manifest'[d] = NoManifest /\ ~Building(b)' => parts'[d] = <<>>,
         faults' = 0 => consumer'[b] = "reads",
         bpc'[b] = "build" => Packed(b)',
         bpc'[b] \in {"register", "write"} => Built(b)',
         manifest'[d] = base /\ ~Building(b)' => Trusted(d)'
  PROVE  WInv'
<1>1. \A c \in Builders : c # b /\ bpc'[c] \in Inside =>
        dir[c] \in Dirs /\ dir[c] # d /\ parts'[dir[c]] = parts[dir[c]]
        /\ manifest'[dir[c]] = manifest[dir[c]]
  BY OwnDirectory
<1>2. \A e \in Dirs : e # d /\ Idle(e)' => Idle(e)
  BY DEF Idle, Building
<1>3. Idle(d)' => ~Building(b)'
  BY DEF Idle, Building
<1>4. ManifestAtEnd'
  <2> SUFFICES ASSUME NEW c \in Builders
               PROVE  /\ bpc'[c] \in {"gather", "build", "register"} =>
                           manifest'[dir'[c]] = NoManifest
                      /\ bpc'[c] = "write" => manifest'[dir'[c]] = Torn
    BY DEF ManifestAtEnd
  <2>1. CASE c = b
    BY <2>1
  <2>2. CASE c # b
    BY <2>2, <1>1 DEF WInv, ManifestAtEnd, Inside
  <2> QED BY <2>1, <2>2
<1>5. ManifestHasParts'
  BY DEF WInv, ManifestHasParts
<1>6. CutShort'
  <2>1. \A e \in Dirs : faults' = 0 /\ manifest'[e] = NoManifest /\ Idle(e)' => parts'[e] = <<>>
    <3> SUFFICES ASSUME NEW e \in Dirs, faults' = 0, manifest'[e] = NoManifest, Idle(e)'
                 PROVE  parts'[e] = <<>>
      OBVIOUS
    <3>1. CASE e = d
      BY <3>1, <1>3
    <3>2. CASE e # d
      BY <3>2, <1>2 DEF WInv, CutShort
    <3> QED BY <3>1, <3>2
  <2>2. \A c \in Builders : faults' = 0 => consumer'[c] = "reads"
    BY DEF WInv, CutShort
  <2> QED BY <2>1, <2>2 DEF CutShort
<1>7. Packing'
  <2> SUFFICES ASSUME NEW c \in Builders, bpc'[c] = "build" PROVE Packed(c)'
    BY DEF Packing
  <2>1. CASE c # b
    <3>1. Packed(c)
      BY <2>1 DEF WInv, Packing
    <3> QED BY <2>1, <3>1, <1>1, PackedFrame DEF Inside
  <2> QED BY <2>1
<1>8. BuiltIsWhole'
  <2> SUFFICES ASSUME NEW c \in Builders, bpc'[c] \in {"register", "write"}
               PROVE  Built(c)'
    BY DEF BuiltIsWhole
  <2>1. CASE c # b
    <3>1. Built(c)
      BY <2>1 DEF WInv, BuiltIsWhole
    <3> QED BY <2>1, <3>1, <1>1, BuiltFrame DEF Inside
  <2> QED BY <2>1
<1>9. TrustedIsWhole'
  <2> SUFFICES ASSUME NEW e \in Dirs, manifest'[e] = base, Idle(e)' PROVE Trusted(e)'
    BY DEF TrustedIsWhole
  <2>1. CASE e # d
    <3>1. Trusted(e)
      BY <2>1, <1>2 DEF WInv, TrustedIsWhole
    <3> QED BY <2>1, <3>1, WholeFrame
  <2>2. CASE e = d
    BY <2>2, <1>3
  <2> QED BY <2>1, <2>2
<1> QED BY <1>4, <1>5, <1>6, <1>7, <1>8, <1>9 DEF WInv

\* The first part is opened over whatever a build that was cut short has left.
LEMMA GatherWhole ==
  ASSUME IInv, IInv', ChosenNow, ChosenNow', WInv, NEW b \in Builders,
         NEW units \in SUBSET (1..base), StartBuild(b, units),
         faults' \in Nat, faults' = 0 => faults = 0
  PROVE  WInv'
<1> PICK d : d = dir[b]
  OBVIOUS
<1>1. bpc[b] = "gather" /\ bpc'[b] = "build" /\ bpc[b] \in Inside
  BY DEF StartBuild, GoB, IInv, Types, Inside
<1>2. d \in Dirs /\ d \in dirs /\ d = <<Plan[b], base>>
  BY <1>1, OwnDirectory
<1>3. Idle(d)
  BY <1>1, OwnDirectory DEF Idle, Building, Inside
<1>4. manifest[d] = NoManifest
  BY <1>1 DEF WInv, ManifestAtEnd
<1>5. faults = 0 => parts[d] = <<>>
  BY <1>2, <1>3, <1>4 DEF WInv, CutShort
<1> PICK s : s = parts[d]
  OBVIOUS
<1>6. s \in Files /\ 0 \in 0..Len(s) /\ 0 + 1 = 1
  BY <1>2 DEF WInv, WTypes
<1> PICK t : t = Opened(s, 1)
  OBVIOUS
<1>7. /\ t \in Files /\ t # <<>> /\ 1 \in 1..Len(t)
      /\ Len(s) = 0 => Len(t) = 1
  <2> PICK n : n = 0
    OBVIOUS
  <2>1. n \in 0..Len(s) /\ t = Opened(s, n + 1) /\ n + 1 = 1
    BY <1>6
  <2>2. /\ t \in Files /\ t # <<>> /\ n + 1 \in 1..Len(t)
        /\ Len(s) = n => Len(t) = n + 1
    BY <1>6, <2>1, OpenedType
  <2> QED BY <2>1, <2>2
<1>8. parts' = [parts EXCEPT ![d] = t]
  BY <1>2 DEF StartBuild
<1>9. parts'[d] = t /\ \A e \in Dirs : e # d => parts'[e] = parts[e]
  BY <1>2, <1>8 DEF WInv, WTypes
<1>10. /\ todo' = [todo EXCEPT ![b] = units] /\ chan' = [chan EXCEPT ![b] = {}]
       /\ part' = [part EXCEPT ![b] = 1] /\ consumer' = [consumer EXCEPT ![b] = "reads"]
       /\ omitted' = [omitted EXCEPT ![b] = (1..base) \ units]
  BY <1>2 DEF StartBuild
<1>11. UNCHANGED <<base, manifest, holes, dir>>
  BY DEF StartBuild
<1>12. WTypes'
  <2>1. base \in Int /\ 1..base \in SUBSET Nat
    BY VersionsAreInts DEF IInv, Types
  <2>2. todo' \in [Builders -> SUBSET Nat] /\ omitted' \in [Builders -> SUBSET Nat]
    BY <1>10, <2>1 DEF WInv, WTypes
  <2>3. parts' \in [Dirs -> Files]
    BY <1>2, <1>7, <1>8 DEF WInv, WTypes
  <2> QED BY <1>10, <1>11, <2>2, <2>3 DEF WInv, WTypes
<1>13. /\ todo'[b] = units /\ chan'[b] = {} /\ part'[b] = 1
       /\ consumer'[b] = "reads" /\ omitted'[b] = (1..base) \ units
       /\ \A c \in Builders : c # b =>
            /\ bpc'[c] = bpc[c] /\ todo'[c] = todo[c] /\ chan'[c] = chan[c]
            /\ part'[c] = part[c] /\ consumer'[c] = consumer[c] /\ omitted'[c] = omitted[c]
  BY <1>10 DEF WInv, WTypes, StartBuild, GoB, IInv, Types
<1>14. \A u : Held(t, 1, u) = {}
  <2>1. \A u : Held(s, 0, u) = {}
    BY DEF Held
  <2> QED BY <1>6, <2>1, HeldOpened
<1>15. Packed(b)'
  BY <1>5, <1>7, <1>9, <1>11, <1>13, <1>14 DEF Packed, Wanted
<1>16. Building(b)'
  BY <1>1 DEF Building
<1> QED
  BY <1>1, <1>2, <1>4, <1>7, <1>9, <1>11, <1>12, <1>13, <1>15, <1>16, OwnStep

\* What the consumer has yet to get it has to get once.
LEMMA ProduceWhole ==
  ASSUME IInv, IInv', ChosenNow, ChosenNow', WInv,
         NEW b \in Builders, NEW u \in todo[b], Produce(b, u)
  PROVE  WInv'
<1> PICK d : d = dir[b]
  OBVIOUS
<1>1. bpc[b] = "build" /\ bpc'[b] = "build" /\ bpc[b] \in Inside
  BY DEF Produce, Inside, builder
<1>2. d \in Dirs /\ d = <<Plan[b], base>>
  BY <1>1, OwnDirectory
<1>3. UNCHANGED <<base, manifest, parts, holes, faults, bpc, dir, part, consumer, omitted>>
  BY DEF Produce, store
<1>4. /\ todo'[b] = todo[b] \ {u}
      /\ chan'[b] = IF Selected(Plan[b], u) = {} THEN chan[b] ELSE chan[b] \union {u}
      /\ \A c \in Builders : c # b => todo'[c] = todo[c] /\ chan'[c] = chan[c]
  BY DEF Produce, WInv, WTypes
<1>5. WTypes'
  <2>1. u \in Nat
    BY DEF WInv, WTypes
  <2>2. todo' \in [Builders -> SUBSET Nat]
    BY DEF Produce, WInv, WTypes
  <2>3. chan' \in [Builders -> SUBSET Nat]
    BY <2>1 DEF Produce, WInv, WTypes
  <2> QED BY <1>3, <2>2, <2>3 DEF WInv, WTypes
<1>6. Packed(b)
  BY <1>1 DEF WInv, Packing
<1>7. Packed(b)'
  <2>1. todo'[b] \intersect chan'[b] = {}
    BY <1>4, <1>6 DEF Packed
  <2>2. \A v \in Wanted(Plan[b]) : v \in todo'[b] \union chan'[b] <=> v \in todo[b] \union chan[b]
    BY <1>4 DEF Wanted
  <2> QED BY <1>3, <1>6, <2>1, <2>2 DEF Packed, Wanted
<1>8. manifest[d] = NoManifest /\ Building(b)' /\ (faults = 0 => consumer[b] = "reads")
  BY <1>1 DEF WInv, ManifestAtEnd, CutShort, Building
<1>9. parts[d] # <<>>
  BY <1>6 DEF Packed
<1> QED
  BY <1>1, <1>2, <1>3, <1>4, <1>5, <1>7, <1>8, <1>9, OwnStep

\* What a scan does not come to is lost.
LEMMA ScanFailsWhole ==
  ASSUME IInv, IInv', ChosenNow, ChosenNow', WInv,
         NEW b \in Builders, ScanFails(b)
  PROVE  WInv'
<1> PICK d : d = dir[b]
  OBVIOUS
<1>1. bpc[b] = "build" /\ bpc'[b] = "build" /\ bpc[b] \in Inside
  BY DEF ScanFails, Inside
<1>2. d \in Dirs
  BY <1>1, OwnDirectory
<1>3. UNCHANGED <<base, manifest, parts, holes, bpc, dir, chan, part, consumer>>
  BY DEF ScanFails, store
<1> PICK us \in SUBSET todo[b] :
      /\ todo' = [todo EXCEPT ![b] = @ \ us]
      /\ omitted' = [omitted EXCEPT ![b] = @ \union us]
  BY DEF ScanFails
<1>4. /\ todo'[b] = todo[b] \ us /\ omitted'[b] = omitted[b] \union us
      /\ \A c \in Builders : c # b => todo'[c] = todo[c] /\ omitted'[c] = omitted[c]
  BY DEF WInv, WTypes
<1>5. faults' \in Nat /\ faults' # 0
  BY DEF ScanFails, Fails, WInv, WTypes
<1>6. WTypes'
  <2>1. us \in SUBSET Nat
    BY DEF WInv, WTypes
  <2>2. todo' \in [Builders -> SUBSET Nat] /\ omitted' \in [Builders -> SUBSET Nat]
    BY <2>1 DEF WInv, WTypes
  <2> QED BY <1>3, <1>5, <2>2 DEF WInv, WTypes
<1>7. Packed(b)
  BY <1>1 DEF WInv, Packing
<1>8. Packed(b)'
  BY <1>3, <1>4, <1>5, <1>7 DEF Packed, Wanted
<1>9. manifest[d] = NoManifest /\ Building(b)'
  BY <1>1 DEF WInv, ManifestAtEnd, Building
<1>10. parts[d] # <<>>
  BY <1>7 DEF Packed
<1> QED
  BY <1>1, <1>2, <1>3, <1>4, <1>5, <1>6, <1>8, <1>9, <1>10, OwnStep

\* The consumer writes a batch in the open part, and goes on to the next one.
LEMMA ConsumeWhole ==
  ASSUME IInv, IInv', ChosenNow, ChosenNow', WInv,
         NEW b \in Builders, NEW u \in chan[b], Consume(b, u)
  PROVE  WInv'
<1> PICK d : d = dir[b]
  OBVIOUS
<1>1. bpc[b] = "build" /\ bpc'[b] = "build" /\ bpc[b] \in Inside
  BY DEF Consume, Inside
<1>2. d \in Dirs /\ d \in dirs /\ d = <<Plan[b], base>>
  BY <1>1, OwnDirectory
<1>3. UNCHANGED <<base, manifest, holes, faults, bpc, dir, todo, consumer, omitted>>
  BY <1>2 DEF Consume
<1>4. Packed(b)
  BY <1>1 DEF WInv, Packing
<1> PICK s : s = parts[d]
  OBVIOUS
<1> PICK p : p = part[b]
  OBVIOUS
<1>5. s \in Files /\ p \in 1..Len(s) /\ u \in Nat
  BY <1>2, <1>4 DEF WInv, WTypes, Packed
<1> PICK w : w = [s EXCEPT ![p] = @ \union {u}]
  OBVIOUS
<1>6. w \in Files /\ Len(w) = Len(s)
  BY <1>5, WrittenType
<1>7. \A v : v # u => Held(w, p, v) = Held(s, p, v)
  BY <1>5, HeldOther
<1>8. Held(s, p, u) = {} => Held(w, p, u) = {p}
  BY <1>5, HeldWritten
<1>9. p \in 0..Len(w)
  BY <1>5, <1>6
<1> PICK o : o = Opened(w, p + 1)
  OBVIOUS
<1>10. o \in Files
  BY <1>6, <1>9, OpenedType
<1>11. o # <<>>
  BY <1>6, <1>9, OpenedType
<1>12. p + 1 \in 1..Len(o)
  BY <1>6, <1>9, OpenedType
<1>13. Len(w) = p => Len(o) = p + 1
  BY <1>6, <1>9, OpenedType
<1>14. \A v : Held(o, p + 1, v) = Held(w, p, v)
  BY <1>6, <1>9, HeldOpened
<1>15. \/ parts' = [parts EXCEPT ![d] = w] /\ part' = part
       \/ parts' = [parts EXCEPT ![d] = o] /\ part' = [part EXCEPT ![b] = p + 1]
  <2> DEFINE full == Bytes(Plan[b], w[p]) >= PartSize
  <2>1. /\ parts' = [parts EXCEPT ![d] = IF full THEN o ELSE w]
        /\ part' = [part EXCEPT ![b] = IF full THEN p + 1 ELSE p]
    BY <1>2 DEF Consume
  <2> HIDE DEF full
  <2>2. [part EXCEPT ![b] = p] = part
    BY DEF WInv, WTypes
  <2>3. CASE full
    BY <2>1, <2>3
  <2>4. CASE ~full
    <3>1. part' = [part EXCEPT ![b] = p]
      BY <2>1, <2>4
    <3>2. part' = part
      BY <3>1, <2>2, Zenon
    <3>3. parts' = [parts EXCEPT ![d] = w]
      BY <2>1, <2>4
    <3> QED BY <3>2, <3>3
  <2> QED BY <2>3, <2>4
<1> PICK t : t = parts'[d]
  OBVIOUS
<1> PICK q : q = part'[b]
  OBVIOUS
<1>16. \/ t = w /\ q = p
       \/ t = o /\ q = p + 1
  BY <1>2, <1>15 DEF WInv, WTypes
<1>17. /\ t \in Files /\ t # <<>> /\ q \in 1..Len(t) /\ q \in p..(p + 1)
       /\ Len(s) = p => q = Len(t)
  <2>1. CASE t = w /\ q = p
    <3>1. w # <<>>
      BY <1>5, <1>6
    <3> QED BY <2>1, <3>1, <1>5, <1>6
  <2>2. CASE t = o /\ q = p + 1
    <3>1. q \in p..(p + 1)
      BY <2>2, <1>5
    <3>2. q \in 1..Len(t)
      BY <2>2, <1>12
    <3>3. Len(s) = p => q = Len(t)
      BY <2>2, <1>6, <1>13
    <3> QED BY <2>2, <1>10, <1>11, <3>1, <3>2, <3>3
  <2> QED BY <1>16, <2>1, <2>2
<1>18. \A v : Held(t, q, v) = Held(w, p, v)
  BY <1>16, <1>14
<1>19. /\ chan'[b] = chan[b] \ {u}
       /\ \A c \in Builders : c # b => chan'[c] = chan[c] /\ part'[c] = part[c]
       /\ \A e \in Dirs : e # d => parts'[e] = parts[e]
  BY <1>2, <1>15 DEF Consume, WInv, WTypes
<1>20. WTypes'
  <2>1. parts' \in [Dirs -> Files]
    <3>1. parts \in [Dirs -> Files] /\ w \in Files /\ o \in Files
      BY <1>6, <1>10 DEF WInv, WTypes
    <3>2. \A x \in Files : [parts EXCEPT ![d] = x] \in [Dirs -> Files]
      BY <3>1
    <3> QED BY <1>15, <3>1, <3>2
  <2>2. part' \in [Builders -> Nat] /\ chan' \in [Builders -> SUBSET Nat]
    BY <1>5, <1>15 DEF Consume, WInv, WTypes
  <2> QED BY <1>3, <2>1, <2>2 DEF WInv, WTypes
<1>21. Packed(b)'
  <2>1. todo'[b] \intersect chan'[b] = {}
    BY <1>3, <1>4, <1>19 DEF Packed
  <2>2. ASSUME NEW v \in Wanted(Plan[b]) \ omitted[b]
        PROVE  IF v \in todo'[b] \union chan'[b] THEN Held(t, q, v) = {}
               ELSE \E i \in 1..q : Held(t, q, v) = {i}
    <3>1. IF v \in todo[b] \union chan[b] THEN Held(s, p, v) = {}
          ELSE \E i \in 1..p : Held(s, p, v) = {i}
      BY <1>4 DEF Packed
    <3>2. 1..p \subseteq 1..q /\ p \in 1..q
      BY <1>5, <1>17
    <3>3. CASE v = u
      <4>1. u \notin todo'[b] \union chan'[b]
        BY <1>3, <1>4, <1>19 DEF Packed
      <4>2. Held(t, q, v) = {p}
        BY <3>1, <3>3, <1>8, <1>18
      <4> QED BY <3>2, <3>3, <4>1, <4>2
    <3>4. CASE v # u
      <4>1. v \in todo'[b] \union chan'[b] <=> v \in todo[b] \union chan[b]
        BY <3>4, <1>3, <1>19
      <4>2. Held(t, q, v) = Held(s, p, v)
        BY <3>4, <1>7, <1>18
      <4> QED BY <3>1, <3>2, <4>1, <4>2
    <3> QED BY <3>3, <3>4
  <2>3. faults = 0 => q = Len(t)
    BY <1>4, <1>17 DEF Packed
  <2> QED BY <1>3, <1>17, <2>1, <2>2, <2>3 DEF Packed, Wanted
<1>22. manifest[d] = NoManifest /\ Building(b)' /\ (faults = 0 => consumer[b] = "reads")
  BY <1>1 DEF WInv, ManifestAtEnd, CutShort, Building
<1> QED
  BY <1>1, <1>2, <1>3, <1>17, <1>19, <1>20, <1>21, <1>22, OwnStep

LEMMA WriteFailsWhole ==
  ASSUME IInv, IInv', ChosenNow, ChosenNow', WInv,
         NEW b \in Builders, WriteFails(b)
  PROVE  WInv'
<1> PICK d : d = dir[b]
  OBVIOUS
<1>1. bpc[b] = "build" /\ bpc'[b] = "build" /\ bpc[b] \in Inside
  BY DEF WriteFails, Inside
<1>2. d \in Dirs
  BY <1>1, OwnDirectory
<1>3. UNCHANGED <<base, manifest, parts, holes, bpc, dir, todo, chan, part, omitted>>
  BY DEF WriteFails, store
<1>4. faults' # 0 /\ WTypes'
  BY DEF WriteFails, Fails, store, WInv, WTypes
<1>5. Packed(b)
  BY <1>1 DEF WInv, Packing
<1>6. Packed(b)'
  BY <1>3, <1>4, <1>5, PackedFrame
<1>7. parts[d] # <<>>
  BY <1>5 DEF Packed
<1>8. manifest[d] = NoManifest /\ Building(b)'
  BY <1>1 DEF WInv, ManifestAtEnd, Building
<1>9. \A c \in Builders : c # b => consumer'[c] = consumer[c]
  BY DEF WriteFails, WInv, WTypes
<1> QED
  BY <1>1, <1>2, <1>3, <1>4, <1>6, <1>7, <1>8, <1>9, OwnStep

\* With the batch it throws over the consumer may lose what its open part has.
LEMMA ConsumerThrowsWhole ==
  ASSUME IInv, IInv', ChosenNow, ChosenNow', WInv,
         NEW b \in Builders, NEW us \in SUBSET chan[b], ConsumerThrows(b, us)
  PROVE  WInv'
<1> PICK d : d = dir[b]
  OBVIOUS
<1>1. bpc[b] = "build" /\ bpc'[b] = "build" /\ bpc[b] \in Inside
  BY DEF ConsumerThrows, Inside
<1>2. d \in Dirs /\ d \in dirs
  BY <1>1, OwnDirectory
<1>3. UNCHANGED <<base, manifest, holes, bpc, dir, todo, part>>
  BY DEF ConsumerThrows
<1>4. faults' \in Nat /\ faults' # 0
  BY DEF ConsumerThrows, Fails, WInv, WTypes
<1>5. Packed(b)
  BY <1>1 DEF WInv, Packing
<1> PICK s : s = parts[d]
  OBVIOUS
<1> PICK p : p = part[b]
  OBVIOUS
<1>6. s \in Files /\ p \in 1..Len(s) /\ us \in SUBSET Nat /\ s[p] \in SUBSET Nat
  BY <1>2, <1>5 DEF WInv, WTypes, Packed, Files
<1>7. /\ chan'[b] = chan[b] \ us /\ omitted'[b] = omitted[b] \union us \union s[p]
      /\ \A c \in Builders : c # b =>
           chan'[c] = chan[c] /\ consumer'[c] = consumer[c] /\ omitted'[c] = omitted[c]
  BY <1>2 DEF ConsumerThrows, WInv, WTypes
<1> PICK w : w = [s EXCEPT ![p] = {}]
  OBVIOUS
<1>8. w \in Files /\ Len(w) = Len(s)
  BY <1>6 DEF Files
<1>9. parts' = parts \/ parts' = [parts EXCEPT ![d] = w]
  BY <1>2 DEF ConsumerThrows
<1> PICK t : t = parts'[d]
  OBVIOUS
<1>10. (t = s \/ t = w) /\ \A e \in Dirs : e # d => parts'[e] = parts[e]
  BY <1>2, <1>9 DEF WInv, WTypes
<1>11. t \in Files /\ Len(t) = Len(s) /\ t # <<>>
  BY <1>6, <1>8, <1>10
<1>12. \A v : v \notin s[p] => Held(t, p, v) = Held(s, p, v)
  <2> SUFFICES ASSUME NEW v, v \notin s[p] PROVE Held(w, p, v) = Held(s, p, v)
    BY <1>10
  <2> QED BY <1>6 DEF Held, Files
<1>13. WTypes'
  <2>1. parts' \in [Dirs -> Files]
    BY <1>8, <1>9 DEF WInv, WTypes
  <2>2. chan' \in [Builders -> SUBSET Nat] /\ consumer' \in [Builders -> {"reads", "failed", "threw"}]
    BY DEF ConsumerThrows, WInv, WTypes
  <2>3. omitted' = [omitted EXCEPT ![b] = @ \union us \union s[p]]
    BY <1>2 DEF ConsumerThrows
  <2>4. omitted' \in [Builders -> SUBSET Nat]
    BY <1>6, <2>3 DEF WInv, WTypes
  <2> QED BY <1>3, <1>4, <2>1, <2>2, <2>4 DEF WInv, WTypes
<1>14. Packed(b)'
  <2>1. todo'[b] \intersect chan'[b] = {}
    BY <1>3, <1>5, <1>7 DEF Packed
  <2>2. ASSUME NEW v \in Wanted(Plan[b]) \ omitted'[b]
        PROVE  IF v \in todo'[b] \union chan'[b] THEN Held(t, p, v) = {}
               ELSE \E i \in 1..p : Held(t, p, v) = {i}
    <3>1. v \notin us /\ v \notin s[p] /\ v \in Wanted(Plan[b]) \ omitted[b]
      BY <1>7
    <3>2. v \in todo'[b] \union chan'[b] <=> v \in todo[b] \union chan[b]
      BY <1>3, <1>7, <3>1
    <3>3. IF v \in todo[b] \union chan[b] THEN Held(s, p, v) = {}
          ELSE \E i \in 1..p : Held(s, p, v) = {i}
      BY <1>5, <3>1 DEF Packed
    <3> QED BY <1>12, <3>1, <3>2, <3>3
  <2> QED BY <1>3, <1>4, <1>6, <1>11, <2>1, <2>2 DEF Packed, Wanted
<1>15. manifest[d] = NoManifest /\ Building(b)'
  BY <1>1 DEF WInv, ManifestAtEnd, Building
<1> QED
  BY <1>1, <1>2, <1>3, <1>4, <1>7, <1>10, <1>11, <1>13, <1>14, <1>15, OwnStep

\* With nothing to scan and nothing on its way, everything is in the parts or
\* lost.
LEMMA JoinWhole ==
  ASSUME IInv, IInv', ChosenNow, ChosenNow', WInv,
         NEW b \in Builders, Join(b)
  PROVE  WInv'
<1> PICK d : d = dir[b]
  OBVIOUS
<1>1. /\ bpc[b] = "build" /\ bpc[b] \in Inside
      /\ Succeeded(b) => bpc'[b] = "register"
      /\ ~Succeeded(b) => bpc'[b] = "unlock"
      /\ consumer[b] = "reads" => Succeeded(b)
  BY DEF Join, GoB, Inside, IInv, Types, Succeeded
<1> HIDE DEF Succeeded
<1>2. d \in Dirs /\ d[1] = Plan[b]
  BY <1>1, OwnDirectory
<1>3. UNCHANGED <<base, manifest, parts, holes, faults, dir>>
  BY DEF Join, store
<1>4. Packed(b)
  BY <1>1 DEF WInv, Packing
<1>5. omitted' = [omitted EXCEPT ![b] = @ \union chan[b]]
  BY DEF Join
<1>6. /\ omitted'[b] = omitted[b] \union chan[b]
      /\ \A c \in Builders : c # b => omitted'[c] = omitted[c]
  BY <1>5 DEF WInv, WTypes
<1>7. Built(b)'
  <2> PICK p : p = part[b]
    OBVIOUS
  <2>1. p \in 1..Len(parts[d]) /\ (faults = 0 => p = Len(parts[d]))
    BY <1>4 DEF Packed
  <2>2. todo[b] = {}
    BY DEF Join
  <2>3. \A u \in Wanted(d[1]) \ omitted'[b] : \E i \in 1..p : Held(parts[d], p, u) = {i}
    BY <1>2, <1>4, <1>6, <2>2 DEF Packed
  <2> QED BY <1>3, <2>1, <2>3 DEF Built, WholeBut, Wanted
<1>8. WTypes'
  <2>1. omitted' \in [Builders -> SUBSET Nat]
    BY <1>5 DEF WInv, WTypes
  <2> QED BY <1>3, <2>1 DEF Join, Forget, WInv, WTypes
<1>9. consumer'[b] = "reads" /\ \A c \in Builders : c # b =>
        /\ bpc'[c] = bpc[c] /\ todo'[c] = todo[c] /\ chan'[c] = chan[c]
        /\ part'[c] = part[c] /\ consumer'[c] = consumer[c]
  BY DEF Join, Forget, GoB, WInv, WTypes, IInv, Types
<1>10. manifest[d] = NoManifest /\ manifest[d] # base
  BY <1>1, VersionsAreInts DEF WInv, ManifestAtEnd, IInv, Types, NoManifest
<1>11. faults = 0 => Succeeded(b)
  BY <1>1 DEF WInv, CutShort
<1>12. Succeeded(b) => Building(b)'
  BY <1>1 DEF Building
<1>13. CASE Succeeded(b)
  BY <1>1, <1>2, <1>3, <1>6, <1>7, <1>8, <1>9, <1>10, <1>12, <1>13, OwnStep
<1>14. CASE ~Succeeded(b)
  BY <1>1, <1>2, <1>3, <1>6, <1>8, <1>9, <1>10, <1>11, <1>14, OwnStep
<1> QED BY <1>13, <1>14

\* The manifest is truncated, and written.
LEMMA RegisterWhole ==
  ASSUME IInv, IInv', ChosenNow, ChosenNow', WInv, NEW b \in Builders,
         register_view(b) \/ WriteManifest(b)
  PROVE  WInv'
<1> PICK d : d = dir[b]
  OBVIOUS
<1> PICK m : m = manifest'[d]
  OBVIOUS
<1>1. /\ bpc[b] \in {"register", "write"} /\ bpc[b] \in Inside
      /\ bpc'[b] = "write" \/ bpc'[b] = "unlock"
  BY DEF register_view, WriteManifest, GoB, Inside, IInv, Types
<1>2. d \in Dirs /\ d \in dirs
  BY <1>1, OwnDirectory
<1>3. UNCHANGED <<base, parts, faults, dir, todo, chan, part, consumer, omitted>>
  BY DEF register_view, WriteManifest
<1>4. \/ /\ bpc'[b] = "write" /\ manifest' = [manifest EXCEPT ![d] = Torn]
         /\ holes' = holes
      \/ /\ bpc'[b] = "unlock" /\ manifest' = [manifest EXCEPT ![d] = base]
         /\ holes' = [holes EXCEPT ![d] = omitted[b]]
  BY <1>2 DEF register_view, WriteManifest, GoB, IInv, Types
<1>5. /\ bpc'[b] = "write" => m = Torn
      /\ m # NoManifest
      /\ \A e \in Dirs : e # d => manifest'[e] = manifest[e] /\ holes'[e] = holes[e]
      /\ m = base => holes'[d] = omitted[b]
  BY <1>2, <1>4, VersionsAreInts DEF IInv, Types, WInv, WTypes, NoManifest, Torn
<1>6. Built(b)
  BY <1>1 DEF WInv, BuiltIsWhole
<1>7. Built(b)'
  BY <1>3, <1>6, BuiltFrame
<1>8. m = base => Trusted(d)'
  BY <1>3, <1>5, <1>6 DEF Built, Trusted, WholeBut, Wanted
<1>9. parts[d] # <<>>
  <2>1. PICK n : n \in 1..Len(parts[d])
    BY <1>6 DEF Built, WholeBut
  <2> QED BY <2>1
<1>10. \A c \in Builders : c # b => bpc'[c] = bpc[c]
  BY DEF register_view, WriteManifest, GoB, IInv, Types
<1>11. WTypes' /\ (faults = 0 => consumer[b] = "reads")
  <2>1. holes' \in [Dirs -> SUBSET Nat]
    BY <1>4 DEF WInv, WTypes
  <2> QED BY <1>3, <2>1 DEF WInv, WTypes, CutShort
<1> QED
  BY <1>1, <1>2, <1>3, <1>5, <1>7, <1>8, <1>9, <1>10, <1>11, OwnStep

\* A crash takes the locals, and leaves the parts as they are.
LEMMA CrashWhole ==
  ASSUME IInv, IInv', ChosenNow, ChosenNow', WInv,
         NEW b \in Builders, Crash(b)
  PROVE  WInv'
<1> PICK d : d = dir[b]
  OBVIOUS
<1>1. bpc'[b] = "fresh" /\ ~Building(b)'
  BY DEF Crash, IInv, Types, Building
<1>2. UNCHANGED <<base, manifest, parts, holes>>
  BY DEF Crash
<1>3. faults' # 0 /\ WTypes'
  BY DEF Crash, Fails, Forget, WInv, WTypes
<1>4. \A c \in Builders : c # b =>
        /\ bpc'[c] = bpc[c] /\ dir'[c] = dir[c] /\ todo'[c] = todo[c] /\ chan'[c] = chan[c]
        /\ part'[c] = part[c] /\ consumer'[c] = consumer[c] /\ omitted'[c] = omitted[c]
  BY DEF Crash, Forget, WInv, WTypes, IInv, Types
<1>5. CASE bpc[b] = "lock"
  <2>1. \A c \in Builders : Building(c)' <=> Building(c)
    BY <1>1, <1>4, <1>5 DEF Building
  <2> QED
    BY <1>1, <1>4, <1>2, <1>3, <1>5, PackedFrame, WholeFrame, BuiltFrame
    DEF WInv, ManifestAtEnd, ManifestHasParts, CutShort, Packing, BuiltIsWhole,
        TrustedIsWhole, Idle, Building
<1>6. CASE bpc[b] \in Inside
  <2>1. d \in Dirs
    BY <1>6, OwnDirectory
  <2>2. manifest[d] # NoManifest => parts[d] # <<>>
    BY <2>1 DEF WInv, ManifestHasParts
  <2>3. manifest[d] = base => Trusted(d)
    <3>1. CASE Idle(d)
      BY <2>1, <3>1 DEF WInv, TrustedIsWhole
    <3>2. CASE ~Idle(d)
      <4>1. PICK c \in Builders : Building(c) /\ dir[c] = d
        BY <3>2 DEF Idle
      <4>2. manifest[d] \in {NoManifest, Torn}
        BY <4>1 DEF WInv, ManifestAtEnd, Building
      <4>3. base \notin {NoManifest, Torn}
        BY VersionsAreInts DEF IInv, Types, NoManifest, Torn
      <4> QED BY <4>2, <4>3
    <3> QED BY <3>1, <3>2
  <2>4. manifest[d] = base => Trusted(d)'
    BY <1>2, <1>3, <2>3, WholeFrame
  <2> QED
    BY <1>1, <1>2, <1>3, <1>4, <1>6, <2>1, <2>2, <2>4, OwnStep
<1> QED BY <1>5, <1>6 DEF Crash, Inside, Building

LEMMA BuilderWhole ==
  ASSUME IInv, IInv', ChosenNow, ChosenNow', WInv,
         NEW b \in Builders, BuilderStep(b)
  PROVE  WInv'
<1> USE DEF GoB, store, builder, reader
<1>0. /\ bpc \in [Builders -> Inside \union {"fresh", "mkdir", "lock", "done"}]
      /\ dir \in [Builders -> Dirs \union {NoDir}]
      /\ \A c \in Builders : bpc[c] = "gather" => manifest[dir[c]] = NoManifest
      /\ faults \in Nat /\ omitted \in [Builders -> SUBSET Nat]
  BY DEF IInv, Types, WInv, WTypes, ManifestAtEnd
<1>1. CASE AlreadyBuilt(b)
  BY <1>0, <1>1, QuietNext DEF AlreadyBuilt, Building
<1>2. CASE NotFresh(b)
  BY <1>0, <1>2, QuietNext DEF NotFresh, Building
<1>3. CASE materialize_view_dir(b)
  BY <1>0, <1>3, QuietNext DEF materialize_view_dir, Building
<1>4. CASE lock_view_dir(b)
  BY <1>0, <1>4, QuietNext DEF lock_view_dir, Building
<1>5. CASE LockFails(b)
  BY <1>0, <1>5, QuietNext DEF LockFails, Building
<1>6. CASE Recheck(b)
  <2>1. dir[b] = <<Plan[b], base>> /\ dir[b] \in Dirs
    BY <1>6, OwnDirectory DEF Recheck, Inside
  <2>2. bpc'[b] = "gather" => manifest[dir[b]] = NoManifest
    BY <1>0, <1>6, <2>1 DEF Recheck, view_is_fresh, WInv, ManifestHasParts
  <2>3. UNCHANGED <<base, manifest, parts, holes, faults, todo, chan, part, consumer, omitted, dir>>
    BY <1>6 DEF Recheck
  <2>4. /\ bpc[b] = "recheck" /\ bpc'[b] \in {"unlock", "gather"}
        /\ \A c \in Builders : c # b => bpc'[c] = bpc[c]
    BY <1>0, <1>6 DEF Recheck
  <2> QED BY <1>0, <2>2, <2>3, <2>4, QuietNext DEF Building
<1>7. CASE Gather(b)
  BY <1>0, <1>7, GatherWhole DEF Gather
<1>8. CASE \E u \in todo[b] : Produce(b, u)
  BY <1>8, ProduceWhole
<1>9. CASE \E u \in chan[b] : Consume(b, u)
  BY <1>9, ConsumeWhole
<1>10. CASE Join(b)
  BY <1>10, JoinWhole
<1>11. CASE register_view(b) \/ WriteManifest(b)
  BY <1>11, RegisterWhole
<1>12. CASE unlock_view_dir(b)
  BY <1>0, <1>12, QuietNext DEF unlock_view_dir, Building
<1> QED
  BY <1>1, <1>2, <1>3, <1>4, <1>5, <1>6, <1>7, <1>8, <1>9, <1>10, <1>11, <1>12
  DEF BuilderStep

LEMMA BuilderFaultWhole ==
  ASSUME IInv, IInv', ChosenNow, ChosenNow', WInv,
         NEW b \in Builders, BuilderFault(b)
  PROVE  WInv'
<1>1. CASE GatherFails(b)
  <2>1. PICK units \in SUBSET (1..base) : StartBuild(b, units)
    BY <1>1 DEF GatherFails
  <2>2. faults' \in Nat /\ faults' # 0
    BY <1>1 DEF GatherFails, Fails, WInv, WTypes
  <2> QED BY <2>1, <2>2, GatherWhole
<1> QED
  BY <1>1, ScanFailsWhole, WriteFailsWhole, ConsumerThrowsWhole, CrashWhole DEF BuilderFault

LEMMA WholeNext ==
  ASSUME "append" \notin Faults, IInv, ChosenNow, WInv, [Next]_vars
  PROVE  WInv'
<1>1. IInv' /\ ChosenNow'
  BY NextInv, ChosenNext
<1>2. CASE Terminating \/ UNCHANGED vars
  <2>1. UNCHANGED vars
    BY <1>2 DEF Terminating
  <2>2. /\ \A c \in Builders : bpc[c] = "gather" => manifest[dir[c]] = NoManifest
        /\ faults \in Nat /\ omitted \in [Builders -> SUBSET Nat]
    BY DEF WInv, WTypes, ManifestAtEnd
  <2> QED BY <1>1, <2>1, <2>2, QuietNext DEF vars, store, builder
<1>3. CASE \E b \in Builders : BuilderStep(b)
  BY <1>1, <1>3, BuilderWhole
<1>4. CASE \E r \in Readers : ReaderStep(r) \/ ReadFails(r)
  BY <1>1, <1>4, ReaderWhole
<1>5. CASE AppendChunk
  BY <1>1, <1>5, AppendWhole
<1>6. CASE \E b \in Builders : BuilderFault(b)
  BY <1>1, <1>6, BuilderFaultWhole
<1> QED
  BY <1>2, <1>3, <1>4, <1>5, <1>6 DEF Next, Fault

LEMMA FaultsGrow ==
  ASSUME WTypes, [Next]_vars
  PROVE  faults' = 0 => faults = 0
<1>0. faults \in Nat
  BY DEF WTypes
<1>1. ASSUME NEW b \in Builders, BuilderStep(b) PROVE faults' = faults
  BY <1>1 DEF BuilderStep, AlreadyBuilt, NotFresh, materialize_view_dir, lock_view_dir, LockFails,
              Recheck, Gather, StartBuild, Produce, Consume, Join, register_view, WriteManifest, unlock_view_dir
<1>2. ASSUME NEW b \in Builders, BuilderFault(b) PROVE faults' = faults + 1
  BY <1>2 DEF BuilderFault, GatherFails, ScanFails, WriteFails, ConsumerThrows, Crash, Fails
<1>3. ASSUME NEW r \in Readers, ReaderStep(r) PROVE faults' = faults
  BY <1>3 DEF ReaderStep, PlanBases, Visit, Size, Scan, ScanBut
<1>4. ASSUME NEW r \in Readers, ReadFails(r) PROVE faults' = faults + 1
  BY <1>4 DEF ReadFails, Fails
<1>5. CASE AppendChunk \/ Terminating \/ UNCHANGED vars
  BY <1>5 DEF AppendChunk, Terminating, vars
<1>6. faults + 1 # 0
  BY <1>0
<1> QED BY <1>1, <1>2, <1>3, <1>4, <1>5, <1>6 DEF Next, Fault

\* Only a scan that fails and a consumer that throws lose chunks of a view: a
\* failed write and a crash end the build before it is registered.
Lossless ==
  NothingLost =>
    /\ \A b \in Builders : /\ consumer[b] # "threw"
                           /\ bpc[b] # "unlock" => omitted[b] = {}
    /\ \A d \in Dirs : holes[d] = {}

\* What such a step has to show of its builder.
LEMMA LosslessStep ==
  ASSUME WTypes, WTypes', Types, Types', Lossless, NothingLost, NEW b \in Builders,
         \A c \in Builders : c # b =>
           bpc'[c] = bpc[c] /\ consumer'[c] = consumer[c] /\ omitted'[c] = omitted[c],
         consumer'[b] # "threw", bpc'[b] # "unlock" => omitted'[b] = {},
         \A d \in Dirs : holes'[d] = {}
  PROVE  Lossless'
BY DEF Lossless

LEMMA LosslessNext ==
  ASSUME "append" \notin Faults, IInv, ChosenNow, WInv, Lossless, [Next]_vars
  PROVE  Lossless'
<1> SUFFICES ASSUME NothingLost' PROVE Lossless'
  BY DEF Lossless
<1> USE DEF store, builder, GoB
<1>t. faults \in Nat /\ WTypes /\ WTypes' /\ Types /\ Types'
  BY WholeNext, NextInv DEF WInv, WTypes, IInv
<1>n. NothingLost
  BY FaultsGrow, <1>t DEF NothingLost
<1>0. /\ \A b \in Builders : /\ consumer[b] # "threw"
                             /\ bpc[b] # "unlock" => omitted[b] = {}
      /\ \A d \in Dirs : holes[d] = {}
  BY <1>n DEF Lossless
<1>1. CASE UNCHANGED <<bpc, consumer, omitted, holes>>
  BY <1>0, <1>1 DEF Lossless
<1>2. ASSUME NEW b \in Builders, BuilderStep(b) PROVE Lossless'
  <2>1. CASE Gather(b)
    <3>1. dir[b] \in dirs
      BY <2>1, OwnDirectory DEF Gather, StartBuild, Inside
    <3>2. consumer'[b] = "reads" /\ omitted'[b] = {} /\ holes' = holes
      BY <1>t, <2>1, <3>1 DEF Gather, StartBuild, WTypes
    <3>3. \A c \in Builders : c # b =>
            bpc'[c] = bpc[c] /\ consumer'[c] = consumer[c] /\ omitted'[c] = omitted[c]
      BY <1>t, <2>1 DEF Gather, StartBuild, WTypes, Types
    <3> QED BY <1>0, <1>n, <1>t, <3>2, <3>3, LosslessStep
  <2>2. CASE Join(b)
    <3>1. \/ consumer[b] = "reads" /\ chan[b] = {}
          \/ bpc'[b] = "unlock"
      BY <1>0, <1>t, <2>2 DEF Join, Succeeded, WTypes, Types
    <3>2. /\ bpc[b] = "build" /\ consumer'[b] = "reads" /\ omitted'[b] = omitted[b] \union chan[b]
          /\ holes' = holes
      BY <1>t, <2>2 DEF Join, Forget, WTypes
    <3>3. \A c \in Builders : c # b =>
            bpc'[c] = bpc[c] /\ consumer'[c] = consumer[c] /\ omitted'[c] = omitted[c]
      BY <1>t, <2>2 DEF Join, Forget, WTypes, Types
    <3> QED BY <1>0, <1>n, <1>t, <3>1, <3>2, <3>3, LosslessStep
  <2>3. CASE WriteManifest(b)
    <3>1. /\ bpc[b] = "write" /\ UNCHANGED <<consumer, omitted>>
          /\ holes' = holes \/ holes' = [holes EXCEPT ![dir[b]] = omitted[b]]
      BY <2>3 DEF WriteManifest
    <3>2. \A d \in Dirs : holes'[d] = {}
      BY <1>0, <1>t, <3>1 DEF WTypes
    <3>3. \A c \in Builders : c # b => bpc'[c] = bpc[c]
      BY <1>t, <2>3 DEF WriteManifest, Types
    <3> QED BY <1>0, <1>n, <1>t, <3>1, <3>2, <3>3, LosslessStep
  <2>4. CASE unlock_view_dir(b)
    <3>1. consumer' = consumer /\ holes' = holes /\ omitted'[b] = {}
      BY <1>t, <2>4 DEF unlock_view_dir, WTypes
    <3>2. \A c \in Builders : c # b => bpc'[c] = bpc[c] /\ omitted'[c] = omitted[c]
      BY <1>t, <2>4 DEF unlock_view_dir, WTypes, Types
    <3> QED BY <1>0, <1>n, <1>t, <3>1, <3>2, LosslessStep
  <2>5. ASSUME NEW u \in chan[b], Consume(b, u) PROVE Lossless'
    <3>1. UNCHANGED <<bpc, omitted, holes>>
      BY <2>5 DEF Consume
    <3>2. \A c \in Builders : consumer'[c] \in {consumer[c], "failed"}
      BY <1>t, <2>5 DEF Consume, WTypes
    <3> QED BY <1>0, <3>1, <3>2 DEF Lossless
  <2>6. CASE AlreadyBuilt(b) \/ NotFresh(b) \/ materialize_view_dir(b) \/ lock_view_dir(b)
             \/ LockFails(b) \/ Recheck(b) \/ register_view(b)
             \/ \E u \in todo[b] : Produce(b, u)
    <3>1. UNCHANGED <<consumer, omitted, holes>> /\ bpc[b] # "unlock"
      BY <2>6 DEF AlreadyBuilt, NotFresh, materialize_view_dir, lock_view_dir, LockFails, Recheck,
         register_view, Produce
    <3>2. \A c \in Builders : c # b => bpc'[c] = bpc[c]
      BY <1>t, <2>6 DEF AlreadyBuilt, NotFresh, materialize_view_dir, lock_view_dir, LockFails, Recheck,
         register_view, Produce, Types
    <3> QED BY <1>0, <1>n, <1>t, <3>1, <3>2, LosslessStep
  <2> QED BY <1>2, <2>1, <2>2, <2>3, <2>4, <2>5, <2>6 DEF BuilderStep
<1>3. ASSUME NEW b \in Builders, BuilderFault(b) PROVE Lossless'
  <2>1. faults' # 0
    BY <1>3, <1>t DEF BuilderFault, GatherFails, ScanFails, WriteFails, ConsumerThrows, Crash, Fails
  <2>2. "read" \notin Faults /\ "throw" \notin Faults
    BY <2>1 DEF NothingLost
  <2>3. CASE WriteFails(b)
    <3>1. UNCHANGED <<bpc, omitted, holes>> /\ \A c \in Builders : consumer'[c] \in {consumer[c], "failed"}
      BY <1>t, <2>3 DEF WriteFails, WTypes
    <3> QED BY <1>0, <3>1 DEF Lossless
  <2>4. CASE Crash(b)
    <3>1. consumer'[b] = "reads" /\ holes' = holes /\ omitted'[b] = {}
      BY <1>t, <2>4 DEF Crash, Forget, WTypes
    <3>2. \A c \in Builders : c # b =>
            bpc'[c] = bpc[c] /\ consumer'[c] = consumer[c] /\ omitted'[c] = omitted[c]
      BY <1>t, <2>4 DEF Crash, Forget, WTypes, Types
    <3> QED BY <1>0, <1>n, <1>t, <3>1, <3>2, LosslessStep
  <2> QED
    BY <1>3, <2>2, <2>3, <2>4 DEF BuilderFault, GatherFails, ScanFails, ConsumerThrows, Fails
<1>4. ASSUME NEW r \in Readers, ReaderStep(r) \/ ReadFails(r) PROVE Lossless'
  <2>1. CASE PlanBases(r) \/ Size(r) \/ Scan(r) \/ ReadFails(r)
    BY <1>1, <2>1 DEF PlanBases, Size, Scan, ReadFails, ScanBut
  <2>2. ASSUME NEW d \in left[r], Visit(r, d) PROVE Lossless'
    <3>1. /\ UNCHANGED <<bpc, consumer, omitted>>
          /\ holes' = holes \/ holes' = [holes EXCEPT ![d] = {}]
      BY <2>2 DEF Visit
    <3>2. \A e \in Dirs : holes'[e] = {}
      BY <1>0, <1>t, <3>1 DEF WTypes
    <3> QED BY <1>0, <3>1, <3>2 DEF Lossless
  <2> QED BY <1>4, <2>1, <2>2 DEF ReaderStep
<1>5. CASE AppendChunk \/ Terminating \/ UNCHANGED vars
  BY <1>1, <1>5 DEF AppendChunk, Terminating, vars
<1> QED BY <1>2, <1>3, <1>4, <1>5 DEF Next, Fault

LEMMA WholeOnce ==
  ASSUME NEW d, Trusted(d)
  PROVE  \E n \in 1..Len(parts[d]) :
           /\ \A u \in (1..base) \ holes[d] : Selected(d[1], u) # {} => Copies(d, n, u) = 1
           /\ faults = 0 => n = Len(parts[d])
<1>1. PICK n \in 1..Len(parts[d]) :
        /\ \A u \in Wanted(d[1]) \ holes[d] : \E i \in 1..n : Held(parts[d], n, u) = {i}
        /\ faults = 0 => n = Len(parts[d])
  BY DEF Trusted, WholeBut
<1>2. ASSUME NEW u \in (1..base) \ holes[d], Selected(d[1], u) # {}
      PROVE  Copies(d, n, u) = 1
  <2>1. PICK i \in 1..n : Held(parts[d], n, u) = {i}
    BY <1>1, <1>2 DEF Wanted
  <2>2. Cardinality({i}) = 1
    BY FS_Singleton
  <2> QED BY <2>1, <2>2 DEF Copies, Held
<1> QED BY <1>1, <1>2

\* A view that readers trust holds what the trace selects, except for what its
\* build lost to a failed or cancelled scan or to a consumer that threw
\* (holes): whoever crashes, fails to write or removes directories, the parts
\* of the last build hold the rows of each other chunk once; nothing is lost if
\* scans and consumers never fail, and without any fault there are no more
\* parts.  The hypothesis is that nobody appends between
\* materialize_view_dir() and register_view(), which takes the identity of the
\* trace a second time.
THEOREM TrustedViewIsWhole ==
  ASSUME "append" \notin Faults
  PROVE  Spec => []RegisteredIsWhole
<1> DEFINE All == IInv /\ ChosenNow /\ WInv /\ Lossless
<1>1. Init => All
  BY InitInv, ChosenInit, WInit DEF Init, Lossless
<1>2. All /\ [Next]_vars => All'
  BY NextInv, ChosenNext, WholeNext, LosslessNext
<1>3. All => RegisteredIsWhole
  BY WholeOnce DEF IInv, Types, WInv, TrustedIsWhole, RegisteredIsWhole, Idle, Lossless
<1> QED BY <1>1, <1>2, <1>3, PTL DEF Spec

-----------------------------------------------------------------------------
(* AnswerIsRight.  A view that a reader has chosen stays what it is as long  *)
(* as its version is the trace's; later it may be removed, but is never      *)
(* built again.                                                              *)

\* What a view promises: the chunks of its version that its predicate selects.
Promised(d) == {u \in 1..d[2] : Selected(d[1], u) # {}}

Complete(d) ==
  \E n \in 1..Len(parts[d]) :
    /\ \A u \in Promised(d) \ holes[d] : \E i \in 1..n : Held(parts[d], n, u) = {i}
    /\ faults = 0 => n = Len(parts[d])

SealedIsWhole ==
  \A d \in Dirs : manifest[d] \in Versions => manifest[d] = d[2] /\ Complete(d)

\* No part has rows of a chunk that is younger than its directory.
OldChunks ==
  /\ \A d \in Dirs : \A i \in 1..Len(parts[d]) : parts[d][i] \subseteq 1..d[2]
  /\ \A b \in Builders : bpc[b] = "build" => todo[b] \union chan[b] \subseteq 1..dir[b][2]

\* A view that is whole, or gone for good.
Steady(d) == manifest[d] = d[2] \/ (parts[d] = <<>> /\ d[2] < base)

Serves(r, d) ==
  d \in Dirs /\ d[2] = seen[r] /\ ask[r] \in Subsumed[d[1]] /\ Steady(d)

Right(r) ==
  \E v \in seen[r]..until[r] : \A e \in Rows :
    IF e \in Matching[ask[r]] /\ e \in UNION {Chunks[u] : u \in 1..v}
    THEN /\ Returned(r, e) = 0 => e \in UNION {Chunks[u] : u \in missed[r]}
         /\ faults = 0 => Returned(r, e) <= 1
    ELSE Returned(r, e) = 0

\* What a reader may rely on, of the directory it is to look at, and of the
\* best so far.
Choice(r) ==
  LET d == best[r].dir IN
  d # NoDir =>
    /\ Serves(r, d)
    /\ best[r].files \in Nat \ {0}
    /\ parts[d] # <<>> => best[r].files = Len(parts[d])

Reading(r) ==
  /\ rpc[r] = "plan" => best[r].dir = NoDir
  /\ rpc[r] # "plan" => seen[r] \in First..base
  /\ rpc[r] = "size" => Serves(r, at[r])
  /\ Choice(r)
  /\ rpc[r] = "done" => Right(r)

ReaderTypes ==
  /\ DOMAIN rpc = Readers /\ DOMAIN seen = Readers /\ DOMAIN at = Readers
  /\ DOMAIN got = Readers /\ DOMAIN until = Readers /\ DOMAIN best = Readers
  /\ DOMAIN missed = Readers
  /\ \A r \in Readers : DOMAIN best[r] = {"dir", "files", "bytes"}

Readings == ReaderTypes /\ \A r \in Readers : Reading(r)

AInv == SealedIsWhole /\ Lossless /\ OldChunks /\ Readings

\* Rows are told apart, and a view's predicate contains the questions that it
\* is said to subsume.
Distinct == \A u, v \in 1..Len(Chunks) : u # v => Chunks[u] \intersect Chunks[v] = {}
Sound == \A p \in Plans : \A q \in Subsumed[p] : Matching[q] \intersect Rows \subseteq Matching[p]

\* Builders write in their own directories, during a build.
LEMMA BuilderTouches ==
  ASSUME IInv, WTypes, NEW b \in Builders,
         BuilderStep(b) \/ BuilderFault(b),
         NEW d \in Dirs
  PROVE  /\ base' = base /\ UNCHANGED reader
         /\ \/ manifest'[d] = manifest[d] /\ parts'[d] = parts[d] /\ holes'[d] = holes[d]
            \/ bpc[b] \in {"gather", "build", "register", "write"} /\ d = dir[b]
<1> USE DEF GoB, store, reader
<1>1. CASE AlreadyBuilt(b) \/ NotFresh(b) \/ materialize_view_dir(b) \/ lock_view_dir(b)
           \/ LockFails(b) \/ Recheck(b)
  BY <1>1 DEF AlreadyBuilt, NotFresh, materialize_view_dir, lock_view_dir, LockFails, Recheck
<1>2. CASE Gather(b)
  BY <1>2 DEF Gather, StartBuild, WTypes
<1>3. CASE \E u \in todo[b] : Produce(b, u)
  BY <1>3 DEF Produce
<1>4. CASE \E u \in chan[b] : Consume(b, u)
  BY <1>4 DEF Consume, WTypes
<1>5. CASE Join(b) \/ unlock_view_dir(b) \/ ScanFails(b) \/ WriteFails(b) \/ Crash(b)
  BY <1>5 DEF Join, unlock_view_dir, ScanFails, WriteFails, Crash
<1>6. CASE register_view(b) \/ WriteManifest(b)
  BY <1>6 DEF register_view, WriteManifest, IInv, Types, WTypes
<1>7. CASE GatherFails(b)
  BY <1>7 DEF GatherFails, StartBuild, WTypes
<1>8. CASE \E us \in SUBSET chan[b] : ConsumerThrows(b, us)
  BY <1>8 DEF ConsumerThrows, WTypes
<1> QED BY <1>1, <1>2, <1>3, <1>4, <1>5, <1>6, <1>7, <1>8 DEF BuilderStep, BuilderFault

\* Of what was there a removal leaves nothing.
LEMMA ReaderTouches ==
  ASSUME IInv, WTypes, NEW r \in Readers, ReaderStep(r) \/ ReadFails(r), NEW d \in Dirs
  PROVE  /\ base' = base /\ UNCHANGED builder
         /\ \/ manifest'[d] = manifest[d] /\ parts'[d] = parts[d] /\ holes'[d] = holes[d]
            \/ /\ manifest[d] \in Versions /\ manifest[d] # base
               /\ manifest'[d] = NoManifest /\ parts'[d] = <<>>
<1>1. CASE PlanBases(r) \/ Size(r) \/ Scan(r) \/ ReadFails(r)
  BY <1>1 DEF PlanBases, Size, Scan, ReadFails, ScanBut, store
<1>2. ASSUME NEW c \in left[r], Visit(r, c) PROVE
         /\ base' = base /\ UNCHANGED builder
         /\ \/ manifest'[d] = manifest[d] /\ parts'[d] = parts[d] /\ holes'[d] = holes[d]
            \/ /\ manifest[d] \in Versions /\ manifest[d] # base
               /\ manifest'[d] = NoManifest /\ parts'[d] = <<>>
  <2>1. CASE c \in dirs /\ manifest[c] \in Versions /\ manifest_is_stale(c)
    BY <1>2, <2>1 DEF Visit, IInv, Types, WTypes, manifest_is_stale
  <2>2. CASE ~(c \in dirs /\ manifest[c] \in Versions /\ manifest_is_stale(c))
    BY <1>2, <2>2 DEF Visit
  <2> QED BY <1>2, <2>1, <2>2
<1> QED BY <1>1, <1>2 DEF ReaderStep

\* A view that is whole stays as it is, until it is removed for good.
LEMMA SteadyNext ==
  ASSUME IInv, ChosenNow, WInv, [Next]_vars, NEW d \in Dirs, Steady(d)
  PROVE  Steady(d)' /\ parts'[d] \in {parts[d], <<>>}
<1>0. d[2] \in Int /\ d[2] > 0 /\ base \in Int
  BY DirsAreDated, VersionsAreInts DEF IInv, Types
<1>w. WTypes
  BY DEF WInv
<1>1. CASE manifest'[d] = manifest[d] /\ parts'[d] = parts[d] /\ base' = base
  BY <1>1 DEF Steady
<1>2. ASSUME NEW b \in Builders, bpc[b] \in {"gather", "build", "register", "write"}, d = dir[b]
      PROVE  FALSE
  <2>1. manifest[d] \in {NoManifest, Torn}
    BY <1>2 DEF WInv, ManifestAtEnd
  <2>2. d[2] = base
    BY <1>2 DEF ChosenNow, Inside
  <2> QED BY <2>1, <2>2, <1>0 DEF Steady, NoManifest, Torn
<1>3. ASSUME NEW b \in Builders, BuilderStep(b) \/ BuilderFault(b)
      PROVE  manifest'[d] = manifest[d] /\ parts'[d] = parts[d] /\ base' = base
  BY <1>w, <1>2, <1>3, BuilderTouches
<1>4. ASSUME NEW r \in Readers, ReaderStep(r) \/ ReadFails(r)
      PROVE  Steady(d)' /\ parts'[d] \in {parts[d], <<>>}
  <2>1. CASE manifest'[d] = manifest[d] /\ parts'[d] = parts[d]
    <3>1. base' = base
      BY <1>w, <1>4, ReaderTouches
    <3> QED BY <1>1, <2>1, <3>1
  <2>2. CASE /\ manifest[d] \in Versions /\ manifest[d] # base
             /\ manifest'[d] = NoManifest /\ parts'[d] = <<>>
    <3>1. base' = base
      BY <1>w, <1>4, ReaderTouches
    <3>2. d[2] <= manifest[d] /\ manifest[d] <= base
      BY <2>2, <1>0, VersionsAreInts DEF IInv, ManifestsInTime, NoManifest, Torn
    <3>3. manifest[d] \in Int
      BY <2>2, VersionsAreInts
    <3>4. d[2] < base
      BY <2>2, <1>0, <3>2, <3>3
    <3> QED BY <2>2, <3>1, <3>4 DEF Steady
  <2> QED BY <1>w, <1>4, <2>1, <2>2, ReaderTouches
<1>5. CASE AppendChunk
  BY <1>5, <1>0 DEF AppendChunk, store, Steady
<1>6. CASE Terminating \/ UNCHANGED vars
  BY <1>6, <1>1 DEF Terminating, vars, store
<1> QED BY <1>1, <1>3, <1>4, <1>5, <1>6 DEF Next, Fault

LEMMA CompleteFrame ==
  ASSUME NEW d, parts'[d] = parts[d], holes'[d] = holes[d], faults' = 0 => faults = 0, Complete(d)
  PROVE  Complete(d)'
BY DEF Complete, Promised

\* A manifest that can be read is that of a build that was finished.
LEMMA SealedNext ==
  ASSUME IInv, ChosenNow, WInv, SealedIsWhole, [Next]_vars
  PROVE  SealedIsWhole'
<1> SUFFICES ASSUME NEW d \in Dirs, manifest'[d] \in Versions
             PROVE  manifest'[d] = d[2] /\ Complete(d)'
  BY DEF SealedIsWhole
<1>0. WTypes /\ (faults' = 0 => faults = 0)
  BY FaultsGrow DEF WInv
<1>1. CASE manifest'[d] = manifest[d] /\ parts'[d] = parts[d] /\ holes'[d] = holes[d]
  BY <1>0, <1>1, CompleteFrame DEF SealedIsWhole
<1>n. NoManifest \notin Versions /\ Torn \notin Versions
  BY VersionsAreInts DEF NoManifest, Torn
<1>2. ASSUME NEW b \in Builders, BuilderStep(b),
             bpc[b] \in {"gather", "build", "register", "write"}, d = dir[b]
      PROVE  manifest'[d] = d[2] /\ Complete(d)'
  <2> USE DEF GoB, store
  <2>1. /\ dir[b] = <<Plan[b], base>>
        /\ bpc[b] # "write" => manifest[d] = NoManifest
        /\ bpc[b] = "write" => Built(b)
    BY <1>2 DEF ChosenNow, Inside, WInv, ManifestAtEnd, BuiltIsWhole
  <2>2. CASE WriteManifest(b)
    <3>1. /\ manifest' = IF d \in dirs THEN [manifest EXCEPT ![d] = base] ELSE manifest
          /\ holes' = IF d \in dirs THEN [holes EXCEPT ![d] = omitted[b]] ELSE holes
          /\ parts' = parts /\ bpc[b] = "write" /\ faults' = faults
      BY <1>2, <2>2 DEF WriteManifest
    <3>2. d \in dirs
      BY <1>2, OwnDirectory DEF Inside
    <3>3. manifest'[d] = base /\ holes'[d] = omitted[b]
      BY <1>0, <3>1, <3>2 DEF IInv, Types, WTypes
    <3>4. d[1] = Plan[b] /\ d[2] = base
      BY <1>2, <2>1
    <3>5. Complete(d)'
      BY <1>2, <2>1, <3>1, <3>3, <3>4 DEF Built, WholeBut, Wanted, Complete, Promised
    <3> QED BY <3>3, <3>4, <3>5
  <2>3. CASE ~WriteManifest(b)
    <3>1. manifest'[d] \in {NoManifest, Torn}
      <4>1. CASE register_view(b)
        BY <1>2, <2>1, <4>1 DEF register_view, IInv, Types
      <4>2. CASE ~register_view(b)
        <5>1. bpc[b] # "write"
          BY <1>2, <2>3 DEF BuilderStep, AlreadyBuilt, NotFresh, materialize_view_dir, lock_view_dir,
             LockFails, Recheck, Gather, StartBuild, Produce, Consume, Join, register_view, unlock_view_dir
        <5>2. manifest' = manifest
          BY <1>2, <2>3, <4>2 DEF BuilderStep, AlreadyBuilt, NotFresh, materialize_view_dir,
             lock_view_dir, LockFails, Recheck, Gather, StartBuild, Produce, Consume, Join, unlock_view_dir
        <5> QED BY <2>1, <5>1, <5>2
      <4> QED BY <4>1, <4>2
    <3> QED BY <1>n, <3>1
  <2> QED BY <2>2, <2>3
<1>3. ASSUME NEW b \in Builders, BuilderStep(b)
      PROVE  manifest'[d] = d[2] /\ Complete(d)'
  BY <1>0, <1>1, <1>2, <1>3, BuilderTouches
<1>4. ASSUME NEW b \in Builders, BuilderFault(b)
      PROVE  manifest'[d] = d[2] /\ Complete(d)'
  <2>1. CASE bpc[b] \in {"gather", "build", "register", "write"} /\ d = dir[b]
    <3>1. manifest[d] \in {NoManifest, Torn}
      BY <2>1 DEF WInv, ManifestAtEnd
    <3>2. manifest' = manifest
      BY <1>4 DEF BuilderFault, GatherFails, StartBuild, ScanFails, WriteFails, ConsumerThrows, Crash, store
    <3> QED BY <1>n, <3>1, <3>2
  <2> QED BY <1>0, <1>1, <1>4, <2>1, BuilderTouches
<1>5. ASSUME NEW r \in Readers, ReaderStep(r) \/ ReadFails(r)
      PROVE  manifest'[d] = d[2] /\ Complete(d)'
  BY <1>0, <1>1, <1>5, <1>n, ReaderTouches
<1>6. CASE AppendChunk \/ Terminating \/ UNCHANGED vars
  BY <1>1, <1>6 DEF AppendChunk, Terminating, vars, store
<1> QED BY <1>3, <1>4, <1>5, <1>6 DEF Next, Fault

\* Opening a part puts nothing into it, or into another.
Within(s, X) == \A i \in 1..Len(s) : s[i] \subseteq X

LEMMA OpenedOld ==
  ASSUME NEW s \in Files, NEW n \in 0..Len(s), NEW X, Within(s, X),
         NEW t, t = Opened(s, n + 1)
  PROVE  t \in Files /\ Within(t, X)
<1>1. t \in Files
  BY OpenedType
<1>2. CASE n + 1 <= Len(s)
  <2>1. t = [s EXCEPT ![n + 1] = {}]
    BY <1>2 DEF Opened
  <2>2. Len(t) = Len(s) /\ \A i \in 1..Len(s) : t[i] = {} \/ t[i] = s[i]
    BY <2>1 DEF Files
  <2> QED BY <1>1, <2>2 DEF Within
<1>3. CASE ~(n + 1 <= Len(s))
  <2>1. t = Append(s, {})
    BY <1>3 DEF Opened
  <2>2. Len(t) = Len(s) + 1 /\ \A i \in 1..Len(t) : t[i] = {} \/ (i \in 1..Len(s) /\ t[i] = s[i])
    BY <2>1 DEF Files
  <2> QED BY <1>1, <2>2 DEF Within
<1> QED BY <1>2, <1>3

PartsOld == \A d \in Dirs : Within(parts[d], 1..d[2])
LoadsOld == \A b \in Builders : bpc[b] = "build" => todo[b] \union chan[b] \subseteq 1..dir[b][2]

LEMMA PartsOldStart ==
  ASSUME WTypes, NEW d \in Dirs, NEW X, Within(parts[d], X),
         NEW b \in Builders, NEW units, StartBuild(b, units)
  PROVE  Within(parts'[d], X)
<1>0. parts[d] \in Files /\ 0 \in 0..Len(parts[d])
  BY DEF WTypes, Files
<1>1. parts'[d] = parts[d] \/ parts'[d] = Opened(parts[d], 0 + 1)
  BY DEF StartBuild, WTypes
<1>2. CASE parts'[d] = Opened(parts[d], 0 + 1)
  BY <1>0, <1>2, OpenedOld
<1> QED BY <1>1, <1>2

LEMMA PartsOldBuild ==
  ASSUME IInv, ChosenNow, WInv, OldChunks, NEW b \in Builders, BuilderStep(b)
  PROVE  PartsOld'
<1> SUFFICES ASSUME NEW d \in Dirs
             PROVE  Within(parts'[d], 1..d[2])
  BY DEF PartsOld
<1> USE DEF GoB, store
<1>0. Within(parts[d], 1..d[2])
  BY DEF OldChunks, Within
<1>t. WTypes /\ parts[d] \in Files
  BY DEF WInv, WTypes
<1>n. Len(parts[d]) \in Nat
  BY <1>t DEF Files
<1>1. CASE Gather(b)
  <2> PICK X : X = 1..d[2]
    OBVIOUS
  <2>1. Within(parts'[d], X)
    BY <1>0, <1>1, <1>t, PartsOldStart DEF Gather
  <2> QED BY <2>1
<1>2. ASSUME NEW u \in chan[b], Consume(b, u)
      PROVE  Within(parts'[d], 1..d[2])
  <2>1. CASE parts'[d] = parts[d]
    BY <1>0, <2>1
  <2>2. CASE parts'[d] # parts[d]
    <3> PICK s : s = parts[d]
      OBVIOUS
    <3> PICK p : p = part[b]
      OBVIOUS
    <3> PICK w : w = [s EXCEPT ![p] = @ \union {u}]
      OBVIOUS
    <3> PICK X : X = 1..d[2]
      OBVIOUS
    <3>1. d = dir[b] /\ bpc[b] = "build"
      BY <1>2, <1>t, <2>2 DEF Consume, WTypes
    <3>2. p \in 1..Len(s) /\ s \in Files /\ Len(s) \in Nat
      BY <1>t, <1>n, <3>1 DEF WInv, Packing, Packed
    <3>3. u \in X /\ u \in Nat
      BY <3>1, <1>t DEF OldChunks, WTypes
    <3>4. Within(s, X)
      BY <1>0
    <3>5. w \in Files /\ Len(w) = Len(s) /\ Within(w, X)
      <4>1. w \in Files /\ Len(w) = Len(s)
        BY <3>2, <3>3, WrittenType
      <4>2. \A i \in 1..Len(s) : w[i] = s[i] \/ w[i] = s[i] \union {u}
        BY <3>2 DEF Files
      <4> QED BY <3>3, <3>4, <4>1, <4>2 DEF Within
    <3>6. parts'[d] = w \/ parts'[d] = Opened(w, p + 1)
      BY <1>2, <1>t, <2>2, <3>1 DEF Consume, WTypes
    <3>7. p \in 0..Len(w)
      BY <3>2, <3>5
    <3>8. CASE parts'[d] = Opened(w, p + 1)
      <4>1. Within(parts'[d], X)
        BY <3>5, <3>7, <3>8, OpenedOld
      <4> QED BY <4>1
    <3> QED BY <3>5, <3>6, <3>8
  <2> QED BY <2>1, <2>2
<1>3. CASE ~Gather(b) /\ ~\E u \in chan[b] : Consume(b, u)
  <2>1. parts' = parts
    BY <1>3 DEF BuilderStep, AlreadyBuilt, NotFresh, materialize_view_dir, lock_view_dir, LockFails,
       Recheck, Produce, Join, register_view, WriteManifest, unlock_view_dir
  <2> QED BY <1>0, <2>1
<1> QED BY <1>1, <1>2, <1>3

LEMMA LoadsOldBuild ==
  ASSUME IInv, ChosenNow, WInv, OldChunks, NEW b \in Builders, BuilderStep(b)
  PROVE  LoadsOld'
<1> SUFFICES ASSUME NEW c \in Builders, bpc'[c] = "build"
             PROVE  todo'[c] \union chan'[c] \subseteq 1..dir'[c][2]
  BY DEF LoadsOld
<1> USE DEF GoB, store
<1>t. WTypes /\ Types
  BY DEF WInv, IInv
<1>1. CASE c = b /\ Gather(b)
  <2>1. dir[b][2] = base /\ dir' = dir
    BY <1>1 DEF Gather, StartBuild, ChosenNow, Inside
  <2>2. todo'[b] = 1..base /\ chan'[b] = {}
    BY <1>1, <1>t DEF Gather, StartBuild, WTypes
  <2> QED BY <1>1, <2>1, <2>2
<1>2. CASE bpc[c] = "build" /\ dir'[c] = dir[c] /\ todo'[c] \union chan'[c] \subseteq todo[c] \union chan[c]
  BY <1>2 DEF OldChunks
<1>3. CASE c # b
  <2>1. bpc'[c] = bpc[c] /\ dir'[c] = dir[c] /\ todo'[c] = todo[c] /\ chan'[c] = chan[c]
    BY <1>3, <1>t DEF BuilderStep, AlreadyBuilt, NotFresh, materialize_view_dir, lock_view_dir, LockFails,
       Recheck, Gather, StartBuild, Produce, Consume, Join, Forget, register_view, WriteManifest, unlock_view_dir,
       Types, WTypes
  <2> QED BY <1>2, <2>1
<1>4. CASE c = b /\ ~Gather(b)
  <2>1. CASE \E u \in todo[b] : Produce(b, u)
    BY <1>2, <1>4, <1>t, <2>1 DEF Produce, WTypes
  <2>2. CASE \E u \in chan[b] : Consume(b, u)
    BY <1>2, <1>4, <1>t, <2>2 DEF Consume, WTypes
  <2>3. CASE ~(\E u \in todo[b] : Produce(b, u)) /\ ~\E u \in chan[b] : Consume(b, u)
    <3>1. bpc'[b] # "build"
      BY <1>4, <1>t, <2>3 DEF BuilderStep, AlreadyBuilt, NotFresh, materialize_view_dir, lock_view_dir,
         LockFails, Recheck, Join, register_view, WriteManifest, unlock_view_dir, Types
    <3> QED BY <1>4, <3>1
  <2> QED BY <2>1, <2>2, <2>3
<1> QED BY <1>1, <1>3, <1>4

LEMMA FaultOld ==
  ASSUME IInv, ChosenNow, WInv, OldChunks, NEW b \in Builders, BuilderFault(b)
  PROVE  OldChunks'
<1> USE DEF store, GoB
<1>t. WTypes /\ Types
  BY DEF WInv, IInv
<1>0. \A d \in Dirs : Within(parts[d], 1..d[2])
  BY DEF OldChunks, Within
<1>1. CASE GatherFails(b)
  <2>1. PICK units \in SUBSET (1..base) : StartBuild(b, units)
    BY <1>1 DEF GatherFails
  <2>2. \A d \in Dirs : Within(parts'[d], 1..d[2])
    <3> SUFFICES ASSUME NEW d \in Dirs PROVE Within(parts'[d], 1..d[2])
      OBVIOUS
    <3> PICK X : X = 1..d[2]
      OBVIOUS
    <3>1. Within(parts'[d], X)
      BY <1>0, <1>t, <2>1, PartsOldStart
    <3> QED BY <3>1
  <2>3. ASSUME NEW c \in Builders, bpc'[c] = "build"
        PROVE  todo'[c] \union chan'[c] \subseteq 1..dir'[c][2]
    <3>1. CASE c = b
      <4>1. dir[b][2] = base /\ dir' = dir
        BY <2>1 DEF StartBuild, ChosenNow, Inside
      <4>2. todo'[b] = units /\ chan'[b] = {}
        BY <1>t, <2>1 DEF StartBuild, WTypes
      <4> QED BY <3>1, <4>1, <4>2
    <3>2. CASE c # b
      BY <1>t, <2>1, <2>3, <3>2 DEF StartBuild, Types, WTypes, OldChunks
    <3> QED BY <3>1, <3>2
  <2> QED BY <2>2, <2>3 DEF OldChunks, Within
<1>2. CASE ScanFails(b) \/ WriteFails(b)
  <2>1. UNCHANGED <<parts, bpc, dir, chan>>
    BY <1>2 DEF ScanFails, WriteFails
  <2>2. \A c \in Builders : todo'[c] \subseteq todo[c]
    BY <1>2, <1>t DEF ScanFails, WriteFails, WTypes
  <2> QED BY <2>1, <2>2 DEF OldChunks
<1>3. ASSUME NEW us \in SUBSET chan[b], ConsumerThrows(b, us) PROVE OldChunks'
  <2>1. UNCHANGED <<bpc, dir, todo>> /\ \A c \in Builders : chan'[c] \subseteq chan[c]
    BY <1>3, <1>t DEF ConsumerThrows, WTypes
  <2>2. ASSUME NEW d \in Dirs PROVE Within(parts'[d], 1..d[2])
    <3> PICK s : s = parts[d]
      OBVIOUS
    <3> PICK w : w = [s EXCEPT ![part[b]] = {}]
      OBVIOUS
    <3>1. parts'[d] = s \/ parts'[d] = w
      BY <1>3, <1>t DEF ConsumerThrows, WTypes
    <3>2. s \in Files
      BY <1>t DEF WTypes
    <3>3. Len(w) = Len(s) /\ \A i \in 1..Len(s) : w[i] = s[i] \/ w[i] = {}
      BY <3>2 DEF Files
    <3> QED BY <1>0, <3>1, <3>3 DEF Within
  <2> QED BY <2>1, <2>2 DEF OldChunks, Within
<1>4. CASE Crash(b)
  <2>1. \A c \in Builders : bpc'[c] = "build" =>
          bpc[c] = "build" /\ dir'[c] = dir[c] /\ todo'[c] = todo[c] /\ chan'[c] = chan[c]
    BY <1>4, <1>t DEF Crash, Forget, Types, WTypes
  <2>2. parts' = parts
    BY <1>4 DEF Crash
  <2> QED BY <2>1, <2>2 DEF OldChunks
<1> QED BY <1>1, <1>2, <1>3, <1>4 DEF BuilderFault

LEMMA OldNext ==
  ASSUME IInv, ChosenNow, WInv, OldChunks, [Next]_vars
  PROVE  OldChunks'
<1> USE DEF store, builder
<1>t. WTypes /\ Types
  BY DEF WInv, IInv
<1>1. ASSUME NEW b \in Builders, BuilderStep(b) PROVE OldChunks'
  BY <1>1, PartsOldBuild, LoadsOldBuild DEF PartsOld, LoadsOld, OldChunks, Within
<1>2. ASSUME NEW b \in Builders, BuilderFault(b) PROVE OldChunks'
  BY <1>2, FaultOld
<1>3. ASSUME NEW r \in Readers, ReaderStep(r) \/ ReadFails(r) PROVE OldChunks'
  <2>1. \A d \in Dirs : parts'[d] = parts[d] \/ parts'[d] = <<>>
    BY <1>3, <1>t, ReaderTouches
  <2>2. UNCHANGED <<bpc, dir, todo, chan>>
    BY <1>3 DEF ReaderStep, ReadFails, PlanBases, Visit, Size, Scan, ScanBut
  <2>3. \A i \in 1..Len(<<>>) : FALSE
    OBVIOUS
  <2> QED BY <2>1, <2>2, <2>3 DEF OldChunks
<1>4. CASE AppendChunk \/ Terminating \/ UNCHANGED vars
  BY <1>4 DEF AppendChunk, Terminating, vars, OldChunks
<1> QED BY <1>1, <1>2, <1>3, <1>4 DEF Next, Fault

LEMMA ReturnedFrame ==
  ASSUME NEW r, got'[r] = got[r], best'[r].dir = best[r].dir, ask'[r] = ask[r], NEW e
  PROVE  Returned(r, e)' = Returned(r, e)
<1> DEFINE S == {p \in got[r] : /\ e \in Chunks[p[2]]
                                /\ best[r].dir # NoDir => e \in Matching[best[r].dir[1]]
                                /\ e \in Matching[ask[r]]}
<1>1. S' = S
  OBVIOUS
<1>2. Returned(r, e) = Cardinality(S) /\ Returned(r, e)' = Cardinality(S')
  BY DEF Returned
<1> HIDE DEF S
<1> QED BY <1>1, <1>2

\* An answer is not made wrong by what happens later.
LEMMA RightFrame ==
  ASSUME NEW r, got'[r] = got[r], best'[r] = best[r], ask'[r] = ask[r],
         seen'[r] = seen[r], until'[r] = until[r], missed'[r] = missed[r],
         faults' = 0 => faults = 0, Right(r)
  PROVE  Right(r)'
<1> DEFINE Fine(n, e, v, q, lost, f) ==
      IF e \in Matching[q] /\ e \in UNION {Chunks[u] : u \in 1..v}
      THEN /\ n = 0 => e \in UNION {Chunks[u] : u \in lost}
           /\ f = 0 => n <= 1
      ELSE n = 0
<1>1. \A e : Returned(r, e)' = Returned(r, e)
  BY ReturnedFrame
<1>2. PICK v \in seen[r]..until[r] : \A e \in Rows :
        Fine(Returned(r, e), e, v, ask[r], missed[r], faults)
  BY DEF Right
<1>3. \A e \in Rows : Fine(Returned(r, e)', e, v, ask'[r], missed'[r], faults')
  <2> SUFFICES ASSUME NEW e \in Rows
               PROVE  Fine(Returned(r, e)', e, v, ask'[r], missed'[r], faults')
    OBVIOUS
  <2> PICK n : n = Returned(r, e)
    OBVIOUS
  <2>1. Returned(r, e)' = n
    BY <1>1
  <2>2. Fine(n, e, v, ask[r], missed[r], faults)
    BY <1>2
  <2>3. Fine(n, e, v, ask'[r], missed'[r], faults')
    BY <2>2
  <2> QED BY <2>1, <2>3
<1>4. v \in seen'[r]..until'[r]
  OBVIOUS
<1> QED BY <1>3, <1>4 DEF Right

LEMMA ServesNext ==
  ASSUME IInv, ChosenNow, WInv, [Next]_vars, NEW r, NEW d, Serves(r, d),
         seen'[r] = seen[r], ask'[r] = ask[r]
  PROVE  Serves(r, d)' /\ parts'[d] \in {parts[d], <<>>}
BY SteadyNext DEF Serves

LEMMA BaseGrows ==
  ASSUME IInv, [Next]_vars
  PROVE  base \in Int /\ base' \in Int /\ base <= base'
<1>1. base \in Int
  BY VersionsAreInts DEF IInv, Types
<1>2. ASSUME NEW b \in Builders, BuilderStep(b) \/ BuilderFault(b) PROVE base' = base
  BY <1>2 DEF BuilderStep, AlreadyBuilt, NotFresh, materialize_view_dir, lock_view_dir, LockFails,
     Recheck, Gather, StartBuild, Produce, Consume, Join, register_view, WriteManifest, unlock_view_dir,
     BuilderFault, GatherFails, ScanFails, WriteFails, ConsumerThrows, Crash, Fails
<1>3. ASSUME NEW r \in Readers, ReaderStep(r) \/ ReadFails(r) PROVE base' = base
  BY <1>3 DEF ReaderStep, ReadFails, PlanBases, Visit, Size, Scan, ScanBut
<1>4. CASE Terminating \/ UNCHANGED vars
  BY <1>1, <1>4 DEF Terminating, vars
<1>5. CASE AppendChunk
  BY <1>1, <1>5 DEF AppendChunk
<1> QED BY <1>1, <1>2, <1>3, <1>4, <1>5 DEF Next, Fault

LEMMA ChoiceNext ==
  ASSUME IInv, ChosenNow, WInv, [Next]_vars, NEW r, Choice(r),
         seen'[r] = seen[r], ask'[r] = ask[r],
         best'[r].dir = best[r].dir, best'[r].files = best[r].files
  PROVE  Choice(r)'
<1> SUFFICES ASSUME best[r].dir # NoDir
             PROVE  /\ Serves(r, best[r].dir)'
                    /\ best[r].files \in Nat \ {0}
                    /\ parts'[best[r].dir] # <<>> => best[r].files = Len(parts'[best[r].dir])
  BY DEF Choice
<1>1. PICK d : d = best[r].dir
  OBVIOUS
<1>2. /\ Serves(r, d) /\ best[r].files \in Nat \ {0}
      /\ parts[d] # <<>> => best[r].files = Len(parts[d])
  BY <1>1 DEF Choice
<1>3. Serves(r, d)' /\ parts'[d] \in {parts[d], <<>>}
  BY <1>2, ServesNext
<1>4. best'[r].dir = d
  BY <1>1
<1>5. Serves(r, best[r].dir)'
  BY <1>3, <1>4 DEF Serves, Steady
<1> QED BY <1>1, <1>2, <1>3, <1>5

\* A reader that does not move itself.
LEMMA ReadingOther ==
  ASSUME IInv, ChosenNow, WInv, [Next]_vars, NEW r \in Readers, Reading(r),
         rpc'[r] = rpc[r], seen'[r] = seen[r], ask'[r] = ask[r], at'[r] = at[r],
         best'[r] = best[r], got'[r] = got[r], until'[r] = until[r], missed'[r] = missed[r]
  PROVE  Reading(r)'
<1>1. faults' = 0 => faults = 0
  BY FaultsGrow DEF WInv
<1>2. /\ rpc'[r] # "plan" => seen'[r] \in First..base'
      /\ rpc'[r] = "plan" => best'[r].dir = NoDir
  BY BaseGrows, ChunksAssumption DEF Reading
<1>3. rpc'[r] = "size" => Serves(r, at[r])'
  BY ServesNext DEF Reading
<1>4. Choice(r)'
  BY ChoiceNext DEF Reading
<1>5. rpc'[r] = "done" => Right(r)'
  BY <1>1, RightFrame DEF Reading
<1> QED BY <1>2, <1>3, <1>4, <1>5 DEF Reading

LEMMA PlanReading ==
  ASSUME IInv, ChosenNow, WInv, [Next]_vars, ReaderTypes, NEW r \in Readers, Reading(r), PlanBases(r)
  PROVE  Reading(r)'
<1>1. /\ rpc'[r] = "visit" /\ seen'[r] = base /\ base' = base
      /\ best'[r].dir = best[r].dir /\ best[r].dir = NoDir
  BY DEF PlanBases, GoR, ReaderTypes, Reading
<1>2. base \in First..base
  BY ChunksAssumption DEF IInv, Types, Versions
<1>3. Choice(r)'
  BY <1>1 DEF Choice
<1> QED BY <1>1, <1>2, <1>3 DEF Reading

\* What it is to size is a view of the version it planned for, finished then.
LEMMA VisitReading ==
  ASSUME IInv, ChosenNow, WInv, SealedIsWhole, [Next]_vars, ReaderTypes, NEW r \in Readers,
         Reading(r), NEW d, Visit(r, d)
  PROVE  Reading(r)'
<1> DEFINE match == /\ d \in dirs /\ manifest[d] \in Versions /\ manifest[d] = base
                    /\ manifest[d] = seen[r] /\ ask[r] \in Subsumed[d[1]]
<1>1. /\ UNCHANGED <<base, ask, seen, best, got, until>>
      /\ rpc[r] = "visit" /\ rpc'[r] = IF match THEN "size" ELSE "visit"
      /\ match => at'[r] = d /\ UNCHANGED <<manifest, parts>>
  BY DEF Visit, GoR, ReaderTypes, manifest_is_stale, manifest_matches
<1>2. seen'[r] \in First..base'
  BY <1>1 DEF Reading
<1>3. Choice(r)'
  BY <1>1, ChoiceNext DEF Reading
<1>4. ASSUME match PROVE Serves(r, at[r])'
  <2>1. d \in Dirs /\ manifest[d] = d[2]
    BY <1>4 DEF IInv, Types, SealedIsWhole
  <2> QED BY <1>1, <1>4, <2>1 DEF Serves, Steady
<1> QED BY <1>1, <1>2, <1>3, <1>4 DEF Reading

LEMMA SizeReading ==
  ASSUME IInv, ChosenNow, WInv, [Next]_vars, ReaderTypes, NEW r \in Readers, Reading(r), Size(r)
  PROVE  Reading(r)'
<1>1. /\ UNCHANGED <<base, parts, manifest, ask, seen, got, until>>
      /\ rpc[r] = "size" /\ rpc'[r] = "visit"
      /\ \/ best' = best
         \/ /\ parts[at[r]] # <<>>
            /\ best'[r].dir = at[r] /\ best'[r].files = Len(parts[at[r]])
  BY DEF Size, GoR, ReaderTypes, store
<1>2. seen'[r] \in First..base'
  BY <1>1 DEF Reading
<1>3. CASE best' = best
  <2>1. Choice(r)'
    BY <1>1, <1>3, ChoiceNext DEF Reading
  <2> QED BY <1>1, <1>2, <2>1 DEF Reading
<1>4. CASE /\ parts[at[r]] # <<>>
           /\ best'[r].dir = at[r] /\ best'[r].files = Len(parts[at[r]])
  <2> PICK d : d = at[r]
    OBVIOUS
  <2>1. Serves(r, d)
    BY <1>1 DEF Reading
  <2>2. Serves(r, best[r].dir)'
    BY <1>1, <1>4, <2>1 DEF Serves, Steady
  <2>3. Len(parts[d]) \in Nat \ {0}
    BY <1>4, <2>1 DEF Serves, WInv, WTypes, Files
  <2>4. Choice(r)'
    BY <1>1, <1>4, <2>2, <2>3 DEF Choice
  <2> QED BY <1>1, <1>2, <2>4 DEF Reading
<1> QED BY <1>1, <1>3, <1>4

\* What Returned counts.
Hits(r, e) == {p \in got[r] : /\ e \in Chunks[p[2]]
                              /\ best[r].dir # NoDir => e \in Matching[best[r].dir[1]]
                              /\ e \in Matching[ask[r]]}

LEMMA OneHit ==
  ASSUME NEW r, NEW e, NEW p, Hits(r, e)' = {p}
  PROVE  Returned(r, e)' = 1
BY FS_Singleton DEF Hits, Returned

LEMMA NoHit ==
  ASSUME NEW r, NEW e, Hits(r, e)' = {}
  PROVE  Returned(r, e)' = 0
BY FS_EmptySet DEF Hits, Returned

LEMMA SomeHit ==
  ASSUME NEW r, NEW e, IsFiniteSet(got'[r]), Hits(r, e)' # {}
  PROVE  Returned(r, e)' > 0
<1>1. IsFiniteSet(Hits(r, e)')
  BY FS_Subset DEF Hits
<1>2. Cardinality(Hits(r, e)') \in Nat /\ Cardinality(Hits(r, e)') # 0
  BY <1>1, FS_CardinalityType, FS_EmptySet
<1>3. Returned(r, e)' = Cardinality(Hits(r, e)')
  BY DEF Returned, Hits
<1> QED BY <1>2, <1>3

\* After a scan of the trace as it is, some chunks of which could not be read.
LEMMA TraceAnswer ==
  ASSUME Distinct, NEW r, best'[r].dir = NoDir, base' \in 1..Len(Chunks), NEW us,
         got'[r] = {p \in {0} \X (1..base') : p[2] \notin us}, missed'[r] = us,
         seen'[r] \in Int, seen'[r] <= base', until'[r] = base'
  PROVE  Right(r)'
<1> SUFFICES ASSUME NEW e \in Rows
             PROVE  IF e \in Matching[ask'[r]] /\ e \in UNION {Chunks[u] : u \in 1..base'}
                    THEN \/ Returned(r, e)' = 1
                         \/ Returned(r, e)' = 0 /\ e \in UNION {Chunks[u] : u \in us}
                    ELSE Returned(r, e)' = 0
  <2>1. base' \in seen'[r]..until'[r]
    OBVIOUS
  <2> QED BY <2>1 DEF Right
<1>1. CASE e \in Matching[ask'[r]] /\ e \in UNION {Chunks[u] : u \in 1..base'}
  <2>1. PICK u \in 1..base' : e \in Chunks[u]
    BY <1>1
  <2>2. \A v \in 1..base' : e \in Chunks[v] => v = u
    BY <2>1, ChunksAssumption DEF Distinct
  <2>3. CASE u \notin us
    <3>1. Hits(r, e)' = {<<0, u>>}
      BY <1>1, <2>1, <2>2, <2>3 DEF Hits
    <3> QED BY <1>1, <3>1, OneHit
  <2>4. CASE u \in us
    <3>1. Hits(r, e)' = {}
      BY <2>2, <2>4 DEF Hits
    <3>2. Returned(r, e)' = 0
      BY <3>1, NoHit
    <3> QED BY <1>1, <2>1, <2>4, <3>2
  <2> QED BY <2>3, <2>4
<1>2. CASE ~(e \in Matching[ask'[r]] /\ e \in UNION {Chunks[u] : u \in 1..base'})
  <2>1. Hits(r, e)' = {}
    BY <1>2 DEF Hits
  <2> QED BY <1>2, <2>1, NoHit
<1> QED BY <1>1, <1>2

\* After a scan of the parts of a whole view, some of which could not be read.
LEMMA ViewAnswer ==
  ASSUME Distinct, Sound, WTypes', NEW r, NEW d \in Dirs, best'[r].dir = d, d # NoDir,
         d[2] = seen'[r], ask'[r] \in Subsumed[d[1]], Complete(d)', Within(parts'[d], 1..d[2]),
         base' \in 1..Len(Chunks), d[2] \in 1..base', until'[r] = base', NEW us,
         got'[r] = {p \in (1..Len(parts'[d])) \X (1..base') :
                      p[2] \in parts'[d][p[1]] /\ p[2] \notin us},
         missed'[r] = holes'[d] \union us, faults' = 0 => missed'[r] = {}
  PROVE  Right(r)'
<1>0. base' \in Int /\ 1..base' \subseteq 1..Len(Chunks) /\ 1..d[2] \subseteq 1..base'
  BY ChunksAssumption
<1>1. PICK n \in 1..Len(parts'[d]) :
        /\ \A u \in Promised(d) \ holes'[d] : \E i \in 1..n : Held(parts'[d], n, u) = {i}
        /\ faults' = 0 => n = Len(parts'[d])
  BY DEF Complete
<1>2. Len(parts'[d]) \in Nat
  BY DEF WTypes, Files
<1>3. IsFiniteSet(got'[r])
  <2>1. IsFiniteSet(1..Len(parts'[d])) /\ IsFiniteSet(1..base')
    <3>1. PICK l \in Int : Len(parts'[d]) = l
      BY <1>2
    <3>2. IsFiniteSet(1..l)
      BY <3>1, FS_Interval
    <3>3. IsFiniteSet(1..base')
      BY <1>0, FS_Interval
    <3> QED BY <3>1, <3>2, <3>3
  <2>2. IsFiniteSet((1..Len(parts'[d])) \X (1..base'))
    BY <2>1, FS_Product
  <2> QED BY <2>2, FS_Subset
<1> SUFFICES ASSUME NEW e \in Rows
             PROVE  IF e \in Matching[ask'[r]] /\ e \in UNION {Chunks[u] : u \in 1..d[2]}
                    THEN /\ Returned(r, e)' = 0 => e \in UNION {Chunks[u] : u \in missed'[r]}
                         /\ faults' = 0 => Returned(r, e)' <= 1
                    ELSE Returned(r, e)' = 0
  <2>1. d[2] \in seen'[r]..until'[r]
    OBVIOUS
  <2> QED BY <2>1 DEF Right
<1>4. CASE e \in Matching[ask'[r]] /\ e \in UNION {Chunks[u] : u \in 1..d[2]}
  <2>1. PICK u \in 1..d[2] : e \in Chunks[u]
    BY <1>4
  <2>2. \A v \in 1..base' : e \in Chunks[v] => v = u
    <3>1. u \in 1..Len(Chunks)
      BY <1>0, <2>1
    <3> QED BY <1>0, <2>1, <3>1 DEF Distinct
  <2>3. e \in Matching[d[1]]
    BY <1>4 DEF Sound, Dirs
  <2>4. CASE u \in missed'[r]
    <3>1. faults' # 0
      BY <2>4
    <3>2. e \in UNION {Chunks[w] : w \in missed'[r]}
      BY <2>1, <2>4
    <3> QED BY <1>4, <3>1, <3>2
  <2>5. CASE u \notin missed'[r]
    <3>1. u \in Promised(d) \ holes'[d]
      BY <2>1, <2>3, <2>5 DEF Promised, Selected
    <3>2. PICK i \in 1..n : Held(parts'[d], n, u) = {i}
      BY <1>1, <3>1
    <3>3. i \in 1..Len(parts'[d]) /\ u \in parts'[d][i]
      BY <3>2, <1>1, <1>2 DEF Held
    <3>4. <<i, u>> \in Hits(r, e)'
      BY <1>4, <2>1, <2>3, <2>5, <3>3 DEF Hits
    <3>5. Returned(r, e)' > 0
      BY <1>3, <3>4, SomeHit
    <3>6. ASSUME faults' = 0 PROVE Returned(r, e)' = 1
      <4>1. n = Len(parts'[d])
        BY <1>1, <3>6
      <4>2. \A p \in Hits(r, e)' : p = <<i, u>>
        <5> SUFFICES ASSUME NEW p \in Hits(r, e)' PROVE p = <<i, u>>
          OBVIOUS
        <5>1. p \in (1..Len(parts'[d])) \X (1..base') /\ p[2] \in parts'[d][p[1]] /\ e \in Chunks[p[2]]
          BY DEF Hits
        <5>2. p[2] = u
          BY <2>2, <5>1
        <5>3. p[1] \in Held(parts'[d], n, u)
          BY <4>1, <5>1, <5>2 DEF Held
        <5> QED BY <3>2, <5>1, <5>2, <5>3
      <4>3. Hits(r, e)' = {<<i, u>>}
        BY <3>4, <4>2
      <4> QED BY <4>3, FS_Singleton DEF Returned, Hits
    <3> QED BY <1>4, <3>5, <3>6
  <2> QED BY <2>4, <2>5
<1>5. CASE ~(e \in Matching[ask'[r]] /\ e \in UNION {Chunks[u] : u \in 1..d[2]})
  <2>1. Hits(r, e)' = {}
    <3> SUFFICES ASSUME NEW p \in Hits(r, e)' PROVE FALSE
      OBVIOUS
    <3>1. p \in (1..Len(parts'[d])) \X (1..base') /\ p[2] \in parts'[d][p[1]]
      BY DEF Hits
    <3>2. p[2] \in 1..d[2]
      BY <3>1 DEF Within
    <3> QED BY <1>5, <3>2 DEF Hits
  <2> QED BY <1>5, <2>1, NoHit
<1> QED BY <1>4, <1>5

\* The view has been removed since it was chosen: there is nothing to scan.
LEMMA NoAnswer ==
  ASSUME NEW r, got'[r] = {}, 1..Len(Chunks) \subseteq missed'[r],
         base' \in seen'[r]..until'[r]
  PROVE  Right(r)'
<1>1. \A e : Returned(r, e)' = 0
  <2> SUFFICES ASSUME NEW e PROVE Returned(r, e)' = 0
    OBVIOUS
  <2>1. Hits(r, e)' = {}
    BY DEF Hits
  <2> QED BY <2>1, NoHit
<1>2. \A e \in Rows : e \in UNION {Chunks[u] : u \in missed'[r]}
  BY DEF Rows
<1>3. 0 <= 1
  OBVIOUS
<1> QED BY <1>1, <1>2, <1>3 DEF Right

LEMMA ScanReading ==
  ASSUME Distinct, Sound, IInv, ChosenNow, WInv, SealedIsWhole, Lossless, OldChunks, [Next]_vars,
         ReaderTypes, NEW r \in Readers, Reading(r), Scan(r) \/ ReadFails(r)
  PROVE  Reading(r)'
<1>0. PICK us : /\ ScanBut(r, us)
                /\ us = {} \/ faults' # 0
  <2>1. faults \in Nat
    BY DEF WInv, WTypes
  <2> QED BY <2>1 DEF Scan, ReadFails, Fails
<1>1. /\ UNCHANGED <<base, parts, manifest, holes, ask, seen, best>> /\ until'[r] = base
      /\ rpc[r] = "visit" /\ rpc'[r] = "done" /\ (faults' = 0 => faults = 0)
      /\ got'[r] = {p \in Found(r) : p[2] \notin us} /\ missed'[r] = Lacking(r) \union us
  BY <1>0, FaultsGrow DEF ScanBut, GoR, ReaderTypes, store, WInv
<1>2. seen'[r] \in First..base' /\ base \in 1..Len(Chunks) /\ seen[r] \in Int
  BY <1>1, ChunksAssumption DEF Reading, IInv, Types, Versions
<1>3. Choice(r)'
  BY <1>1, ChoiceNext DEF Reading
<1>4. Right(r)'
  <2>1. CASE best[r].dir = NoDir
    <3>1. Found(r) = {0} \X (1..base) /\ Lacking(r) = {}
      BY <2>1 DEF Found, Lacking
    <3>2. got'[r] = {p \in {0} \X (1..base) : p[2] \notin us} /\ missed'[r] = us
      BY <1>1, <3>1
    <3>3. /\ (best[r].dir = NoDir)' /\ (base \in 1..Len(Chunks))'
          /\ (got[r] = {p \in {0} \X (1..base) : p[2] \notin us})' /\ (missed[r] = us)'
          /\ (seen[r] \in Int)' /\ (seen[r] <= base)' /\ (until[r] = base)'
      BY <1>1, <1>2, <2>1, <3>2
    <3> QED BY <3>3, TraceAnswer
  <2>2. CASE best[r].dir # NoDir
    <3> PICK d : d = best[r].dir
      OBVIOUS
    <3>1. /\ Serves(r, d) /\ best[r].files \in Nat \ {0}
          /\ parts[d] # <<>> => best[r].files = Len(parts[d])
      BY <2>2 DEF Reading, Choice
    <3>2. Found(r) = {p \in (1..Len(parts[d])) \X (1..base) :
                        p[1] <= best[r].files /\ p[2] \in parts[d][p[1]]}
      BY <2>2 DEF Found
    <3>3. CASE parts[d] = <<>>
      <4>1. Len(parts[d]) = 0 /\ ~(best[r].files <= Len(parts[d]))
        BY <3>1, <3>3
      <4>2. Found(r) = {} /\ Lacking(r) = 1..Len(Chunks)
        BY <2>2, <3>2, <4>1 DEF Lacking
      <4>3. got'[r] = {} /\ 1..Len(Chunks) \subseteq missed'[r]
        BY <1>1, <4>2
      <4>4. base' \in seen'[r]..until'[r]
        BY <1>1, <1>2, ChunksAssumption
      <4> QED BY <4>3, <4>4, NoAnswer
    <3>4. CASE parts[d] # <<>>
      <4>1. d \in Dirs /\ d[2] = seen[r] /\ ask[r] \in Subsumed[d[1]] /\ manifest[d] = d[2]
        BY <3>1, <3>4 DEF Serves, Steady
      <4>2. Complete(d) /\ Within(parts[d], 1..d[2])
        BY <4>1, DirsAreDated DEF SealedIsWhole, OldChunks, Within
      <4>3. best[r].files = Len(parts[d]) /\ Len(parts[d]) \in Nat
        BY <3>1, <3>4
      <4>4. got'[r] = {p \in (1..Len(parts[d])) \X (1..base) :
                         p[2] \in parts[d][p[1]] /\ p[2] \notin us}
        <5>1. \A p \in (1..Len(parts[d])) \X (1..base) : p[1] <= Len(parts[d])
          OBVIOUS
        <5> QED BY <1>1, <3>2, <4>3, <5>1
      <4>5. missed'[r] = holes[d] \union us
        BY <1>1, <2>2, <4>3 DEF Lacking
      <4>6. faults' = 0 => missed'[r] = {}
        BY <1>0, <1>1, <4>1, <4>5 DEF Lossless, NothingLost
      <4>7. WTypes' /\ Complete(d)' /\ d[2] \in 1..base
        <5>1. WTypes'
          <6>1. faults' \in Nat
            BY DEF Scan, ReadFails, Fails, WInv, WTypes
          <6> QED BY <1>0, <6>1 DEF WInv, WTypes, ScanBut, store, builder
        <5>2. Complete(d)'
          BY <1>1, <4>2, CompleteFrame
        <5>3. d[2] \in 1..base
          BY <1>1, <1>2, <4>1, ChunksAssumption DEF Reading
        <5> QED BY <5>1, <5>2, <5>3
      <4>8. /\ (best[r].dir = d)' /\ d # NoDir /\ (d[2] = seen[r])' /\ (ask[r] \in Subsumed[d[1]])'
            /\ Within(parts[d], 1..d[2])' /\ (base \in 1..Len(Chunks))' /\ (d[2] \in 1..base)'
            /\ (until[r] = base)'
            /\ (got[r] = {p \in (1..Len(parts[d])) \X (1..base) :
                            p[2] \in parts[d][p[1]] /\ p[2] \notin us})'
            /\ (missed[r] = holes[d] \union us)'
        BY <1>1, <1>2, <2>2, <4>1, <4>2, <4>4, <4>5, <4>7 DEF Within
      <4> QED BY <4>1, <4>6, <4>7, <4>8, ViewAnswer
    <3> QED BY <3>3, <3>4
  <2> QED BY <2>1, <2>2
<1> QED BY <1>1, <1>2, <1>3, <1>4 DEF Reading

LEMMA ReadingInit == Init => Readings
<1> SUFFICES ASSUME Init PROVE Readings
  OBVIOUS
<1>1. ReaderTypes
  BY DEF Init, ReaderTypes
<1>2. \A r \in Readers : rpc[r] = "plan" /\ best[r].dir = NoDir
  BY DEF Init
<1> QED BY <1>1, <1>2 DEF Readings, Reading, Choice

LEMMA ReadingNext ==
  ASSUME Distinct, Sound, IInv, ChosenNow, WInv, AInv, [Next]_vars
  PROVE  Readings'
<1> USE DEF reader
<1>0. ReaderTypes /\ SealedIsWhole /\ Lossless /\ OldChunks /\ \A r \in Readers : Reading(r)
  BY DEF AInv, Readings
<1>1. ASSUME UNCHANGED reader PROVE Readings'
  <2>1. ReaderTypes'
    BY <1>0, <1>1 DEF ReaderTypes
  <2>2. \A r \in Readers : Reading(r)'
    BY <1>0, <1>1, ReadingOther
  <2> QED BY <2>1, <2>2 DEF Readings
<1>2. ASSUME NEW r \in Readers, ReaderStep(r) \/ ReadFails(r) PROVE Readings'
  <2>1. ReaderTypes'
    BY <1>0, <1>2 DEF ReaderStep, ReadFails, PlanBases, Visit, Size, Scan, ScanBut, GoR, ReaderTypes
  <2>2. Reading(r)'
    BY <1>0, <1>2, PlanReading, VisitReading, SizeReading, ScanReading DEF ReaderStep
  <2>3. ASSUME NEW s \in Readers, s # r PROVE Reading(s)'
    <3>1. /\ rpc'[s] = rpc[s] /\ seen'[s] = seen[s] /\ ask'[s] = ask[s] /\ at'[s] = at[s]
          /\ best'[s] = best[s] /\ got'[s] = got[s] /\ until'[s] = until[s]
          /\ missed'[s] = missed[s]
      BY <1>0, <1>2, <2>3
      DEF ReaderStep, ReadFails, PlanBases, Visit, Size, Scan, ScanBut, GoR, ReaderTypes
    <3> QED BY <1>0, <3>1, ReadingOther
  <2> QED BY <2>1, <2>2, <2>3 DEF Readings
<1>3. ASSUME NEW b \in Builders, BuilderStep(b) \/ BuilderFault(b) PROVE UNCHANGED reader
  BY <1>3 DEF BuilderStep, AlreadyBuilt, NotFresh, materialize_view_dir, lock_view_dir, LockFails,
     Recheck, Gather, StartBuild, Produce, Consume, Join, register_view, WriteManifest, unlock_view_dir,
     BuilderFault, GatherFails, ScanFails, WriteFails, ConsumerThrows, Crash, Fails
<1>4. CASE AppendChunk \/ Terminating \/ UNCHANGED vars
  BY <1>1, <1>4 DEF AppendChunk, Terminating, vars
<1> QED BY <1>1, <1>2, <1>3, <1>4 DEF Next, Fault

LEMMA AnswerInit == Init => AInv
<1> SUFFICES ASSUME Init PROVE AInv
  OBVIOUS
<1>1. SealedIsWhole
  BY VersionsAreInts DEF Init, SealedIsWhole, NoManifest
<1>2. OldChunks /\ Lossless
  BY DEF Init, OldChunks, Lossless
<1> QED BY <1>1, <1>2, ReadingInit DEF AInv

\* A read answers with the rows of the trace, whichever view stands in for it,
\* and whatever builders, evictions, crashes and failed writes happen meanwhile:
\* with no others, with each at most once as long as nothing went wrong, and
\* with all but those that a failed or cancelled scan, a consumer that threw or
\* the removal of the view it had chosen took away unreported (missed).
\* As a theorem of the store it takes from the query language that a view is said
\* to subsume only what its predicate contains.
THEOREM AnswersAreRight ==
  ASSUME "append" \notin Faults, Distinct, Sound
  PROVE  Spec => []AnswerIsRight
<1> DEFINE All == IInv /\ ChosenNow /\ WInv /\ AInv
<1>1. Init => All
  BY InitInv, ChosenInit, WInit, AnswerInit
<1>2. All /\ [Next]_vars => All'
  BY NextInv, ChosenNext, WholeNext, SealedNext, LosslessNext, OldNext, ReadingNext DEF AInv
<1>3. All => AnswerIsRight
  BY DEF AInv, Readings, Reading, Right, AnswerIsRight
<1> QED BY <1>1, <1>2, <1>3, PTL DEF Spec
=============================================================================
