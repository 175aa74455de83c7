----------------------------- MODULE IndexStore -----------------------------
(***************************************************************************)
(* The index of a set of trace files in one .dftindex directory, as         *)
(* resolve_and_build_index() keeps it: stat the files, compare with the     *)
(* registry, discard the directory when a source has changed, register the  *)
(* files that need work, parse them while writers commit what is parsed,    *)
(* and sum the root statistics up.  Sources change at any time and the      *)
(* process may die at any step; the database writes no log                  *)
(* (database.cpp:57), so what was not flushed is gone.                      *)
(*                                                                         *)
(* A step that opens the database, commits and closes it is one step:       *)
(* closing flushes.  `data' and `dims' stand for two column families, which *)
(* the database flushes on their own while a handle is open.                *)
(*                                                                         *)
(* The hash of a file samples its size and its first and last 64 KB         *)
(* (helpers.cpp:54-103): a change elsewhere that keeps the size keeps the   *)
(* hash.  The stamp is the mtime, in seconds, with the size; two changes    *)
(* that leave both alike are outside the model, and so is a source that     *)
(* returns to an earlier content, hash or stamp.                            *)
(***************************************************************************)
EXTENDS Naturals, FiniteSets

CONSTANTS Files,        \* the trace files of the directory
          MaxChanges    \* a bound on the changes of the sources

ASSUME FilesFinite == IsFiniteSet(Files)
ASSUME MaxChangesPositive == MaxChanges \in Nat \ {0}

VARIABLES source,       \* content (its version), sampled hash, stamp (mtime, size)
          reg,          \* the registry: hash and stamp of each known file
          draft,        \* what Prepare has read of each file so far
          data, dims,   \* what is stored for each file; the files with dimensions
          diskData, diskDims,   \* the flushed part of both
          root,         \* the root summaries
          pc, todo,     \* where the build stands, the files it works on
          unparsed, parsed,     \* not yet claimed; parsed and not yet written
          lost, behind, \* history: files whose data were lost; the sums were not redone
          blind         \* history: registered files changed past their hash

vars == <<source, reg, draft, data, dims, diskData, diskDims, root, pc, todo,
          unparsed, parsed, lost, behind, blind>>

store == <<reg, data, dims, diskData, diskDims, root>>

Nothing == 0
Unread == 0
NoEntry == [hash |-> 0, stamp |-> 0]
Entries == [hash : Nat, stamp : Nat]
NoRoot == <<"no root">>

Registered == {f \in Files : reg[f] # NoEntry}

TypeOK ==
    /\ source \in [Files -> [content : Nat \ {0}, hash : Nat \ {0}, stamp : Nat \ {0}]]
    /\ reg \in [Files -> Entries] /\ draft \in [Files -> Entries]
    /\ data \in [Files -> SUBSET Nat] /\ diskData \in [Files -> SUBSET Nat]
    /\ dims \subseteq Files /\ diskDims \subseteq Files
    /\ pc \in {"idle", "discard", "prepare", "parse", "summarise"}
    /\ todo \subseteq Files /\ unparsed \subseteq Files
    /\ parsed \in [Files -> Nat]
    /\ lost \subseteq Files /\ behind \in BOOLEAN /\ blind \subseteq Files

Init ==
    /\ source = [f \in Files |-> [content |-> 1, hash |-> 1, stamp |-> 1]]
    /\ reg = [f \in Files |-> NoEntry] /\ root = NoRoot
    /\ draft = reg
    /\ data = [f \in Files |-> {}] /\ diskData = data
    /\ dims = {} /\ diskDims = {}
    /\ pc = "idle" /\ todo = {} /\ unparsed = {}
    /\ parsed = [f \in Files |-> Nothing]
    /\ lost = {} /\ behind = FALSE /\ blind = {}

----------------------------------------------------------------------------
HalfRead(f) == draft[f].hash # Unread /\ draft[f].stamp = Unread

\* The hash that the registry will hold cannot tell this change: it is past the
\* samples, or falls between the reading of the hash and of the mtime and size.
Unnoticed(f, edit) ==
    f \in Registered /\ (edit = "middle" \/ (edit = "ends" /\ HalfRead(f)))

Changes == {c \in Files \X (1..MaxChanges) : c[2] < source[c[1]].stamp}

\* The traced program extends or rewrites a file, rewrites it past the samples
\* of its hash, or only touches it.
Change(f) ==
    /\ Cardinality(Changes) < MaxChanges
    /\ \E edit \in {"ends", "middle", "touch"} :
         LET new == source[f].content + (IF edit = "touch" THEN 0 ELSE 1) IN
         /\ source' = [source EXCEPT ![f] =
                         [content |-> new, stamp |-> @.stamp + 1,
                          hash |-> IF edit = "ends" THEN new ELSE @.hash]]
         /\ blind' = IF Unnoticed(f, edit) THEN blind \cup {f} ELSE blind
    /\ UNCHANGED <<store, draft, pc, todo, unparsed, parsed, lost, behind>>

----------------------------------------------------------------------------
Fresh(f) == reg[f].stamp = source[f].stamp
Stale == {f \in Registered : ~Fresh(f)}

\* The files that need work when the bloom tier is required (`bloom') or not.
Work(bloom) == {f \in Files : f \notin Registered \/ ~Fresh(f)
                              \/ (bloom /\ f \notin dims)}

\* A call that finds every file cached changes nothing.
Resolve(force, bloom) ==
    /\ pc = "idle"
    /\ IF ~force /\ Stale # {}
       THEN pc' = "discard" /\ todo' = {}
       ELSE /\ todo' = IF force THEN Files ELSE Work(bloom)
            /\ todo' # {}
            /\ pc' = "prepare"
    /\ UNCHANGED <<source, store, draft, unparsed, parsed, lost, behind, blind>>

Emptied ==
    /\ reg' = [f \in Files |-> NoEntry] /\ root' = NoRoot
    /\ data' = [f \in Files |-> {}] /\ diskData' = data'
    /\ dims' = {} /\ diskDims' = {}
    /\ lost' = {} /\ behind' = FALSE /\ blind' = {}

\* The directory is removed and everything resolved again.
Discard ==
    /\ pc = "discard"
    /\ Emptied
    /\ todo' = Files /\ pc' = "prepare"
    /\ UNCHANGED <<source, draft, unparsed, parsed>>

\* The removal fails, or the process dies in it, and the call throws.  What is
\* left is whole, or cannot be read, which the next resolve takes for empty.
DiscardFails ==
    /\ pc = "discard"
    /\ \/ Emptied
       \/ UNCHANGED <<store, lost, behind, blind>>
    /\ pc' = "idle"
    /\ UNCHANGED <<source, draft, todo, unparsed, parsed>>

----------------------------------------------------------------------------
\* The build reads the hash of one file after the other, and then its mtime
\* and size, while the file may change.
ReadHash(f) ==
    /\ pc = "prepare" /\ f \in todo /\ draft[f] = NoEntry
    /\ \A g \in Files : ~HalfRead(g)
    /\ draft' = [draft EXCEPT ![f].hash = source[f].hash]
    /\ UNCHANGED <<source, store, pc, todo, unparsed, parsed, lost, behind, blind>>

ReadStamp(f) ==
    /\ pc = "prepare" /\ HalfRead(f)
    /\ draft' = [draft EXCEPT ![f].stamp = source[f].stamp]
    /\ UNCHANGED <<source, store, pc, todo, unparsed, parsed, lost, behind, blind>>

\* Mutant of Outdated: contents are kept when a file is registered again.
Outdated_kept == {}

\* A file whose hash has changed loses its contents, and the root its sums.
Outdated == {f \in todo \cap Registered : reg[f].hash # draft[f].hash}

delete_file_contents(gone) ==
    /\ data' = [f \in Files |-> IF f \in gone THEN {} ELSE data[f]]
    /\ dims' = dims \ gone

\* All the files are registered in one commit, those with the hash they had
\* under their old contents.
Prepare ==
    /\ pc = "prepare" /\ \A f \in todo : draft[f].stamp # Unread
    /\ reg' = [f \in Files |-> IF f \in todo THEN draft[f] ELSE reg[f]]
    /\ draft' = [f \in Files |-> NoEntry]
    /\ delete_file_contents(Outdated)
    /\ root' = IF Outdated = {} THEN root ELSE NoRoot
    /\ diskData' = data' /\ diskDims' = dims'
    /\ blind' = blind \ Outdated
    /\ unparsed' = todo /\ pc' = "parse"
    /\ UNCHANGED <<source, todo, parsed, lost, behind>>

\* A parse worker claims a file; what it reads is the content of that moment.
Parse(f) ==
    /\ pc = "parse" /\ f \in unparsed
    /\ unparsed' = unparsed \ {f}
    /\ parsed' = [parsed EXCEPT ![f] = source[f].content]
    /\ UNCHANGED <<source, store, draft, pc, todo, lost, behind, blind>>

\* An unreadable file is dropped; its entry in the registry stays.
ParseFails(f) ==
    /\ pc = "parse" /\ f \in unparsed
    /\ unparsed' = unparsed \ {f}
    /\ lost' = lost \cup {f}
    /\ UNCHANGED <<source, store, draft, pc, todo, parsed, behind, blind>>

\* A write worker commits a parsed file over what is stored under its keys.
Commit(f) ==
    /\ pc = "parse" /\ parsed[f] # Nothing
    /\ data' = [data EXCEPT ![f] = @ \cup {parsed[f]}]
    /\ dims' = dims \cup {f}
    /\ parsed' = [parsed EXCEPT ![f] = Nothing]
    /\ lost' = lost \ {f}
    /\ UNCHANGED <<source, reg, draft, diskData, diskDims, root, pc, todo,
                   unparsed, behind, blind>>

\* An artifact of the file cannot be written: what precedes it is committed.
\* Or the commit of a batch throws, and none of it is.
WriteFails(f) ==
    /\ pc = "parse" /\ parsed[f] # Nothing
    /\ data' \in {data, [data EXCEPT ![f] = @ \cup {parsed[f]}]}
    /\ dims' \in {dims, dims \cup {f}}
    /\ parsed' = [parsed EXCEPT ![f] = Nothing]
    /\ lost' = lost \cup {f}
    /\ UNCHANGED <<source, reg, draft, diskData, diskDims, root, pc, todo,
                   unparsed, behind, blind>>

\* Memory pressure: one column family reaches the disk, not the other.
FlushData ==
    /\ pc = "parse" /\ diskData' = data
    /\ UNCHANGED <<source, reg, draft, data, dims, diskDims, root, pc, todo,
                   unparsed, parsed, lost, behind, blind>>

FlushDims ==
    /\ pc = "parse" /\ diskDims' = dims
    /\ UNCHANGED <<source, reg, draft, data, dims, diskData, root, pc, todo,
                   unparsed, parsed, lost, behind, blind>>

\* Mutant of Finish: a writer leaves without its last flush.
Finish_unflushed ==
    /\ pc = "parse" /\ unparsed = {}
    /\ diskData' = data /\ diskDims' = dims
    /\ parsed' = [f \in Files |-> Nothing]
    /\ pc' = "summarise"
    /\ UNCHANGED <<source, reg, draft, data, dims, root, todo, unparsed, lost,
                   behind, blind>>

\* The workers are done and have committed; the handle is closed.
Finish ==
    /\ pc = "parse" /\ unparsed = {} /\ \A f \in Files : parsed[f] = Nothing
    /\ diskData' = data /\ diskDims' = dims
    /\ pc' = "summarise"
    /\ UNCHANGED <<source, reg, draft, data, dims, root, todo, unparsed, parsed,
                   lost, behind, blind>>

\* Mutant of Summarise: only the files of this build are summed up.
Summarise_batch ==
    /\ pc = "summarise"
    /\ root' = [f \in todo |-> data[f]]
    /\ behind' = FALSE
    /\ pc' = "idle" /\ todo' = {}
    /\ UNCHANGED <<source, reg, draft, data, dims, diskData, diskDims, unparsed,
                   parsed, lost, blind>>

\* rebuild_root_summaries() over every registered file, and the call returns.
Summarise ==
    /\ pc = "summarise"
    /\ root' = [f \in Registered |-> data[f]]
    /\ behind' = FALSE
    /\ pc' = "idle" /\ todo' = {}
    /\ UNCHANGED <<source, reg, draft, data, dims, diskData, diskDims, unparsed,
                   parsed, lost, blind>>

----------------------------------------------------------------------------
\* The process dies; the next one finds what was flushed.
Crash ==
    /\ pc # "idle"
    /\ data' = diskData /\ dims' = diskDims
    /\ pc' = "idle" /\ todo' = {} /\ unparsed' = {}
    /\ parsed' = [f \in Files |-> Nothing] /\ draft' = [f \in Files |-> NoEntry]
    /\ lost' = lost \cup {f \in Files : \/ f \in unparsed \/ parsed[f] # Nothing
                                        \/ data[f] # diskData[f]}
    /\ behind' = (behind \/ pc \in {"parse", "summarise"})
    /\ UNCHANGED <<source, reg, diskData, diskDims, root, blind>>

Next ==
    \/ \E f \in Files : \/ Change(f) \/ ReadHash(f) \/ ReadStamp(f)
                        \/ Parse(f) \/ ParseFails(f) \/ Commit(f) \/ WriteFails(f)
    \/ \E force, bloom \in BOOLEAN : Resolve(force, bloom)
    \/ Discard \/ DiscardFails \/ Prepare \/ FlushData \/ FlushDims \/ Finish
    \/ Summarise \/ Crash

Spec == Init /\ [][Next]_vars

----------------------------------------------------------------------------
(* What callers rely on *)

\* What resolves as fresh is described by data of the file's present content
\* and of no other, wherever a build was cut short, and whatever of it failed.
\* The exception are registered files that were changed past the samples of
\* their hash, or while the build was between their hash and their mtime, until
\* the directory is discarded or another change shows in the hash: of these a
\* forced or running build keeps the old data under the new stamp, although
\* callers are to "never see a changed source" (resolve_and_build.h:50-51).
FreshIsCurrent ==
    \A f \in Registered \ blind : Fresh(f) => data[f] \subseteq {source[f].content}

\* Between calls a fresh file has all of its data, unless its parse or its write
\* failed, or the process died: the registry claims the tiers before they are
\* built, and no failure takes the claim back.
FreshIsWhole ==
    pc = "idle" =>
      \A f \in Registered \ (lost \cup blind) : Fresh(f) => data[f] = {source[f].content}

\* Between calls the root statistics are the sum of what is stored for the
\* registered files, unless a build died between registering and summing up.
RootIsSum ==
    pc = "idle" /\ ~behind /\ Registered # {} => root = [f \in Registered |-> data[f]]

============================================================================
