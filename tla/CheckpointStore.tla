--------------------------- MODULE CheckpointStore ---------------------------
(***************************************************************************)
(* The directory-backed checkpoint store (sparrow-runtime checkpoint.rs).  *)
(* A commit writes a fresh generation directory chk-<id> (chunks, ACK,     *)
(* MANIFEST), then renames CURRENT onto it, then writes the PUBLISHED      *)
(* marker and prunes old generations.  Every file-system operation is one  *)
(* action, so that an I/O error, a killed process, a power loss or a media *)
(* fault can fall between any two of them.                                 *)
(*                                                                         *)
(* The file system is the weakest one POSIX allows: file data is durable   *)
(* once fsynced, but a directory entry (created, renamed or removed) is    *)
(* durable only after fsync of its directory; until then a power loss may  *)
(* keep or lose each entry independently.                                  *)
(***************************************************************************)
EXTENDS Integers, FiniteSets, FiniteSetsExt

CONSTANTS
    MaxId,        \* bound: checkpoint ids are 1..MaxId
    Generations,  \* CheckpointRetention.generations
    MaxUnits,     \* CheckpointRetention.max_bytes, in payload-sized units
    Requests,     \* ids an operator may name as snapshot_id (pinned on restore)
    LostSyncs,    \* the fsyncs that may fail, or before which the process may
                  \* be killed, so that the next writer goes on over directory
                  \* updates that were not synced
    MaxTrouble,   \* bound: I/O errors, kills and power losses together
    MaxDamage     \* bound: media faults

Ids == 1..MaxId
NoId == 0         \* CURRENT is missing; nothing pinned; nothing in progress
Unreadable == -1  \* CURRENT holds garbage; recovery returned an error

\* The steps of commit_bytes that fsync a directory.
SyncSteps == {"markSync", "pruneSync", "mkdirSync", "chunksSync",
              "manifestSync", "currentSync", "publishSync", "trimSync"}

ASSUME StoreAssumption ==
    /\ MaxId \in Nat \ {0}
    /\ Generations \in Nat \ {0}
    /\ MaxUnits \in Nat \ {0}
    /\ Requests \subseteq Ids
    /\ LostSyncs \subseteq SyncSteps
    /\ MaxTrouble \in Nat
    /\ MaxDamage \in Nat

(***************************************************************************)
(* The entries of one generation: the directory itself, its payload, its   *)
(* ACK, its MANIFEST and its PUBLISHED marker.                             *)
(***************************************************************************)
Entries == {"dir", "chunks", "ack", "manifest", "published"}
Committed == {"dir", "chunks", "ack", "manifest"}

VARIABLES
    seen,     \* seen[i]: the entries of generation i that a process sees
    durable,  \* durable[i]: the entries as of the last fsync of their directory
    cur,      \* what CURRENT says to a process
    curDisk,  \* what CURRENT may say after a power loss
    damaged,  \* damaged[i]: entries of i whose data no longer checks
    up,       \* a process holds WRITER_LOCK
    nextId,   \* CheckpointStore.next_id
    pinned,   \* CheckpointStore.pinned
    pc,       \* where commit_bytes stands
    id,       \* the id commit_bytes is writing
    keep,     \* its `protected` generation
    origin,   \* the checkpoint the running job was restored from, NoId: fresh
    acked,    \* history: ids for which commit_bytes returned Ok
    named,    \* history: ids CURRENT was ever renamed to
    trouble, damage

diskVars == <<seen, durable, cur, curDisk, damaged>>
memVars == <<up, nextId, pinned, pc, id, keep, origin>>
histVars == <<acked, named, trouble, damage>>
vars == <<seen, durable, cur, curDisk, damaged, up, nextId, pinned, pc, id,
          keep, origin, acked, named, trouble, damage>>

Steps == {"idle", "mark", "markSync", "prune", "pruneSync", "reserve", "mkdir",
          "mkdirSync", "chunks", "chunksSync", "ack", "manifest",
          "manifestSync", "current", "currentSync", "publish", "publishSync",
          "trim", "trimSync"}

\* Every variable of the store, on disk and in memory, keeps its type.
TypeOK ==
    /\ seen \in [Ids -> SUBSET Entries]
    /\ durable \in [Ids -> SUBSET Entries]
    /\ cur \in Ids \cup {NoId, Unreadable}
    /\ curDisk \in SUBSET (Ids \cup {NoId, Unreadable})
    /\ damaged \in [Ids -> SUBSET Entries]
    /\ up \in BOOLEAN
    /\ nextId \in Nat
    /\ pinned \in Ids \cup {NoId}
    /\ pc \in Steps
    /\ id \in Ids \cup {NoId}
    /\ keep \in Ids \cup {NoId}
    /\ origin \in Ids \cup {NoId}
    /\ acked \in SUBSET Ids
    /\ named \in SUBSET Ids
    /\ trouble \in 0..MaxTrouble
    /\ damage \in 0..MaxDamage

-----------------------------------------------------------------------------
(* Reading the store.  f is the directory tree that is read.               *)

Present(f) == {i \in Ids : "dir" \in f[i]}

\* load_generation_with: MANIFEST and ACK exist, checksums match
LoadGeneration(f, i) ==
    /\ Committed \subseteq f[i]
    /\ damaged[i] \cap {"chunks", "manifest"} = {}

\* Mutant: any complete MANIFEST counts as published.
WasPublishedUnmarked(f, i) ==
    /\ {"dir", "manifest"} \subseteq f[i]
    /\ "manifest" \notin damaged[i]

\* was_published: the marker carries the checksum of this MANIFEST
WasPublished(f, i) ==
    /\ {"dir", "manifest", "published"} \subseteq f[i]
    /\ damaged[i] \cap {"manifest", "published"} = {}

\* load_latest_valid_except_with: the newest marked generation that loads,
\* older than `skip` unless CURRENT itself could not be read
LatestValid(f, skip) ==
    LET ok == {i \in Ids : /\ skip # Unreadable => i < skip
                           /\ WasPublished(f, i)
                           /\ LoadGeneration(f, i)}
    IN  IF ok = {} THEN Unreadable ELSE Max(ok)

\* recover_any_committed_with, for a CURRENT that says c
RecoverCommitted(f, c) ==
    IF c = NoId THEN NoId
    ELSE IF c \in Ids /\ LoadGeneration(f, c) THEN c
    ELSE LatestValid(f, c)

\* Mutant: counts the generations instead of taking the largest id.
DiskNextCount == Cardinality(Present(seen)) + 1

\* list_generation_ids + 1
DiskNext == Max(Present(seen) \cup {0}) + 1

-----------------------------------------------------------------------------
(* Opening the store and restoring a job from it.                          *)

Init ==
    /\ seen = [i \in Ids |-> {}]
    /\ durable = [i \in Ids |-> {}]
    /\ cur = NoId
    /\ curDisk = {NoId}
    /\ damaged = [i \in Ids |-> {}]
    /\ up = FALSE
    /\ nextId = 1
    /\ pinned = NoId
    /\ pc = "idle"
    /\ id = NoId
    /\ keep = NoId
    /\ origin = NoId
    /\ acked = {}
    /\ named = {}
    /\ trouble = 0
    /\ damage = 0

Opened(from, pin) ==
    /\ ~up
    /\ up' = TRUE
    /\ nextId' = DiskNext
    /\ pinned' = pin
    /\ origin' = from
    /\ UNCHANGED <<diskVars, pc, id, keep, histVars>>

\* resume_latest: restore whenever CURRENT exists or cannot be read
StartResumed ==
    /\ cur # NoId
    /\ RecoverCommitted(seen, cur) \in Ids
    /\ Opened(RecoverCommitted(seen, cur), NoId)

\* Mutant: a store that cannot be read counts as an empty one.
StartFreshOnError ==
    /\ RecoverCommitted(seen, cur) \notin Ids
    /\ Opened(NoId, NoId)

\* resume_latest with neither CURRENT nor any generation
StartFresh ==
    /\ cur = NoId
    /\ Present(seen) = {}
    /\ Opened(NoId, NoId)

\* an explicit snapshot_id: recover_any_id_with, then pinned
StartAt(i) ==
    /\ WasPublished(seen, i) \/ cur = i
    /\ LoadGeneration(seen, i)
    /\ Opened(i, i)

-----------------------------------------------------------------------------
(* commit_bytes, one file-system operation per action.                     *)

At(step) == up /\ pc = step

Goto(step) == pc' = step

\* fsync of the store directory: a generation directory is there or gone
RootSynced ==
    [i \in Ids |-> IF "dir" \in seen[i] THEN durable[i] \cup {"dir"} ELSE {}]

\* fsync of the store directory: CURRENT and the generation directories
SyncRoot ==
    /\ curDisk' = {cur}
    /\ durable' = RootSynced

\* fsync of chk-<i>: every entry in it
SyncGeneration(i) ==
    durable' = [durable EXCEPT ![i] = (@ \cap {"dir"}) \cup (seen[i] \ {"dir"})]

AddEntry(i, e) == seen' = [seen EXCEPT ![i] = @ \cup {e}]

\* a CURRENT that leads to no generation fails the commit
Recoverable == cur # NoId => RecoverCommitted(seen, cur) \in Ids

\* Up to the read of CURRENT: the id is fresh, and the generation CURRENT
\* names (or the fallback when that one does not load) becomes `protected`.
Begin(i) ==
    /\ At("idle")
    /\ i >= nextId /\ i >= DiskNext
    /\ nextId' = Max({nextId, DiskNext})
    /\ Recoverable
    /\ id' = i
    /\ keep' = RecoverCommitted(seen, cur)
    /\ IF cur \in Ids /\ LoadGeneration(seen, cur) /\ ~WasPublished(seen, cur)
       THEN Goto("mark") ELSE Goto("prune")
    /\ UNCHANGED <<diskVars, up, pinned, origin, histVars>>

Mark ==
    /\ At("mark") /\ Goto("markSync")
    /\ AddEntry(cur, "published")
    /\ damaged' = [damaged EXCEPT ![cur] = @ \ {"published"}]
    /\ UNCHANGED <<durable, cur, curDisk, up, nextId, pinned, id, keep, origin,
                   histVars>>

MarkSync ==
    /\ At("markSync") /\ Goto("prune")
    /\ SyncGeneration(cur)
    /\ UNCHANGED <<seen, cur, curDisk, damaged, up, nextId, pinned, id, keep,
                   origin, histVars>>

Units(S) == Cardinality({i \in S : "chunks" \in seen[i]})

\* the loop of prune() sorts by (was_published, id)
PrunedBefore(i, j) ==
    \/ ~WasPublished(seen, i) /\ WasPublished(seen, j)
    \/ (WasPublished(seen, i) <=> WasPublished(seen, j)) /\ i < j

\* Mutant: only CURRENT and the pin are kept.
PrunableProtected(protected) == Present(seen) \ {pinned, cur}

\* prune() never removes what it was told to protect, the pin, or CURRENT
Prunable(protected) == Present(seen) \ {protected, pinned, cur}

\* Mutant: off by one.
KeepCountLess(reserve) ==
    Max({Generations, IF pinned # NoId THEN 2 ELSE 1}) - reserve - 1

KeepCount(reserve) ==
    Max({Generations, IF pinned # NoId THEN 2 ELSE 1}) - reserve

Fits(S, reserve) ==
    /\ Cardinality(S) <= KeepCount(reserve)
    /\ Units(S) + reserve <= MaxUnits

\* R is the set of generations the loop removes: a prefix of the candidates
\* in its order, that stops as soon as what is left fits.
PruneSet(R, protected, reserve) ==
    /\ R \subseteq Prunable(protected)
    /\ \A j \in R : \A i \in Prunable(protected) : PrunedBefore(i, j) => i \in R
    /\ \A j \in R :
          ~Fits(Present(seen) \ {i \in R : PrunedBefore(i, j)}, reserve)
    /\ R = Prunable(protected) \/ Fits(Present(seen) \ R, reserve)

RemoveAll(R) == seen' = [i \in Ids |-> IF i \in R THEN {} ELSE seen[i]]

Prune ==
    /\ At("prune")
    /\ \E R \in SUBSET Present(seen) :
          /\ PruneSet(R, keep, 1)
          /\ RemoveAll(R)
          /\ IF R = {} THEN Goto("reserve") ELSE Goto("pruneSync")
    /\ UNCHANGED <<durable, cur, curDisk, damaged, up, nextId, pinned, id, keep,
                   origin, histVars>>

PruneSync ==
    /\ At("pruneSync") /\ Goto("reserve")
    /\ SyncRoot
    /\ UNCHANGED <<seen, cur, damaged, up, nextId, pinned, id, keep, origin,
                   histVars>>

\* the quota check at the end of prune(), then the id is consumed
Reserve ==
    /\ At("reserve")
    /\ IF Units(Present(seen)) + 1 <= MaxUnits
       THEN Goto("mkdir") /\ nextId' = id + 1 /\ UNCHANGED id
       ELSE Goto("idle") /\ id' = NoId /\ UNCHANGED nextId
    /\ UNCHANGED <<diskVars, up, pinned, keep, origin, histVars>>

Mkdir ==
    /\ At("mkdir") /\ Goto("mkdirSync")
    /\ AddEntry(id, "dir")
    /\ damaged' = [damaged EXCEPT ![id] = {}]
    /\ UNCHANGED <<durable, cur, curDisk, up, nextId, pinned, id, keep, origin,
                   histVars>>

\* The new directory is empty, whatever a removed one of its name held.
MkdirSync ==
    /\ At("mkdirSync") /\ Goto("chunks")
    /\ curDisk' = {cur}
    /\ durable' = [RootSynced EXCEPT ![id] = {"dir"}]
    /\ UNCHANGED <<seen, cur, damaged, up, nextId, pinned, id, keep, origin,
                   histVars>>

\* write_all_sync of chunks, of ACK, and of MANIFEST.tmp with its rename
Write(step, entry, next) ==
    /\ At(step) /\ Goto(next)
    /\ AddEntry(id, entry)
    /\ UNCHANGED <<durable, cur, curDisk, damaged, up, nextId, pinned, id, keep,
                   origin, histVars>>

WriteChunks == Write("chunks", "chunks", "chunksSync")
WriteAck == Write("ack", "ack", "manifest")
WriteManifest == Write("manifest", "manifest", "manifestSync")

\* fsync_dir(chk) after the chunks and after the MANIFEST
SyncFiles(step, next) ==
    /\ At(step) /\ Goto(next)
    /\ SyncGeneration(id)
    /\ UNCHANGED <<seen, cur, curDisk, damaged, up, nextId, pinned, id, keep,
                   origin, histVars>>

ChunksSync == SyncFiles("chunksSync", "ack")
ManifestSync == SyncFiles("manifestSync", "current")

RenameCurrent ==
    /\ At("current") /\ Goto("currentSync")
    /\ cur' = id
    /\ curDisk' = curDisk \cup {id}
    /\ named' = named \cup {id}
    /\ UNCHANGED <<seen, durable, damaged, up, nextId, pinned, id, keep, origin,
                   acked, trouble, damage>>

\* Mutant: the rename of CURRENT is not synced before the commit returns.
CurrentNotSynced ==
    /\ At("currentSync") /\ Goto("publish")
    /\ UNCHANGED <<diskVars, up, nextId, pinned, id, keep, origin, histVars>>

CurrentSync ==
    /\ At("currentSync") /\ Goto("publish")
    /\ SyncRoot
    /\ UNCHANGED <<seen, cur, damaged, up, nextId, pinned, id, keep, origin,
                   histVars>>

\* record_publication(id)
Publish == Write("publish", "published", "publishSync")
PublishSync == SyncFiles("publishSync", "trim")

\* prune(Some(id), 0): its quota error only sets maintenance_error
Return ==
    /\ Goto("idle") /\ id' = NoId /\ keep' = NoId
    /\ acked' = acked \cup {id}

Trim ==
    /\ At("trim")
    /\ \E R \in SUBSET Present(seen) :
          /\ PruneSet(R, id, 0)
          /\ RemoveAll(R)
          /\ IF R = {} THEN Return
             ELSE Goto("trimSync") /\ UNCHANGED <<id, keep, acked>>
    /\ UNCHANGED <<durable, cur, curDisk, damaged, up, nextId, pinned, origin,
                   named, trouble, damage>>

TrimSync ==
    /\ At("trimSync")
    /\ SyncRoot
    /\ Return
    /\ UNCHANGED <<seen, cur, damaged, up, nextId, pinned, origin, named,
                   trouble, damage>>

-----------------------------------------------------------------------------
(* What can go wrong.                                                      *)

Trouble == trouble < MaxTrouble /\ trouble' = trouble + 1

\* The commit can break off here: an fsync only where it may be lost.
Interruptible == pc \in SyncSteps => pc \in LostSyncs

MaintenanceSteps == {"publish", "publishSync", "trim", "trimSync"}

\* An I/O error before CURRENT is durable: commit_bytes returns Err.  What
\* was done so far stays on disk.
CommitFails ==
    /\ up /\ pc \in Steps \ ({"idle"} \cup MaintenanceSteps)
    /\ Interruptible
    /\ Trouble
    /\ Goto("idle") /\ id' = NoId /\ keep' = NoId
    /\ nextId' = IF pc = "mkdir" THEN id + 1 ELSE nextId
    /\ UNCHANGED <<diskVars, up, pinned, origin, acked, named, damage>>

\* remove_dir_all fails half way: the generations the loop took first are
\* gone, and v has lost some of its files.
PruneFails ==
    /\ up /\ pc \in {"prune", "trim"}
    /\ Trouble
    /\ \E R \in SUBSET Present(seen) : \E v \in R : \E left \in SUBSET seen[v] :
          /\ PruneSet(R, IF pc = "prune" THEN keep ELSE id,
                         IF pc = "prune" THEN 1 ELSE 0)
          /\ "dir" \in left
          /\ seen' = [i \in Ids |-> IF i = v THEN left
                                   ELSE IF i \in R /\ PrunedBefore(i, v) THEN {}
                                   ELSE seen[i]]
    /\ IF pc = "prune"
       THEN Goto("idle") /\ id' = NoId /\ keep' = NoId /\ UNCHANGED acked
       ELSE Return
    /\ UNCHANGED <<durable, cur, curDisk, damaged, up, nextId, pinned, origin,
                   named, damage>>

\* An I/O error after CURRENT is durable only sets maintenance_error.
MaintenanceFails ==
    /\ up /\ pc \in MaintenanceSteps
    /\ Interruptible
    /\ Trouble
    /\ Return
    /\ UNCHANGED <<diskVars, up, nextId, pinned, origin, named, damage>>

Forget ==
    /\ up' = FALSE
    /\ Goto("idle") /\ id' = NoId /\ keep' = NoId
    /\ nextId' = 1 /\ pinned' = NoId /\ origin' = NoId

\* The job stops between two commits: only memory is lost.
Stop ==
    /\ At("idle")
    /\ Forget
    /\ UNCHANGED <<diskVars, histVars>>

\* The process is killed between two operations of a commit; the kernel keeps
\* the tree.
Kill ==
    /\ up /\ pc # "idle"
    /\ Interruptible
    /\ Trouble
    /\ Forget
    /\ UNCHANGED <<diskVars, acked, named, damage>>

\* What a power loss may leave of generation i: every synced entry that was
\* not touched since, and any of the entries that were.
Images(i) ==
    {left \in SUBSET (seen[i] \cup durable[i]) :
        /\ seen[i] \cap durable[i] \subseteq left
        /\ left # {} => "dir" \in left}

PowerLoss ==
    /\ Trouble
    /\ Forget
    /\ LET unsynced == {i \in Ids : seen[i] # durable[i]}
       IN  \E f \in [unsynced -> SUBSET Entries] :
             /\ \A i \in unsynced : f[i] \in Images(i)
             /\ seen' = [i \in Ids |-> IF i \in unsynced THEN f[i] ELSE seen[i]]
    /\ durable' = seen'
    /\ \E c \in curDisk \cup {cur} : cur' = c /\ curDisk' = {c}
    /\ UNCHANGED <<damaged, acked, named, damage>>

\* A media fault spoils data at rest: one file of a generation, or CURRENT.
Damage ==
    /\ damage < MaxDamage /\ damage' = damage + 1
    /\ pc = "idle"
    /\ \/ /\ \E i \in Ids : \E e \in seen[i] \cap {"chunks", "manifest", "published"} :
                damaged' = [damaged EXCEPT ![i] = @ \cup {e}]
          /\ UNCHANGED <<cur, curDisk>>
       \/ /\ cur \in Ids
          /\ cur' = Unreadable /\ curDisk' = {Unreadable}
          /\ UNCHANGED damaged
    /\ UNCHANGED <<seen, durable, memVars, acked, named, trouble>>

Commit ==
    \/ \E i \in Ids : Begin(i)
    \/ Mark \/ MarkSync
    \/ Prune \/ PruneSync \/ Reserve
    \/ Mkdir \/ MkdirSync
    \/ WriteChunks \/ ChunksSync
    \/ WriteAck
    \/ WriteManifest \/ ManifestSync
    \/ RenameCurrent \/ CurrentSync
    \/ Publish \/ PublishSync
    \/ Trim \/ TrimSync

Next ==
    \/ StartResumed
    \/ StartFresh
    \/ \E i \in Requests : StartAt(i)
    \/ Commit
    \/ Stop
    \/ CommitFails \/ PruneFails \/ MaintenanceFails
    \/ Kill \/ PowerLoss
    \/ Damage

Spec == Init /\ [][Next]_vars

-----------------------------------------------------------------------------
(* Properties.                                                             *)

\* The entries no power loss can take away, and what CURRENT may then say.
Certain ==
    [i \in Ids |-> IF "dir" \in seen[i] \cap durable[i]
                   THEN seen[i] \cap durable[i] ELSE {}]
PossibleCurrent == curDisk \cup {cur}

\* The oldest checkpoint a restart can come back with, whatever the next
\* power loss does to the entries that are not synced.
Floor == Min({RecoverCommitted(Certain, c) : c \in PossibleCurrent})

\* A checkpoint that commit_bytes acknowledged is never lost: as long as no
\* medium fails and no writer goes on over a rename of CURRENT whose fsync
\* failed or never ran ("currentSync" \notin LostSyncs), every restart recovers
\* it or a later one, whichever directory entries the next power loss drops.
\* Every other fsync may fail, and the process may be killed anywhere else.
AckedSurvives ==
    damage = 0 => \A c \in PossibleCurrent : \A a \in acked :
                     a <= RecoverCommitted(Certain, c)

\* A job is only ever restored from a checkpoint whose CURRENT rename took
\* place: a complete MANIFEST that was never named is not promoted
\* (checkpoint.rs: "Do not promote an unpublished MANIFEST").
RestoreOnlyNamed == origin # NoId => origin \in named

\* While no fsync is lost (LostSyncs = {}), no step of the store makes the worst
\* recovery older or impossible: not pruning, a commit that fails or is killed
\* between two operations, a prune that fails half way, a restart, a restore of
\* an old snapshot or a power loss.  Only a media fault can.
RecoveryNeverRegresses == [][damage' = damage => Floor' >= Floor]_vars

\* An automatic start never begins with empty state once a checkpoint was
\* acknowledged, even when files of the store are damaged.
NoSilentFreshStart ==
    [][~up /\ up' /\ origin' = NoId => acked = {}]_vars

\* What every power loss from here leaves to fall back to: for each value
\* CURRENT may have, a published generation no older than any checkpoint that
\* was acknowledged before it.
HasFallback ==
    \A c \in PossibleCurrent \ {NoId} : \A a \in acked :
        a < c => a <= LatestValid(Certain, c)

\* No marked generation has lost files to a removal that broke off.
NoHalfPruned == \A i \in Ids : WasPublished(seen, i) => LoadGeneration(seen, i)

\* With room for three generations and no fsync lost (LostSyncs = {}), no step
\* but the damage itself takes the fallback away from a writer that has nothing
\* pinned (a pin takes one of the places) and no half-pruned generation on its
\* disk (prune counts it as published, and so against the retention): retention
\* leaves the acknowledged checkpoint before CURRENT with its marker, so that
\* recovery can use it if CURRENT's generation turns out to be damaged (prune).
FallbackRetained ==
    [][HasFallback /\ pinned = NoId /\ NoHalfPruned /\ damage' = 0
          => HasFallback']_vars

=============================================================================
