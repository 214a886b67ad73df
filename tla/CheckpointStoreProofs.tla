------------------------ MODULE CheckpointStoreProofs ------------------------
(***************************************************************************)
(* Theorems about CheckpointStore, for every number of ids, generations    *)
(* and faults.                                                             *)
(***************************************************************************)
EXTENDS MCCheckpointStore, TLAPS, WellFoundedInduction, FiniteSetTheorems

-----------------------------------------------------------------------------
(* The greatest element of a set of naturals below a bound exists.          *)

\* Max, as recovery and next_id use it, returns an element of a nonempty set
\* of ids that is no smaller than the others.
LEMMA MaxOfBounded ==
    ASSUME NEW n \in Nat, NEW S \in SUBSET (0..n), S # {}
    PROVE  Max(S) \in S /\ \A y \in S : y <= Max(S)
<1> DEFINE T == {n - i : i \in S}
<1>1. T \subseteq Nat /\ T # {}
    <2>1. \A t \in T : t \in Nat
        OBVIOUS
    <2>2. PICK i \in S : TRUE
        OBVIOUS
    <2>3. n - i \in T
        BY <2>2
    <2> QED
        BY <2>1, <2>3
<1>2. PICK x \in T : \A y \in T : ~ (<<y, x>> \in OpToRel(<, Nat))
    BY <1>1, NatLessThanWellFounded, WFMin
<1>3. \A y \in T : ~ (y < x)
    BY <1>1, <1>2 DEF OpToRel
<1>4. PICK m \in S : x = n - m
    BY <1>2
<1>5. \A y \in S : y <= m
    <2> TAKE y \in S
    <2>1. ~ (n - y < n - m)
        BY <1>3, <1>4
    <2>2. y \in Int /\ m \in Int
        BY <1>4
    <2> QED
        BY <2>1, <2>2
<1> QED
    BY <1>4, <1>5 DEF Max

-----------------------------------------------------------------------------
(* Type correctness.                                                       *)

\* next_id, recomputed from the generation directories, is a natural number.
LEMMA DiskNextType == TypeOK => DiskNext \in Nat
<1> SUFFICES ASSUME TypeOK PROVE DiskNext \in Nat
    OBVIOUS
<1>1. MaxId \in Nat
    BY StoreAssumption
<1>2. Present(seen) \cup {0} \in SUBSET (0..MaxId)
    BY <1>1 DEF Present, Ids
<1>3. Max(Present(seen) \cup {0}) \in Present(seen) \cup {0}
    BY <1>1, <1>2, MaxOfBounded
<1> QED
    BY <1>1, <1>2, <1>3 DEF DiskNext

\* A counted fault stays within its bound.
LEMMA TroubleType == TypeOK /\ Trouble => trouble' \in 0..MaxTrouble
    BY StoreAssumption DEF TypeOK, Trouble

\* Every step of commit_bytes works on a real id.
Busy == pc # "idle" => id \in Ids

\* A store on an empty directory is well typed.
LEMMA TypeInit == Init => TypeOK /\ Busy
<1> SUFFICES ASSUME Init PROVE TypeOK /\ Busy
    OBVIOUS
<1>1. trouble \in 0..MaxTrouble /\ damage \in 0..MaxDamage /\ nextId \in Nat
    BY StoreAssumption DEF Init
<1> QED
    BY <1>1 DEF Init, TypeOK, Busy, Steps

\* Every step of Next keeps the variables in their types.
LEMMA TypeStep == TypeOK /\ Busy /\ [Next]_vars => TypeOK' /\ Busy'
<1> SUFFICES ASSUME TypeOK, Busy, [Next]_vars PROVE TypeOK' /\ Busy'
    OBVIOUS
<1> USE DEF TypeOK, Busy, diskVars, memVars, histVars, At, Goto
<1>1. CASE StartResumed
    BY <1>1, DiskNextType DEF StartResumed, Opened
<1>2. CASE StartFresh
    BY <1>2, DiskNextType DEF StartFresh, Opened
<1>3. CASE \E i \in Requests : StartAt(i)
    BY <1>3, DiskNextType, StoreAssumption DEF StartAt, Opened
<1>4. CASE \E i \in Ids : Begin(i)
    <2> PICK i \in Ids : Begin(i)
        BY <1>4
    <2>1. nextId' \in Nat
        <3>1. /\ {nextId, DiskNext} \in SUBSET (0..(nextId + DiskNext))
              /\ nextId + DiskNext \in Nat
              /\ {nextId, DiskNext} # {}
            BY DiskNextType
        <3>2. Max({nextId, DiskNext}) \in {nextId, DiskNext}
            BY <3>1, MaxOfBounded
        <3> QED
            BY <3>2, DiskNextType DEF Begin
    <2>2. keep' \in Ids \cup {NoId}
        BY DEF Begin, Recoverable, RecoverCommitted
    <2>3. pc' \in {"mark", "prune"}
        BY DEF Begin
    <2> QED
        BY <2>1, <2>2, <2>3 DEF Begin, Steps
<1>5. CASE Mark \/ MarkSync
    BY <1>5 DEF Mark, MarkSync, AddEntry, SyncGeneration, Steps, Entries
<1>6. CASE Prune \/ PruneSync
    BY <1>6 DEF Prune, PruneSync, RemoveAll, SyncRoot, RootSynced, Steps, Entries
<1>7. CASE Reserve
    BY <1>7, StoreAssumption DEF Reserve, Steps, Ids, NoId
<1>8. CASE Mkdir \/ MkdirSync
    <2>1. CASE Mkdir
        BY <2>1 DEF Mkdir, AddEntry, Steps, Entries
    <2>2. CASE MkdirSync
        <3>1. RootSynced \in [Ids -> SUBSET Entries]
            BY DEF RootSynced, Entries
        <3>2. durable' \in [Ids -> SUBSET Entries]
            BY <2>2, <3>1 DEF MkdirSync, Entries
        <3> QED
            BY <2>2, <3>2 DEF MkdirSync, Steps
    <2> QED
        BY <1>8, <2>1, <2>2
<1>9. CASE WriteChunks \/ WriteAck \/ WriteManifest \/ Publish
    BY <1>9 DEF WriteChunks, WriteAck, WriteManifest, Publish, Write, AddEntry,
                Steps, Entries
<1>10. CASE ChunksSync \/ ManifestSync \/ PublishSync
    BY <1>10 DEF ChunksSync, ManifestSync, PublishSync, SyncFiles,
                 SyncGeneration, Steps, Entries
<1>11. CASE RenameCurrent \/ CurrentSync
    BY <1>11 DEF RenameCurrent, CurrentSync, SyncRoot, RootSynced, Steps, Entries
<1>12. CASE Trim
    BY <1>12 DEF Trim, Return, RemoveAll, Steps
<1>13. CASE TrimSync
    BY <1>13 DEF TrimSync, Return, SyncRoot, RootSynced, Steps, Entries
<1>14. CASE Stop
    <2>1. nextId' \in Nat
        BY <1>14 DEF Stop, Forget
    <2> QED
        BY <1>14, <2>1 DEF Stop, Forget, Steps
<1>15. CASE CommitFails
    <2>1. nextId' \in Nat
        BY <1>15, StoreAssumption DEF CommitFails, Ids
    <2> QED
        BY <1>15, <2>1, TroubleType DEF CommitFails, Steps
<1>16. CASE MaintenanceFails
    BY <1>16, TroubleType DEF MaintenanceFails, MaintenanceSteps, Return, Steps
<1>17. CASE PruneFails
    <2>1. seen' \in [Ids -> SUBSET Entries]
        BY <1>17 DEF PruneFails
    <2> QED
        BY <1>17, <2>1, TroubleType DEF PruneFails, Return, Steps
<1>18. CASE Kill
    BY <1>18, TroubleType DEF Kill, Forget, Steps
<1>19. CASE PowerLoss
    <2>1. seen' \in [Ids -> SUBSET Entries] /\ durable' = seen'
        BY <1>19 DEF PowerLoss, Images
    <2> QED
        BY <1>19, <2>1, TroubleType DEF PowerLoss, Forget, Steps
<1>20. CASE Damage
    BY <1>20, StoreAssumption DEF Damage, Entries
<1>21. CASE UNCHANGED vars
    BY <1>21 DEF vars
<1> QED
    BY <1>1, <1>2, <1>3, <1>4, <1>5, <1>6, <1>7, <1>8, <1>9, <1>10, <1>11,
       <1>12, <1>13, <1>14, <1>15, <1>16, <1>17, <1>18, <1>19, <1>20, <1>21
    DEF Next, Commit

\* Every reachable state of the store is well typed.
THEOREM TypeCorrect == Spec => []TypeOK
<1>1. Spec => [](TypeOK /\ Busy)
    BY TypeInit, TypeStep, PTL DEF Spec
<1> QED
    BY <1>1, PTL

-----------------------------------------------------------------------------
(* A job restarts only from a checkpoint that CURRENT has named.            *)

NamedSteps == {"currentSync", "publish", "publishSync", "trim", "trimSync"}

\* Everything recovery can find leads back to a rename of CURRENT: CURRENT
\* itself, in memory or on the disk, and every PUBLISHED marker.
NamedInv ==
    /\ \A c \in curDisk \cup {cur} : c \in Ids => c \in named
    /\ \A i \in Ids : "published" \in seen[i] \cup durable[i] => i \in named
    /\ origin \in Ids => origin \in named
    /\ pc \in NamedSteps => id \in named
    /\ pc \in {"mark", "markSync"} => cur \in Ids

\* What recover_any_committed_with returns was named by CURRENT.
LEMMA RecoverNamed ==
    ASSUME TypeOK, NamedInv, RecoverCommitted(seen, cur) \in Ids
    PROVE  RecoverCommitted(seen, cur) \in named
<1> DEFINE ok == {i \in Ids : /\ cur # Unreadable => i < cur
                              /\ WasPublished(seen, i)
                              /\ LoadGeneration(seen, i)}
<1>1. CASE cur \in Ids /\ LoadGeneration(seen, cur)
    BY <1>1, StoreAssumption DEF RecoverCommitted, NamedInv, Ids, NoId
<1>2. CASE ~(cur \in Ids /\ LoadGeneration(seen, cur)) /\ cur # NoId
    <2>1. RecoverCommitted(seen, cur) = IF ok = {} THEN Unreadable ELSE Max(ok)
        BY <1>2 DEF RecoverCommitted, LatestValid
    <2>2. ok # {}
        BY <2>1, StoreAssumption DEF Unreadable, Ids
    <2>3. ok \in SUBSET (0..MaxId) /\ MaxId \in Nat
        BY StoreAssumption DEF Ids
    <2>4. Max(ok) \in ok
        BY <2>2, <2>3, MaxOfBounded
    <2> QED
        BY <2>1, <2>2, <2>4 DEF NamedInv, WasPublished
<1>3. CASE cur = NoId
    BY <1>3, StoreAssumption DEF RecoverCommitted, NoId, Ids
<1> QED
    BY <1>1, <1>2, <1>3

\* On an empty directory no id is named and none is claimed.
LEMMA NamedInit == Init => NamedInv
    BY StoreAssumption DEF Init, NamedInv, NamedSteps, NoId, Ids

\* Every step keeps it: CURRENT, the PUBLISHED markers and the job's origin
\* only ever hold ids that a rename of CURRENT put there.
LEMMA NamedStep == TypeOK /\ Busy /\ NamedInv /\ [Next]_vars => NamedInv'
<1> SUFFICES ASSUME TypeOK, Busy, NamedInv, [Next]_vars PROVE NamedInv'
    OBVIOUS
<1> USE DEF NamedInv, NamedSteps, diskVars, memVars, histVars, At, Goto
<1>1. CASE StartResumed
    BY <1>1, RecoverNamed DEF StartResumed, Opened
<1>2. CASE StartFresh
    BY <1>2, StoreAssumption DEF StartFresh, Opened, NoId, Ids
<1>3. CASE \E i \in Requests : StartAt(i)
    BY <1>3, StoreAssumption DEF StartAt, Opened, WasPublished
<1>4. CASE \E i \in Ids : Begin(i)
    BY <1>4 DEF Begin
<1>5. CASE Mark
    BY <1>5 DEF Mark, AddEntry, TypeOK
<1>6. CASE MarkSync
    BY <1>6 DEF MarkSync, SyncGeneration, TypeOK
<1>7. CASE Prune
    BY <1>7 DEF Prune, RemoveAll
<1>8. CASE PruneSync
    BY <1>8 DEF PruneSync, SyncRoot, RootSynced
<1>9. CASE Reserve
    BY <1>9 DEF Reserve
<1>10. CASE Mkdir
    BY <1>10 DEF Mkdir, AddEntry, TypeOK
<1>11. CASE MkdirSync
    BY <1>11 DEF MkdirSync, SyncRoot, RootSynced
<1>12. CASE WriteChunks \/ WriteAck \/ WriteManifest \/ Publish
    BY <1>12 DEF WriteChunks, WriteAck, WriteManifest, Publish, Write, AddEntry,
                 TypeOK
<1>13. CASE ChunksSync \/ ManifestSync \/ PublishSync
    BY <1>13 DEF ChunksSync, ManifestSync, PublishSync, SyncFiles,
                 SyncGeneration, TypeOK
<1>14. CASE RenameCurrent
    BY <1>14 DEF RenameCurrent
<1>15. CASE CurrentSync
    BY <1>15 DEF CurrentSync, SyncRoot, RootSynced
<1>16. CASE Trim
    BY <1>16 DEF Trim, Return, RemoveAll
<1>17. CASE TrimSync
    BY <1>17 DEF TrimSync, Return, SyncRoot, RootSynced
<1>18. CASE Stop \/ Kill
    BY <1>18, StoreAssumption DEF Stop, Kill, Forget, NoId, Ids
<1>19. CASE CommitFails \/ MaintenanceFails
    BY <1>19 DEF CommitFails, MaintenanceFails, Return
<1>20. CASE PruneFails
    <2>1. \A i \in Ids : seen'[i] \subseteq seen[i]
        BY <1>20 DEF PruneFails, TypeOK
    <2> QED
        BY <1>20, <2>1 DEF PruneFails, Return
<1>21. CASE PowerLoss
    <2>1. \A i \in Ids : seen'[i] \subseteq seen[i] \cup durable[i]
        BY <1>21 DEF PowerLoss, Images, TypeOK
    <2>2. origin' = NoId /\ pc' = "idle" /\ durable' = seen' /\ named' = named
        BY <1>21 DEF PowerLoss, Forget
    <2>3. \A c \in curDisk' \cup {cur'} : c \in curDisk \cup {cur}
        BY <1>21 DEF PowerLoss
    <2> QED
        BY <2>1, <2>2, <2>3, StoreAssumption DEF NoId, Ids
<1>22. CASE Damage
    BY <1>22, StoreAssumption DEF Damage, Unreadable, Ids
<1>23. CASE UNCHANGED vars
    BY <1>23 DEF vars
<1> QED
    BY <1>1, <1>2, <1>3, <1>4, <1>5, <1>6, <1>7, <1>8, <1>9, <1>10, <1>11,
       <1>12, <1>13, <1>14, <1>15, <1>16, <1>17, <1>18, <1>19, <1>20, <1>21,
       <1>22, <1>23
    DEF Next, Commit

\* Whatever is lost, damaged or interrupted, a job is restored only from a
\* checkpoint that CURRENT has named (recover_any_committed_with and
\* recover_any_id_with never promote an unpublished MANIFEST).
THEOREM RestoreIsNamed == Spec => []RestoreOnlyNamed
<1>1. TypeOK /\ NamedInv => RestoreOnlyNamed
    BY DEF TypeOK, NamedInv, RestoreOnlyNamed
<1> QED
    BY <1>1, TypeInit, TypeStep, NamedInit, NamedStep, PTL DEF Spec

-----------------------------------------------------------------------------
(* An acknowledged checkpoint is never lost.                                *)

Both(i) == seen[i] \cap durable[i]

\* How much of its generation a commit has written and synced at each step.
Written ==
    /\ pc = "mkdirSync" => "dir" \in seen[id]
    /\ pc = "chunks" => "dir" \in Both(id)
    /\ pc = "chunksSync" => "dir" \in Both(id) /\ "chunks" \in seen[id]
    /\ pc = "ack" => {"dir", "chunks"} \subseteq Both(id)
    /\ pc = "manifest" => {"dir", "chunks"} \subseteq Both(id) /\ "ack" \in seen[id]
    /\ pc = "manifestSync" => /\ {"dir", "chunks"} \subseteq Both(id)
                              /\ {"ack", "manifest"} \subseteq seen[id]
    /\ pc \in {"current"} \cup NamedSteps => Committed \subseteq Both(id)

\* Whatever CURRENT may say after a power loss, it names a generation whose
\* files are all durable, and that is no older than any acknowledged one.
Intact ==
    /\ \A i \in Ids : damaged[i] = {}
    /\ \A c \in curDisk \cup {cur} :
          c = NoId \/ (c \in Ids /\ Committed \subseteq Both(c))
    /\ pc # "currentSync" => curDisk = {cur}
    /\ \A c \in curDisk \cup {cur} : \A a \in acked : a <= c
    /\ pc # "idle" => \A a \in acked : a <= id
    /\ pc \in NamedSteps => cur = id
    /\ pc \notin {"idle"} \cup NamedSteps => cur < id
    /\ Written

IntactInv == damage = 0 => Intact

\* next_id is above every generation on disk.
LEMMA DiskNextAbove == TypeOK => \A i \in Present(seen) : i < DiskNext
<1> SUFFICES ASSUME TypeOK PROVE \A i \in Present(seen) : i < DiskNext
    OBVIOUS
<1>1. MaxId \in Nat
    BY StoreAssumption
<1>2. Present(seen) \cup {0} \in SUBSET (0..MaxId)
    BY <1>1 DEF Present, Ids
<1>3. /\ Max(Present(seen) \cup {0}) \in Present(seen) \cup {0}
      /\ \A y \in Present(seen) \cup {0} : y <= Max(Present(seen) \cup {0})
    BY <1>1, <1>2, MaxOfBounded
<1> QED
    BY <1>1, <1>2, <1>3 DEF DiskNext

\* An empty store is intact.
LEMMA IntactInit == Init => IntactInv
    BY StoreAssumption DEF Init, IntactInv, Intact, Written, NamedSteps

\* A step that leaves damage at 0 started from damage = 0.
LEMMA DamageGrows == TypeOK /\ [Next]_vars /\ damage' = 0 => damage = 0
<1> SUFFICES ASSUME TypeOK, [Next]_vars, damage' = 0 PROVE damage = 0
    OBVIOUS
<1>1. damage' = damage \/ damage' = damage + 1
    BY DEF Next, Commit, vars, StartResumed, StartFresh, StartAt, Opened, Begin,
        Mark, MarkSync, Prune, PruneSync, Reserve, Mkdir, MkdirSync,
        WriteChunks, WriteAck, WriteManifest, Publish, Write, ChunksSync,
        ManifestSync, PublishSync, SyncFiles, RenameCurrent, CurrentSync, Trim,
        TrimSync, Stop, CommitFails, PruneFails, MaintenanceFails, Kill,
        PowerLoss, Damage, histVars
<1> QED
    BY <1>1, StoreAssumption DEF TypeOK

\* While the fsync of CURRENT is not lost, every step leaves the generation that CURRENT names,
\* before or after a power loss, complete and synced, and never older than an
\* acknowledged one.
LEMMA IntactStep ==
    ASSUME "currentSync" \notin LostSyncs
    PROVE  TypeOK /\ Busy /\ IntactInv /\ [Next]_vars => IntactInv'
<1> SUFFICES ASSUME TypeOK, Busy, Intact, [Next]_vars, damage' = 0
             PROVE  Intact'
    BY DamageGrows DEF IntactInv
<1> USE DEF Intact, Written, Both, NamedSteps, Committed, diskVars, memVars,
            histVars, At, Goto
<1>1. CASE StartResumed \/ StartFresh \/ (\E i \in Requests : StartAt(i))
    BY <1>1 DEF StartResumed, StartFresh, StartAt, Opened
<1>2. CASE \E i \in Ids : Begin(i)
    <2> PICK i \in Ids : Begin(i)
        BY <1>2
    <2>1. (\A a \in acked : a <= i) /\ cur < i
        <3>1. cur = NoId \/ cur \in Present(seen)
            BY DEF Present
        <3>2. CASE cur = NoId
            BY <3>2, StoreAssumption DEF TypeOK, NoId, Ids
        <3>3. CASE cur \in Present(seen)
            <4>1. cur < DiskNext /\ DiskNext <= i
                BY <3>3, DiskNextAbove, DiskNextType, StoreAssumption DEF Begin, Ids
            <4> QED
                BY <4>1, DiskNextType, StoreAssumption DEF TypeOK, Ids, Present, NoId, Unreadable
        <3> QED
            BY <3>1, <3>2, <3>3
    <2>2. pc' \in {"mark", "prune"} /\ id' = i
        BY DEF Begin
    <2> QED
        BY <2>1, <2>2 DEF Begin
<1>3. CASE Mark
    BY <1>3 DEF Mark, AddEntry, TypeOK
<1>4. CASE MarkSync
    BY <1>4 DEF MarkSync, SyncGeneration, TypeOK
<1>5. CASE Prune
    <2>1. cur \in Ids => seen'[cur] = seen[cur]
        BY <1>5 DEF Prune, PruneSet, Prunable, RemoveAll
    <2> QED
        BY <1>5, <2>1 DEF Prune
<1>6. CASE PruneSync
    BY <1>6 DEF PruneSync, SyncRoot, RootSynced
<1>7. CASE Reserve
    BY <1>7 DEF Reserve
<1>8. CASE Mkdir
    BY <1>8 DEF Mkdir, AddEntry, TypeOK, Busy
<1>9. CASE MkdirSync
    <2>1. id \in Ids /\ cur < id /\ cur # id
        BY <1>9, StoreAssumption DEF MkdirSync, Busy, TypeOK, Ids, NoId, Unreadable
    <2>2. \A i \in Ids : durable'[i] = IF i = id THEN {"dir"}
                           ELSE IF "dir" \in seen[i] THEN durable[i] \cup {"dir"} ELSE {}
        BY <1>9 DEF MkdirSync, RootSynced
    <2>3. cur = NoId \/ (cur \in Ids /\ Committed \subseteq seen'[cur] \cap durable'[cur])
        BY <1>9, <2>1, <2>2 DEF MkdirSync
    <2>4. "dir" \in seen[id] /\ durable'[id] = {"dir"}
        <3>1. pc = "mkdirSync"
            BY <1>9 DEF MkdirSync
        <3>2. "dir" \in seen[id]
            BY <3>1
        <3> QED
            BY <2>1, <2>2, <3>2
    <2>5. /\ curDisk' = {cur} /\ pc' = "chunks"
          /\ seen' = seen /\ cur' = cur /\ damaged' = damaged /\ id' = id
          /\ acked' = acked /\ pc = "mkdirSync"
        BY <1>9 DEF MkdirSync
    <2>6. Written'
        BY <2>4, <2>5
    <2>7. /\ \A i \in Ids : damaged'[i] = {}
          /\ \A c \in curDisk' \cup {cur'} :
                /\ c = NoId \/ (c \in Ids /\ Committed \subseteq Both(c)')
                /\ \A a \in acked' : a <= c
        BY <2>3, <2>5
    <2>8. cur' < id' /\ \A a \in acked' : a <= id'
        BY <2>1, <2>5
    <2> QED
        BY <2>5, <2>6, <2>7, <2>8
<1>10. CASE WriteChunks \/ WriteAck \/ WriteManifest \/ Publish
    BY <1>10 DEF WriteChunks, WriteAck, WriteManifest, Publish, Write, AddEntry,
                 TypeOK, Busy
<1>11. CASE ChunksSync \/ ManifestSync \/ PublishSync
    BY <1>11 DEF ChunksSync, ManifestSync, PublishSync, SyncFiles,
                 SyncGeneration, TypeOK, Busy
<1>12. CASE RenameCurrent
    BY <1>12 DEF RenameCurrent, Busy
<1>13. CASE CurrentSync
    BY <1>13 DEF CurrentSync, SyncRoot, RootSynced, Busy
<1>14. CASE Trim
    <2>1. cur \in Ids => seen'[cur] = seen[cur]
        BY <1>14 DEF Trim, PruneSet, Prunable, RemoveAll
    <2>2. \/ pc' = "idle" /\ acked' = acked \cup {id}
          \/ pc' = "trimSync" /\ acked' = acked /\ id' = id
        BY <1>14 DEF Trim, Return
    <2>3. cur = id /\ id \in Ids /\ id <= id
        BY <1>14, StoreAssumption DEF Trim, Busy, Ids
    <2> QED
        BY <1>14, <2>1, <2>2, <2>3 DEF Trim
<1>15. CASE TrimSync
    BY <1>15, StoreAssumption DEF TrimSync, Return, SyncRoot, RootSynced, Busy, Ids
<1>16. CASE Stop \/ Kill
    BY <1>16 DEF Stop, Kill, Forget, Interruptible, SyncSteps
<1>17. CASE CommitFails
    BY <1>17 DEF CommitFails, Interruptible, SyncSteps
<1>18. CASE MaintenanceFails
    BY <1>18, StoreAssumption DEF MaintenanceFails, MaintenanceSteps, Return, Busy, Ids
<1>19. CASE PruneFails
    <2>1. cur \in Ids => seen'[cur] = seen[cur]
        BY <1>19 DEF PruneFails, PruneSet, Prunable
    <2> QED
        BY <1>19, <2>1, StoreAssumption DEF PruneFails, Return, Busy, Ids
<1>20. CASE PowerLoss
    <2>1. \A i \in Ids : Both(i) \subseteq seen'[i]
        BY <1>20 DEF PowerLoss, Images, TypeOK
    <2>2. /\ pc' = "idle" /\ durable' = seen' /\ acked' = acked
          /\ damaged' = damaged
        BY <1>20 DEF PowerLoss, Forget
    <2>3. cur' \in curDisk \cup {cur} /\ curDisk' = {cur'}
        BY <1>20 DEF PowerLoss
    <2> QED
        BY <2>1, <2>2, <2>3
<1>21. CASE Damage
    BY <1>21, StoreAssumption DEF Damage, TypeOK
<1>22. CASE UNCHANGED vars
    BY <1>22 DEF vars
<1> QED
    BY <1>1, <1>2, <1>3, <1>4, <1>5, <1>6, <1>7, <1>8, <1>9, <1>10, <1>11,
       <1>12, <1>13, <1>14, <1>15, <1>16, <1>17, <1>18, <1>19, <1>20, <1>21,
       <1>22
    DEF Next, Commit

\* An intact store recovers every acknowledged checkpoint or a later one.
LEMMA IntactSurvives == TypeOK /\ IntactInv => AckedSurvives
<1> SUFFICES ASSUME TypeOK, Intact, NEW c \in PossibleCurrent, NEW a \in acked
             PROVE  a <= RecoverCommitted(Certain, c)
    BY DEF AckedSurvives, IntactInv
<1>1. a <= c
    BY DEF Intact, PossibleCurrent
<1>2. CASE c = NoId
    BY <1>1, <1>2 DEF RecoverCommitted
<1>3. CASE c \in Ids /\ Committed \subseteq Both(c)
    <2>1. LoadGeneration(Certain, c)
        BY <1>3 DEF LoadGeneration, Certain, Both, Committed, Intact
    <2> QED
        BY <1>1, <1>3, <2>1, StoreAssumption DEF RecoverCommitted, Ids, NoId
<1> QED
    BY <1>2, <1>3 DEF Intact, PossibleCurrent

\* As long as no writer goes on over a rename of CURRENT whose fsync failed or
\* never ran, no power loss at any point of commit_bytes or prune, or of a
\* commit that failed or was killed anywhere else, takes an acknowledged
\* checkpoint away, for any retention, any pins and any number of commits.
\* Every other fsync may be lost.
THEOREM AckedNeverLost ==
    ASSUME "currentSync" \notin LostSyncs
    PROVE  Spec => []AckedSurvives
    BY TypeInit, TypeStep, IntactInit, IntactStep, IntactSurvives, PTL DEF Spec

-----------------------------------------------------------------------------
(* What recovery returns, as a function of the tree and of its damage.      *)

Loads(f, d, i) == Committed \subseteq f[i] /\ d[i] \cap {"chunks", "manifest"} = {}

Marked(f, d, i) ==
    /\ {"dir", "manifest", "published"} \subseteq f[i]
    /\ d[i] \cap {"manifest", "published"} = {}

Fallbacks(f, d, c) ==
    {i \in Ids : (c # Unreadable => i < c) /\ Marked(f, d, i) /\ Loads(f, d, i)}

Newest(f, d, c) ==
    IF Fallbacks(f, d, c) = {} THEN Unreadable ELSE Max(Fallbacks(f, d, c))

Recovered(f, d, c) ==
    IF c = NoId THEN NoId
    ELSE IF c \in Ids /\ Loads(f, d, c) THEN c ELSE Newest(f, d, c)

Values == Ids \cup {NoId, Unreadable}

\* recover_any_committed_with and its fallback, with the damage made explicit.
LEMMA RecoverIs ==
    ASSUME NEW f, NEW c
    PROVE  /\ LatestValid(f, c) = Newest(f, damaged, c)
           /\ RecoverCommitted(f, c) = Recovered(f, damaged, c)
           /\ \A i : LoadGeneration(f, i) <=> Loads(f, damaged, i)
           /\ \A i : WasPublished(f, i) <=> Marked(f, damaged, i)
<1>1. /\ \A i : LoadGeneration(f, i) <=> Loads(f, damaged, i)
      /\ \A i : WasPublished(f, i) <=> Marked(f, damaged, i)
    BY DEF LoadGeneration, Loads, WasPublished, Marked
<1>2. LatestValid(f, c) = Newest(f, damaged, c)
    <2>1. {i \in Ids : /\ c # Unreadable => i < c
                       /\ WasPublished(f, i)
                       /\ LoadGeneration(f, i)} = Fallbacks(f, damaged, c)
        BY <1>1 DEF Fallbacks
    <2> QED
        BY <2>1 DEF LatestValid, Newest
<1> QED
    BY <1>1, <1>2 DEF RecoverCommitted, Recovered

\* Ids are naturals, the two marks are below them.
LEMMA IdValues ==
    /\ MaxId \in Nat /\ NoId = 0 /\ Unreadable = -1
    /\ \A i \in Ids : i \in Nat /\ i > NoId /\ i > Unreadable /\ i <= MaxId
    /\ NoId \notin Ids /\ Unreadable \notin Ids /\ NoId # Unreadable
    /\ \A v \in Values : v \in Int /\ v >= Unreadable
BY StoreAssumption DEF Ids, NoId, Unreadable, Values

\* The newest fallback is one, and none is newer.
LEMMA NewestFallback ==
    ASSUME NEW f, NEW d, NEW c
    PROVE  /\ \A i \in Fallbacks(f, d, c) : i <= Newest(f, d, c)
           /\ \/ Newest(f, d, c) = Unreadable /\ Fallbacks(f, d, c) = {}
              \/ Newest(f, d, c) \in Fallbacks(f, d, c)
<1>1. Fallbacks(f, d, c) \in SUBSET (0..MaxId)
    BY IdValues DEF Fallbacks, Ids
<1>2. CASE Fallbacks(f, d, c) = {}
    BY <1>2 DEF Newest
<1>3. CASE Fallbacks(f, d, c) # {}
    BY <1>1, <1>3, IdValues, MaxOfBounded DEF Newest
<1> QED
    BY <1>2, <1>3

\* What recovery returns loads: CURRENT's generation, or a marked older one.
LEMMA RecoveredLoads ==
    ASSUME NEW f, NEW d, NEW c \in Values
    PROVE  LET r == Recovered(f, d, c)
           IN  \/ c = NoId /\ r = NoId
               \/ c # NoId /\ r = Unreadable
               \/ c # NoId /\ r = c /\ c \in Ids /\ Loads(f, d, c)
               \/ /\ c # NoId /\ r \in Ids /\ Loads(f, d, r) /\ Marked(f, d, r)
                  /\ c # Unreadable => r < c
<1>1. CASE c = NoId
    BY <1>1 DEF Recovered
<1>2. CASE c # NoId /\ c \in Ids /\ Loads(f, d, c)
    BY <1>2 DEF Recovered
<1>3. CASE c # NoId /\ ~(c \in Ids /\ Loads(f, d, c))
    <2>1. Recovered(f, d, c) = Newest(f, d, c)
        BY <1>3 DEF Recovered
    <2> QED
        BY <1>3, <2>1, NewestFallback DEF Fallbacks
<1> QED
    BY <1>1, <1>2, <1>3

\* Recovery returns no less than any generation it could use.
LEMMA RecoveredAtLeast ==
    ASSUME NEW f, NEW d, NEW c \in Values, c # NoId, NEW i \in Ids, Loads(f, d, i),
           i = c \/ (Marked(f, d, i) /\ (c # Unreadable => i < c))
    PROVE  i <= Recovered(f, d, c)
<1>1. CASE c \in Ids /\ Loads(f, d, c)
    <2>1. Recovered(f, d, c) = c
        BY <1>1, IdValues DEF Recovered
    <2> QED
        BY <1>1, <2>1, IdValues
<1>2. CASE ~(c \in Ids /\ Loads(f, d, c))
    <2>1. Recovered(f, d, c) = Newest(f, d, c)
        BY <1>2 DEF Recovered
    <2>2. i \in Fallbacks(f, d, c)
        BY <1>2 DEF Fallbacks
    <2> QED
        BY <2>1, <2>2, NewestFallback
<1> QED
    BY <1>1, <1>2

\* The value is an id or one of the two marks.
LEMMA RecoveredType ==
    ASSUME NEW f, NEW d, NEW c \in Values
    PROVE  Recovered(f, d, c) \in Values
BY RecoveredLoads DEF Values

\* A tree with more entries and less damage recovers no older checkpoint.
LEMMA RecoveredGrows ==
    ASSUME NEW f, NEW g, NEW d, NEW e, NEW c \in Values,
           \A i \in Ids : f[i] \subseteq g[i] /\ e[i] \subseteq d[i]
    PROVE  Recovered(f, d, c) <= Recovered(g, e, c)
<1> DEFINE r == Recovered(f, d, c)
<1>1. CASE r \in Ids
    <2>1. Loads(g, e, r) /\ c # NoId
        BY <1>1, RecoveredLoads, IdValues DEF Loads
    <2>2. r = c \/ (Marked(g, e, r) /\ (c # Unreadable => r < c))
        BY <1>1, RecoveredLoads, IdValues DEF Marked
    <2> QED
        BY <1>1, <2>1, <2>2, RecoveredAtLeast
<1>2. CASE r = NoId
    <2>1. c = NoId
        BY <1>2, RecoveredLoads, IdValues
    <2> QED
        BY <2>1, IdValues DEF Recovered
<1>3. CASE r = Unreadable
    BY <1>3, RecoveredType, IdValues
<1> QED
    BY <1>1, <1>2, <1>3, RecoveredType DEF Values

\* A set of recovery results has a least one.
LEMMA MinOfValues ==
    ASSUME NEW S \in SUBSET Values, S # {}
    PROVE  Min(S) \in S /\ \A y \in S : Min(S) <= y
<1> DEFINE T == {i + 1 : i \in S}
<1>1. T \subseteq Nat /\ T # {}
    <2>1. \A v \in S : v + 1 \in Nat
        BY IdValues
    <2>2. PICK v \in S : TRUE
        OBVIOUS
    <2> QED
        BY <2>1, <2>2
<1>2. PICK x \in T : \A y \in T : ~ (<<y, x>> \in OpToRel(<, Nat))
    BY <1>1, NatLessThanWellFounded, WFMin
<1>3. \A y \in T : ~ (y < x)
    BY <1>1, <1>2 DEF OpToRel
<1>4. PICK m \in S : x = m + 1
    BY <1>2
<1>5. \A y \in S : m <= y
    <2> TAKE y \in S
    <2>1. ~ (y + 1 < m + 1)
        BY <1>3, <1>4
    <2>2. y \in Int /\ m \in Int
        BY <1>4, IdValues
    <2> QED
        BY <2>1, <2>2
<1> QED
    BY <1>4, <1>5 DEF Min

-----------------------------------------------------------------------------
(* What the next power loss may take, with damaged files and pins.           *)

BeforeMkdir == {"mark", "markSync", "prune", "pruneSync", "reserve", "mkdir"}
Unmanifested == {"mkdirSync", "chunks", "chunksSync", "ack", "manifest"}

\* The generation that is being written is the newest one, undamaged, and has
\* no MANIFEST before its files are synced.
Writing ==
    /\ Written
    /\ pc # "idle" => \A i \in Present(seen) : i <= id
    /\ pc \in BeforeMkdir => id \notin Present(seen)
    /\ pc \in Unmanifested => seen[id] \subseteq {"dir", "chunks", "ack"}
    /\ pc = "mkdirSync" => seen[id] = {"dir"}
    /\ pc \notin {"idle"} \cup BeforeMkdir => damaged[id] = {}
    /\ pc \in NamedSteps => cur = id

\* CURRENT is known on the disk, except between its rename and the fsync.
CurrentKnown == pc # "currentSync" => curDisk = {cur}

\* The entries of a generation with a MANIFEST are synced, but for the one
\* whose fsync is the next step.
Unsynced(i) ==
    IF (pc = "markSync" /\ i = cur) \/ (pc = "publishSync" /\ i = id)
    THEN {"published"} ELSE {}

Solid ==
    \A i \in Ids :
        /\ seen[i] # {} => "dir" \in seen[i]
        /\ ("manifest" \in seen[i] /\ ~(pc = "manifestSync" /\ i = id))
              => seen[i] \ Unsynced(i) \subseteq durable[i]

\* `protected` is what recovery returns, until it has done its work.
Protected ==
    /\ pc \in {"mark", "markSync", "prune"} =>
          keep = Recovered(seen, damaged, cur) /\ keep # Unreadable
    /\ pc \in {"mark", "markSync"} => cur \in Ids /\ Loads(seen, damaged, cur)

DiskInv == Writing /\ CurrentKnown /\ Solid /\ Protected

\* An empty store satisfies it.
LEMMA DiskInit == Init => DiskInv
<1> SUFFICES ASSUME Init PROVE DiskInv
    OBVIOUS
<1>1. pc = "idle" /\ cur = NoId /\ curDisk = {NoId} /\ \A i \in Ids : seen[i] = {}
    BY DEF Init
<1> QED
    BY <1>1 DEF DiskInv, Writing, Written, CurrentKnown, Solid, Unsynced, Protected,
                NamedSteps, BeforeMkdir, Unmanifested

\* Steps that write, sync, remove or fail leave the generation being written
\* as commit_bytes has left it.
LEMMA WritingStep ==
    ASSUME TypeOK, Busy, Solid, Writing, [Next]_vars
    PROVE  Writing'
<1> USE DEF Writing, Written, Both, NamedSteps, BeforeMkdir, Unmanifested,
            Committed, Present, diskVars, memVars, histVars, At, Goto
<1>1. CASE StartResumed \/ StartFresh \/ (\E i \in Requests : StartAt(i))
    BY <1>1 DEF StartResumed, StartFresh, StartAt, Opened
<1>2. CASE \E i \in Ids : Begin(i)
    <2> PICK i \in Ids : Begin(i)
        BY <1>2
    <2>1. \A k \in Present(seen) : k < i
        BY DiskNextAbove, DiskNextType, IdValues DEF Begin
    <2>2. pc' \in {"mark", "prune"} /\ id' = i /\ seen' = seen
        BY DEF Begin
    <2>3. \A k \in Present(seen) : k <= i /\ k # i
        BY <2>1, IdValues
    <2> QED
        BY <2>2, <2>3
<1>3. CASE Mark
    BY <1>3 DEF Mark, AddEntry, TypeOK
<1>4. CASE MarkSync
    BY <1>4 DEF MarkSync, SyncGeneration, TypeOK
<1>5. CASE Prune
    BY <1>5 DEF Prune, RemoveAll
<1>6. CASE PruneSync
    BY <1>6 DEF PruneSync, SyncRoot, RootSynced
<1>7. CASE Reserve
    BY <1>7 DEF Reserve
<1>8. CASE Mkdir
    <2>1. seen[id] = {} /\ id \in Ids
        BY <1>8 DEF Mkdir, Solid, Busy
    <2>2. /\ pc' = "mkdirSync" /\ id' = id /\ seen' = [seen EXCEPT ![id] = @ \cup {"dir"}]
          /\ damaged' = [damaged EXCEPT ![id] = {}] /\ pc = "mkdir"
        BY <1>8 DEF Mkdir, AddEntry
    <2>3. seen'[id] = {"dir"} /\ \A i \in Ids : i # id => seen'[i] = seen[i]
        BY <2>1, <2>2 DEF TypeOK
    <2>4. id <= id
        BY <2>1, IdValues
    <2>5. \A i \in Present(seen)' : i <= id
        BY <2>2, <2>3, <2>4
    <2>6. damaged'[id] = {}
        BY <2>1, <2>2 DEF TypeOK
    <2> QED
        BY <2>2, <2>3, <2>5, <2>6
<1>9. CASE MkdirSync
    <2>1. id \in Ids /\ pc = "mkdirSync" /\ "dir" \in seen[id]
        BY <1>9 DEF MkdirSync, Busy
    <2>2. durable'[id] = {"dir"}
        BY <1>9, <2>1 DEF MkdirSync, RootSynced
    <2>3. pc' = "chunks" /\ id' = id /\ seen' = seen /\ damaged' = damaged
        BY <1>9 DEF MkdirSync
    <2> QED
        BY <2>1, <2>2, <2>3
<1>10. CASE WriteChunks \/ WriteAck \/ WriteManifest \/ Publish
    BY <1>10 DEF WriteChunks, WriteAck, WriteManifest, Publish, Write, AddEntry,
                 TypeOK, Busy
<1>11. CASE ChunksSync \/ ManifestSync \/ PublishSync
    BY <1>11 DEF ChunksSync, ManifestSync, PublishSync, SyncFiles,
                 SyncGeneration, TypeOK, Busy
<1>12. CASE RenameCurrent
    BY <1>12 DEF RenameCurrent, Busy
<1>13. CASE CurrentSync
    BY <1>13 DEF CurrentSync, SyncRoot, RootSynced, Busy
<1>14. CASE Trim
    <2>1. cur = id /\ id \in Ids
        BY <1>14 DEF Trim, Busy
    <2>2. seen'[cur] = seen[cur]
        BY <1>14, <2>1 DEF Trim, PruneSet, Prunable, RemoveAll
    <2>3. \A i \in Ids : seen'[i] \subseteq seen[i]
        BY <1>14 DEF Trim, RemoveAll
    <2>4. \/ pc' = "idle"
          \/ pc' = "trimSync" /\ id' = id
        BY <1>14 DEF Trim, Return
    <2>5. cur' = cur /\ durable' = durable /\ damaged' = damaged /\ pc = "trim"
        BY <1>14 DEF Trim
    <2> QED
        BY <2>1, <2>2, <2>3, <2>4, <2>5
<1>15. CASE TrimSync
    BY <1>15 DEF TrimSync, Return
<1>16. CASE Stop \/ Kill \/ PowerLoss
    BY <1>16 DEF Stop, Kill, PowerLoss, Forget
<1>17. CASE CommitFails \/ MaintenanceFails \/ PruneFails
    BY <1>17 DEF CommitFails, MaintenanceFails, PruneFails, Return
<1>18. CASE Damage
    BY <1>18 DEF Damage
<1>19. CASE UNCHANGED vars
    BY <1>19 DEF vars
<1> QED
    BY <1>1, <1>2, <1>3, <1>4, <1>5, <1>6, <1>7, <1>8, <1>9, <1>10, <1>11,
       <1>12, <1>13, <1>14, <1>15, <1>16, <1>17, <1>18, <1>19
    DEF Next, Commit

\* While the fsync of CURRENT is not lost, CURRENT is in doubt only between its rename
\* and the fsync behind it.
LEMMA CurrentKnownStep ==
    ASSUME "currentSync" \notin LostSyncs, TypeOK, Writing, CurrentKnown, [Next]_vars
    PROVE  CurrentKnown'
<1> USE DEF CurrentKnown, diskVars, memVars, histVars, At, Goto
<1>1. CASE StartResumed \/ StartFresh \/ (\E i \in Requests : StartAt(i))
    BY <1>1 DEF StartResumed, StartFresh, StartAt, Opened
<1>2. CASE \E i \in Ids : Begin(i)
    BY <1>2 DEF Begin
<1>3. CASE Mark \/ MarkSync \/ Reserve \/ Mkdir
    BY <1>3 DEF Mark, MarkSync, Reserve, Mkdir
<1>4. CASE PruneSync \/ MkdirSync \/ CurrentSync
    BY <1>4 DEF PruneSync, MkdirSync, CurrentSync, SyncRoot
<1>5. CASE Prune \/ Trim \/ PruneFails
    BY <1>5 DEF Prune, Trim, PruneFails, Return
<1>6. CASE WriteChunks \/ WriteAck \/ WriteManifest \/ Publish
    BY <1>6 DEF WriteChunks, WriteAck, WriteManifest, Publish, Write
<1>7. CASE ChunksSync \/ ManifestSync \/ PublishSync
    BY <1>7 DEF ChunksSync, ManifestSync, PublishSync, SyncFiles
<1>8. CASE RenameCurrent
    BY <1>8 DEF RenameCurrent
<1>9. CASE TrimSync
    BY <1>9 DEF TrimSync, SyncRoot, Return
<1>10. CASE Stop \/ Kill
    BY <1>10 DEF Stop, Kill, Forget, Interruptible, SyncSteps
<1>11. CASE CommitFails \/ MaintenanceFails
    BY <1>11 DEF CommitFails, MaintenanceFails, MaintenanceSteps,
                                           Interruptible, SyncSteps, Return
<1>12. CASE PowerLoss
    BY <1>12 DEF PowerLoss, Forget
<1>13. CASE Damage
    BY <1>13 DEF Damage
<1>14. CASE UNCHANGED vars
    BY <1>14 DEF vars
<1> QED
    BY <1>1, <1>2, <1>3, <1>4, <1>5, <1>6, <1>7, <1>8, <1>9, <1>10, <1>11,
       <1>12, <1>13, <1>14
    DEF Next, Commit

\* Pruning, also a prune that fails half way, only takes entries away, and
\* leaves the directory of what it has not removed.
LEMMA RemovalStep ==
    ASSUME TypeOK, Prune \/ Trim \/ PruneFails
    PROVE  /\ \A i \in Ids : seen'[i] \subseteq seen[i]
           /\ \A i \in Ids : seen'[i] \in {{}, seen[i]} \/ "dir" \in seen'[i]
           /\ UNCHANGED <<durable, cur, curDisk, damaged, pinned, up, damage>>
<1>1. CASE Prune
    BY <1>1 DEF Prune, RemoveAll, histVars
<1>2. CASE Trim
    BY <1>2 DEF Trim, RemoveAll
<1>3. CASE PruneFails
    BY <1>3 DEF PruneFails
<1> QED
    BY <1>1, <1>2, <1>3

\* Every step leaves the generations with a MANIFEST synced, but for the entry
\* it has just written.
LEMMA SolidStep ==
    ASSUME LostSyncs = {}, TypeOK, Busy, Writing, Solid, Protected, [Next]_vars
    PROVE  Solid'
<1> USE DEF Solid, Unsynced, diskVars, memVars, histVars, At, Goto
<1>1. CASE StartResumed \/ StartFresh \/ (\E i \in Requests : StartAt(i))
    BY <1>1 DEF StartResumed, StartFresh, StartAt, Opened
<1>2. CASE \E i \in Ids : Begin(i)
    BY <1>2 DEF Begin
<1>3. CASE Mark
    <2>1. /\ cur \in Ids /\ pc = "mark" /\ pc' = "markSync" /\ cur' = cur
          /\ durable' = durable /\ seen' = [seen EXCEPT ![cur] = @ \cup {"published"}]
          /\ Loads(seen, damaged, cur)
        BY <1>3 DEF Mark, AddEntry, Protected
    <2>2. {"dir", "manifest"} \subseteq seen[cur]
        BY <2>1 DEF Loads, Committed
    <2>3. /\ seen'[cur] = seen[cur] \cup {"published"}
          /\ \A i \in Ids : i # cur => seen'[i] = seen[i]
        BY <2>1 DEF TypeOK
    <2> QED
        BY <2>1, <2>2, <2>3
<1>4. CASE MarkSync
    <2>1. /\ cur \in Ids /\ pc = "markSync" /\ pc' = "prune" /\ cur' = cur
          /\ seen' = seen /\ Loads(seen, damaged, cur)
          /\ durable' = [durable EXCEPT ![cur] =
                            (@ \cap {"dir"}) \cup (seen[cur] \ {"dir"})]
        BY <1>4 DEF MarkSync, SyncGeneration, Protected
    <2>2. {"dir", "manifest"} \subseteq seen[cur]
        BY <2>1 DEF Loads, Committed
    <2>3. "dir" \in durable[cur]
        BY <2>1, <2>2
    <2>4. /\ durable'[cur] = (durable[cur] \cap {"dir"}) \cup (seen[cur] \ {"dir"})
          /\ \A i \in Ids : i # cur => durable'[i] = durable[i]
        BY <2>1 DEF TypeOK
    <2> QED
        BY <2>1, <2>3, <2>4
<1>5. CASE Prune \/ Trim \/ PruneFails
    <2>1. \A i \in Ids : seen'[i] # {} => "dir" \in seen'[i]
        BY <1>5, RemovalStep
    <2>2. pc \in {"prune", "trim"}
        BY <1>5 DEF Prune, Trim, PruneFails
    <2>3. \A i \in Ids : "manifest" \in seen[i] => seen[i] \subseteq durable[i]
        BY <2>2
    <2> QED
        BY <1>5, <2>1, <2>3, RemovalStep
<1>6. CASE PruneSync \/ CurrentSync \/ TrimSync
    <2>1. /\ seen' = seen
          /\ \A i \in Ids : durable'[i] = IF "dir" \in seen[i]
                                          THEN durable[i] \cup {"dir"} ELSE {}
        BY <1>6 DEF PruneSync, CurrentSync, TrimSync, SyncRoot, RootSynced
    <2>2. pc \in {"pruneSync", "currentSync", "trimSync"}
        BY <1>6 DEF PruneSync, CurrentSync, TrimSync
    <2> QED
        BY <2>1, <2>2
<1>7. CASE Reserve
    BY <1>7 DEF Reserve
<1>8. CASE Mkdir
    <2>1. /\ id \in Ids /\ seen[id] = {}
        BY <1>8 DEF Mkdir, Busy, Writing, BeforeMkdir, Present
    <2>2. /\ pc = "mkdir" /\ pc' = "mkdirSync" /\ durable' = durable /\ id' = id
          /\ seen'[id] = {"dir"}
          /\ \A i \in Ids : i # id => seen'[i] = seen[i]
        BY <1>8, <2>1 DEF Mkdir, AddEntry, TypeOK
    <2> QED
        BY <2>1, <2>2
<1>9. CASE MkdirSync
    <2>1. /\ id \in Ids /\ pc = "mkdirSync" /\ pc' = "chunks" /\ id' = id /\ seen' = seen
          /\ seen[id] \subseteq {"dir", "chunks", "ack"}
        BY <1>9 DEF MkdirSync, Busy, Writing, Unmanifested
    <2>2. \A i \in Ids : i # id => durable'[i] = IF "dir" \in seen[i]
                                          THEN durable[i] \cup {"dir"} ELSE {}
        BY <1>9 DEF MkdirSync, RootSynced
    <2>3. "manifest" \notin seen[id]
        BY <2>1
    <2> QED
        BY <2>1, <2>2, <2>3
<1>10. CASE WriteChunks \/ WriteAck
    <2>1. /\ id \in Ids /\ pc \in {"chunks", "ack"} /\ pc' \in {"chunksSync", "manifest"}
          /\ id' = id /\ durable' = durable /\ "dir" \in seen[id]
          /\ "manifest" \notin seen[id]
        BY <1>10 DEF WriteChunks, WriteAck, Write, Busy, Writing, Unmanifested,
                     Written, Both
    <2>2. /\ "dir" \in seen'[id] /\ "manifest" \notin seen'[id]
          /\ \A i \in Ids : i # id => seen'[i] = seen[i]
        BY <1>10, <2>1 DEF WriteChunks, WriteAck, Write, AddEntry, TypeOK
    <2> QED
        BY <2>1, <2>2
<1>11. CASE WriteManifest
    <2>1. /\ id \in Ids /\ pc = "manifest" /\ pc' = "manifestSync"
          /\ id' = id /\ durable' = durable /\ "dir" \in seen[id]
        BY <1>11 DEF WriteManifest, Write, Busy, Writing, Written, Both
    <2>2. /\ "dir" \in seen'[id]
          /\ \A i \in Ids : i # id => seen'[i] = seen[i]
        BY <1>11, <2>1 DEF WriteManifest, Write, AddEntry, TypeOK
    <2> QED
        BY <2>1, <2>2
<1>12. CASE Publish
    <2>1. /\ id \in Ids /\ pc = "publish" /\ pc' = "publishSync"
          /\ id' = id /\ durable' = durable /\ {"dir", "manifest"} \subseteq seen[id]
        BY <1>12 DEF Publish, Write, Busy, Writing, Written, Both, NamedSteps, Committed
    <2>2. /\ seen'[id] = seen[id] \cup {"published"}
          /\ \A i \in Ids : i # id => seen'[i] = seen[i]
        BY <1>12, <2>1 DEF Publish, Write, AddEntry, TypeOK
    <2> QED
        BY <2>1, <2>2
<1>13. CASE ChunksSync \/ ManifestSync \/ PublishSync
    <2>1. /\ id \in Ids /\ pc \in {"chunksSync", "manifestSync", "publishSync"}
          /\ pc' \in {"ack", "current", "trim"} /\ id' = id /\ seen' = seen
          /\ "dir" \in durable[id]
        BY <1>13 DEF ChunksSync, ManifestSync, PublishSync, SyncFiles, Busy, Writing,
                     Written, Both, NamedSteps, Committed
    <2>2. /\ durable'[id] = (durable[id] \cap {"dir"}) \cup (seen[id] \ {"dir"})
          /\ \A i \in Ids : i # id => durable'[i] = durable[i]
        BY <1>13, <2>1 DEF ChunksSync, ManifestSync, PublishSync, SyncFiles,
                           SyncGeneration, TypeOK
    <2>3. seen[id] \subseteq durable'[id]
        BY <2>1, <2>2
    <2> QED
        BY <2>1, <2>2, <2>3
<1>14. CASE RenameCurrent
    BY <1>14 DEF RenameCurrent
<1>15. CASE Stop \/ Kill
    BY <1>15 DEF Stop, Kill, Forget, Interruptible, SyncSteps
<1>16. CASE CommitFails
    BY <1>16 DEF CommitFails, Interruptible, SyncSteps
<1>17. CASE MaintenanceFails
    BY <1>17 DEF MaintenanceFails, Interruptible, SyncSteps, MaintenanceSteps,
                                   Return
<1>18. CASE PowerLoss
    <2>1. durable' = seen' /\ pc' = "idle"
        BY <1>18 DEF PowerLoss, Forget
    <2>2. \A i \in Ids : seen'[i] # {} => "dir" \in seen'[i]
        BY <1>18 DEF PowerLoss, Images
    <2> QED
        BY <2>1, <2>2
<1>19. CASE Damage
    BY <1>19 DEF Damage
<1>20. CASE UNCHANGED vars
    BY <1>20 DEF vars
<1> QED
    BY <1>1, <1>2, <1>3, <1>4, <1>5, <1>6, <1>7, <1>8, <1>9, <1>10, <1>11,
       <1>12, <1>13, <1>14, <1>15, <1>16, <1>17, <1>18, <1>19, <1>20
    DEF Next, Commit

\* The generation that prune is told to keep is the one recovery returns.
LEMMA ProtectedStep ==
    ASSUME TypeOK, Protected, [Next]_vars
    PROVE  Protected'
<1> USE DEF diskVars, memVars, histVars, At, Goto
<1>1. CASE \E i \in Ids : Begin(i)
    <2> PICK i \in Ids : Begin(i)
        BY <1>1
    <2>1. keep' = Recovered(seen, damaged, cur)
        BY RecoverIs DEF Begin
    <2>2. keep' # Unreadable
        <3>1. CASE cur = NoId
            BY <3>1, <2>1, IdValues DEF Recovered
        <3>2. CASE cur # NoId
            BY <3>2, IdValues DEF Begin, Recoverable
        <3> QED
            BY <3>1, <3>2
    <2>3. pc' = "mark" => cur \in Ids /\ Loads(seen, damaged, cur)
        BY RecoverIs DEF Begin
    <2>4. pc' \in {"mark", "prune"} /\ seen' = seen /\ damaged' = damaged /\ cur' = cur
        BY DEF Begin
    <2> QED
        BY <2>1, <2>2, <2>3, <2>4 DEF Protected
<1>2. CASE Mark
    <2>1. /\ cur \in Ids /\ Loads(seen, damaged, cur) /\ cur' = cur /\ keep' = keep
          /\ keep = Recovered(seen, damaged, cur) /\ pc' = "markSync"
        BY <1>2 DEF Mark, Protected
    <2>2. seen[cur] \subseteq seen'[cur] /\ damaged'[cur] \subseteq damaged[cur]
        BY <1>2, <2>1 DEF Mark, AddEntry, TypeOK
    <2>3. Loads(seen', damaged', cur)
        BY <2>1, <2>2 DEF Loads
    <2>4. keep = cur /\ Recovered(seen', damaged', cur) = cur /\ cur # Unreadable
        BY <2>1, <2>3, IdValues DEF Recovered
    <2> QED
        BY <2>1, <2>3, <2>4 DEF Protected
<1>3. CASE MarkSync
    BY <1>3 DEF MarkSync, Protected
<1>4. CASE UNCHANGED vars
    BY <1>4 DEF vars, Protected
<1>5. CASE StartResumed \/ StartFresh \/ (\E i \in Requests : StartAt(i))
    BY <1>5 DEF StartResumed, StartFresh, StartAt, Opened, Protected
<1>6. CASE Damage
    BY <1>6 DEF Damage, Protected
<1>7. CASE Prune \/ PruneSync \/ Reserve \/ Mkdir \/ MkdirSync
    BY <1>7 DEF Prune, PruneSync, Reserve, Mkdir, MkdirSync, Protected
<1>8. CASE WriteChunks \/ WriteAck \/ WriteManifest \/ Publish \/ ChunksSync \/
           ManifestSync \/ PublishSync
    BY <1>8 DEF WriteChunks, WriteAck, WriteManifest, Publish, Write, ChunksSync,
                ManifestSync, PublishSync, SyncFiles, Protected
<1>9. CASE RenameCurrent \/ CurrentSync \/ Trim \/ TrimSync
    BY <1>9 DEF RenameCurrent, CurrentSync, Trim, TrimSync, Return, Protected
<1>10. CASE Stop \/ Kill \/ PowerLoss \/ CommitFails \/ PruneFails \/ MaintenanceFails
    BY <1>10 DEF Stop, Kill, PowerLoss, Forget, CommitFails, PruneFails,
                 MaintenanceFails, Return, Protected
<1> QED
    BY <1>1, <1>2, <1>3, <1>4, <1>5, <1>6, <1>7, <1>8, <1>9, <1>10 DEF Next, Commit

\* Every step keeps what is known of the disk.
LEMMA DiskStep ==
    ASSUME LostSyncs = {}
    PROVE  TypeOK /\ Busy /\ DiskInv /\ [Next]_vars => DiskInv'
BY WritingStep, CurrentKnownStep, SolidStep, ProtectedStep DEF DiskInv

\* The worst recovery, with the damage made explicit.
LEMMA FloorIs ==
    Floor = Min({Recovered(Certain, damaged, c) : c \in PossibleCurrent})
BY RecoverIs DEF Floor

\* It is one of the possible recoveries and none is older.
FloorLeast ==
    /\ \E c \in PossibleCurrent : Floor = Recovered(Certain, damaged, c)
    /\ \A c \in PossibleCurrent : Floor <= Recovered(Certain, damaged, c)
    /\ PossibleCurrent \subseteq Values

\* Recovery after a power loss always has a least result.
LEMMA FloorValue == TypeOK => FloorLeast
<1> SUFFICES ASSUME TypeOK PROVE FloorLeast
    OBVIOUS
<1> DEFINE S == {Recovered(Certain, damaged, c) : c \in PossibleCurrent}
<1>1. PossibleCurrent \subseteq Values /\ cur \in PossibleCurrent
    BY DEF TypeOK, PossibleCurrent, Values
<1>2. S \in SUBSET Values /\ S # {}
    BY <1>1, RecoveredType
<1>3. Min(S) \in S /\ \A y \in S : Min(S) <= y
    BY <1>2, MinOfValues
<1>4. Floor = Min(S)
    BY FloorIs
<1> QED
    BY <1>1, <1>3, <1>4 DEF FloorLeast

\* If every recovery after a step is no older than one before it, neither is
\* the worst.
LEMMA FloorKept ==
    ASSUME TypeOK, TypeOK',
           \A c \in PossibleCurrent' : \E b \in PossibleCurrent :
              Recovered(Certain, damaged, b) <= Recovered(Certain', damaged', c)
    PROVE  Floor <= Floor'
<1>1. /\ \E c \in PossibleCurrent' : Floor' = Recovered(Certain', damaged', c)
      /\ PossibleCurrent' \subseteq Values
    <2>1. (TypeOK => FloorLeast)'
        BY FloorValue, PTL
    <2> QED
        BY <2>1 DEF FloorLeast
<1>2. PICK c \in PossibleCurrent' : Floor' = Recovered(Certain', damaged', c)
    BY <1>1
<1>3. PICK b \in PossibleCurrent :
          Recovered(Certain, damaged, b) <= Recovered(Certain', damaged', c)
    OBVIOUS
<1>4. /\ Floor <= Recovered(Certain, damaged, b)
      /\ \E a \in PossibleCurrent : Floor = Recovered(Certain, damaged, a)
      /\ PossibleCurrent \subseteq Values
    BY FloorValue DEF FloorLeast
<1>5. /\ Floor \in Int /\ Recovered(Certain, damaged, b) \in Int
      /\ Recovered(Certain', damaged', c) \in Int
    BY <1>1, <1>4, RecoveredType, IdValues
<1> QED
    BY <1>2, <1>3, <1>4, <1>5

\* An entry is certain if it is seen and synced; more of both is more of it.
LEMMA CertainGrows ==
    ASSUME NEW i \in Ids, seen[i] \subseteq seen'[i],
           "dir" \in seen[i] \cap durable[i] => seen[i] \cap durable[i] \subseteq durable'[i]
    PROVE  Certain[i] \subseteq Certain'[i]
BY DEF Certain

\* What is certain is seen, and for a generation with a MANIFEST the two agree.
LEMMA CertainSolid ==
    ASSUME TypeOK, Solid, NEW i \in Ids
    PROVE  /\ Certain[i] \subseteq seen[i]
           /\ ("manifest" \in seen[i] /\ pc \in {"prune", "trim"}) => Certain[i] = seen[i]
BY DEF Certain, Solid, Unsynced

\* A step that takes nothing away from the disk keeps the worst recovery.
LEMMA FloorGrows ==
    ASSUME TypeOK, TypeOK', PossibleCurrent' \subseteq PossibleCurrent,
           \A i \in Ids : Certain[i] \subseteq Certain'[i] /\ damaged'[i] \subseteq damaged[i]
    PROVE  Floor <= Floor'
<1>1. PossibleCurrent \subseteq Values
    BY FloorValue DEF FloorLeast
<1>2. ASSUME NEW c \in PossibleCurrent'
      PROVE  \E b \in PossibleCurrent :
                Recovered(Certain, damaged, b) <= Recovered(Certain', damaged', c)
    BY <1>1, <1>2, RecoveredGrows
<1> QED
    BY <1>2, FloorKept

\* prune removes neither what it protects nor CURRENT.
LEMMA PruneSpares ==
    ASSUME TypeOK, Prune \/ Trim \/ PruneFails
    PROVE  /\ pc \in {"prune", "trim"}
           /\ \A i \in Ids : i = cur \/ i = (IF pc = "prune" THEN keep ELSE id)
                                => seen'[i] = seen[i]
<1>1. CASE Prune
    BY <1>1 DEF Prune, At, RemoveAll, PruneSet, Prunable
<1>2. CASE Trim
    BY <1>2 DEF Trim, At, RemoveAll, PruneSet, Prunable
<1>3. CASE PruneFails
    <2> DEFINE p == IF pc = "prune" THEN keep ELSE id
    <2>1. PICK R \in SUBSET Present(seen) : \E v \in R : \E left \in SUBSET seen[v] :
             /\ PruneSet(R, p, IF pc = "prune" THEN 1 ELSE 0)
             /\ seen' = [i \in Ids |-> IF i = v THEN left
                                   ELSE IF i \in R /\ PrunedBefore(i, v) THEN {}
                                   ELSE seen[i]]
        BY <1>3 DEF PruneFails
    <2>2. R \subseteq Present(seen) \ {p, pinned, cur}
        BY <2>1 DEF PruneSet, Prunable
    <2>3. \A i \in Ids : i \notin R => seen'[i] = seen[i]
        BY <2>1
    <2>4. pc \in {"prune", "trim"}
        BY <1>3 DEF PruneFails
    <2> QED
        BY <2>2, <2>3, <2>4
<1> QED
    BY <1>1, <1>2, <1>3

\* Retention keeps the worst recovery, also when CURRENT's generation is
\* damaged and its fallback is what recovery would return.
LEMMA FloorPrune ==
    ASSUME TypeOK, TypeOK', Busy, DiskInv, Prune \/ Trim \/ PruneFails
    PROVE  Floor <= Floor'
<1>1. /\ pc \in {"prune", "trim"} /\ durable' = durable /\ cur' = cur
      /\ curDisk' = curDisk /\ damaged' = damaged
    BY PruneSpares, RemovalStep
<1>2. PossibleCurrent = {cur} /\ PossibleCurrent' = {cur} /\ cur \in Values
    BY <1>1 DEF DiskInv, CurrentKnown, PossibleCurrent, TypeOK, Values
<1> DEFINE r == Recovered(Certain, damaged, cur)
<1>3. r <= Recovered(Certain', damaged, cur)
    <2>1. CASE r \notin Ids
        <3>1. r = NoId => cur = NoId
            BY <1>2, RecoveredLoads, IdValues
        <3>2. r = NoId => Recovered(Certain', damaged, cur) = NoId
            BY <3>1 DEF Recovered
        <3>3. r \in Values /\ Recovered(Certain', damaged, cur) \in Values
            BY <1>2, RecoveredType
        <3>4. r = NoId \/ r = Unreadable
            BY <2>1, <3>3 DEF Values
        <3> QED
            BY <3>2, <3>3, <3>4, IdValues
    <2>2. CASE r \in Ids /\ pc = "prune"
        <3>1. keep = Recovered(seen, damaged, cur)
            BY <2>2 DEF DiskInv, Protected
        <3>2. r <= keep
            <4>1. \A i \in Ids : Certain[i] \subseteq seen[i]
                BY CertainSolid DEF DiskInv
            <4> QED
                BY <1>2, <3>1, <4>1, RecoveredGrows
        <3>3. keep \in Ids /\ cur # NoId
            <4>1. cur # NoId
                BY <1>2, <2>2, RecoveredLoads, IdValues
            <4>2. keep # Unreadable /\ keep \in Values /\ keep # NoId
                BY <1>2, <2>2, <3>1, <4>1, RecoveredType, RecoveredLoads, IdValues
                DEF DiskInv, Protected
            <4> QED
                BY <4>1, <4>2 DEF Values
        <3>4. /\ Loads(seen, damaged, keep)
              /\ keep = cur \/ (Marked(seen, damaged, keep) /\ (cur # Unreadable => keep < cur))
            BY <1>2, <3>1, <3>3, RecoveredLoads, IdValues
        <3>5. Certain[keep] = seen[keep]
            BY <1>1, <3>3, <3>4, CertainSolid DEF DiskInv, Loads, Committed
        <3>6. seen'[keep] = seen[keep]
            BY <2>2, <3>3, PruneSpares
        <3>7. Certain'[keep] = seen[keep]
            BY <1>1, <3>3, <3>5, <3>6 DEF Certain
        <3>8. /\ Loads(Certain', damaged, keep)
              /\ keep = cur \/ (Marked(Certain', damaged, keep) /\ (cur # Unreadable => keep < cur))
            BY <3>4, <3>7 DEF Loads, Marked
        <3>9. keep <= Recovered(Certain', damaged, cur)
            BY <1>2, <3>3, <3>8, RecoveredAtLeast
        <3> QED
            BY <1>2, <2>2, <3>2, <3>3, <3>9, RecoveredType, IdValues
    <2>3. CASE r \in Ids /\ pc = "trim"
        <3>1. cur = id /\ id \in Ids /\ Committed \subseteq Both(id) /\ damaged[id] = {}
            BY <2>3 DEF DiskInv, Writing, Written, NamedSteps, Busy, BeforeMkdir
        <3>2. seen'[id] = seen[id]
            BY <3>1, PruneSpares
        <3>3. Committed \subseteq Certain[id] /\ Committed \subseteq Certain'[id]
            BY <1>1, <3>1, <3>2 DEF Certain, Both, Committed
        <3>4. Loads(Certain, damaged, id) /\ Loads(Certain', damaged, id)
            BY <3>1, <3>3 DEF Loads
        <3>5. r = id /\ Recovered(Certain', damaged, cur) = id
            BY <3>1, <3>4, IdValues DEF Recovered
        <3> QED
            BY <3>1, <3>5, IdValues
    <2> QED
        BY <1>1, <2>1, <2>2, <2>3
<1> QED
    BY <1>1, <1>2, <1>3, FloorKept

\* The rename of CURRENT adds a recovery that is newer than every other.
LEMMA FloorRename ==
    ASSUME TypeOK, TypeOK', Busy, DiskInv, RenameCurrent
    PROVE  Floor <= Floor'
<1>1. /\ pc = "current" /\ id \in Ids /\ seen' = seen /\ durable' = durable
      /\ damaged' = damaged /\ PossibleCurrent' \subseteq PossibleCurrent \cup {id}
    BY DEF RenameCurrent, At, Busy, PossibleCurrent
<1>2. Certain' = Certain
    BY <1>1 DEF Certain
<1>3. PossibleCurrent \subseteq Values /\ cur \in PossibleCurrent
    BY FloorValue DEF FloorLeast, PossibleCurrent
<1>4. /\ Committed \subseteq Both(id) /\ damaged[id] = {}
      /\ \A i \in Present(seen) : i <= id
    BY <1>1 DEF DiskInv, Writing, Written, BeforeMkdir
<1>5. Recovered(Certain, damaged, id) = id
    <2>1. Committed \subseteq Certain[id]
        BY <1>1, <1>4 DEF Certain, Both, Committed
    <2>2. Loads(Certain, damaged, id)
        BY <1>4, <2>1 DEF Loads
    <2> QED
        BY <1>1, <2>2, IdValues DEF Recovered
<1>6. Recovered(Certain, damaged, cur) <= id
    <2> DEFINE r == Recovered(Certain, damaged, cur)
    <2>1. CASE r \in Ids
        <3>1. Loads(Certain, damaged, r)
            BY <1>3, <2>1, RecoveredLoads, IdValues
        <3>2. "dir" \in seen[r]
            BY <2>1, <3>1, CertainSolid DEF Loads, Committed, DiskInv
        <3> QED
            BY <1>4, <2>1, <3>2 DEF Present
    <2>2. CASE r \notin Ids
        BY <1>1, <1>3, <2>2, RecoveredType, IdValues DEF Values
    <2> QED
        BY <2>1, <2>2
<1>7. ASSUME NEW c \in PossibleCurrent'
      PROVE  \E b \in PossibleCurrent :
                Recovered(Certain, damaged, b) <= Recovered(Certain', damaged', c)
    <2>1. CASE c = id
        BY <1>1, <1>2, <1>3, <1>5, <1>6, <2>1
    <2>2. CASE c \in PossibleCurrent
        <3>1. Recovered(Certain, damaged, c) \in Int
            BY <1>3, <2>2, RecoveredType, IdValues
        <3> QED
            BY <1>1, <1>2, <2>2, <3>1
    <2> QED
        BY <1>1, <1>7, <2>1, <2>2
<1> QED
    BY <1>7, FloorKept

\* Only a media fault makes the worst recovery older.
LEMMA FloorStep ==
    ASSUME LostSyncs = {}, TypeOK, TypeOK', Busy, DiskInv, [Next]_vars, damage' = damage
    PROVE  Floor <= Floor'
<1> USE DEF diskVars, memVars, histVars, At, Goto
<1>1. ASSUME UNCHANGED diskVars PROVE Floor <= Floor'
    <2>1. PossibleCurrent' = PossibleCurrent /\ Certain' = Certain
        BY <1>1 DEF PossibleCurrent, Certain
    <2> QED
        BY <1>1, <2>1, FloorGrows
<1>2. ASSUME durable' = durable, cur' = cur, curDisk' = curDisk,
             \A i \in Ids : seen[i] \subseteq seen'[i] /\ damaged'[i] \subseteq damaged[i]
      PROVE  Floor <= Floor'
    <2>1. PossibleCurrent' = PossibleCurrent
        BY <1>2 DEF PossibleCurrent
    <2>2. \A i \in Ids : Certain[i] \subseteq Certain'[i]
        BY <1>2, CertainGrows
    <2> QED
        BY <1>2, <2>1, <2>2, FloorGrows
<1>3. ASSUME seen' = seen, cur' = cur, damaged' = damaged,
             curDisk' \subseteq curDisk \cup {cur},
             \A i \in Ids : "dir" \in seen[i] \cap durable[i]
                               => seen[i] \cap durable[i] \subseteq durable'[i]
      PROVE  Floor <= Floor'
    <2>1. PossibleCurrent' \subseteq PossibleCurrent
        BY <1>3 DEF PossibleCurrent
    <2>2. \A i \in Ids : Certain[i] \subseteq Certain'[i]
        BY <1>3, CertainGrows
    <2> QED
        BY <1>3, <2>1, <2>2, FloorGrows
<1>4. CASE StartResumed \/ StartFresh \/ (\E i \in Requests : StartAt(i))
    BY <1>4, <1>1 DEF StartResumed, StartFresh, StartAt, Opened
<1>5. CASE (\E i \in Ids : Begin(i)) \/ Reserve \/ Stop \/ Kill
    BY <1>5, <1>1 DEF Begin, Reserve, Stop, Kill
<1>6. CASE CommitFails \/ MaintenanceFails
    BY <1>6, <1>1 DEF CommitFails, MaintenanceFails
<1>7. CASE UNCHANGED vars
    BY <1>7, <1>1 DEF vars
<1>8. CASE Mark
    BY <1>8, <1>2 DEF Mark, AddEntry, TypeOK
<1>9. CASE Mkdir
    BY <1>9, <1>2 DEF Mkdir, AddEntry, TypeOK
<1>10. CASE WriteChunks \/ WriteAck \/ WriteManifest \/ Publish
    BY <1>10, <1>2 DEF WriteChunks, WriteAck, WriteManifest, Publish, Write, AddEntry,
                       TypeOK
<1>11. CASE MarkSync
    BY <1>11, <1>3 DEF MarkSync, SyncGeneration, TypeOK
<1>12. CASE ChunksSync \/ ManifestSync \/ PublishSync
    BY <1>12, <1>3 DEF ChunksSync, ManifestSync, PublishSync, SyncFiles, SyncGeneration,
                       TypeOK
<1>13. CASE PruneSync \/ CurrentSync \/ TrimSync
    BY <1>13, <1>3 DEF PruneSync, CurrentSync, TrimSync, SyncRoot, RootSynced
<1>14. CASE MkdirSync
    <2>1. id \in Ids /\ seen[id] = {"dir"}
        BY <1>14 DEF MkdirSync, Busy, DiskInv, Writing
    <2>2. /\ durable'[id] = {"dir"}
          /\ \A i \in Ids : i # id => durable'[i] = IF "dir" \in seen[i]
                                THEN durable[i] \cup {"dir"} ELSE {}
        BY <1>14, <2>1 DEF MkdirSync, RootSynced
    <2>3. \A i \in Ids : "dir" \in seen[i] \cap durable[i]
                               => seen[i] \cap durable[i] \subseteq durable'[i]
        BY <2>1, <2>2
    <2> QED
        BY <1>14, <2>3, <1>3 DEF MkdirSync
<1>15. CASE Prune \/ Trim \/ PruneFails
    BY <1>15, FloorPrune
<1>16. CASE RenameCurrent
    BY <1>16, FloorRename
<1>17. CASE PowerLoss
    <2>1. \A i \in Ids : Both(i) \subseteq seen'[i]
        BY <1>17 DEF PowerLoss, Images, TypeOK, Both
    <2>2. durable' = seen' /\ damaged' = damaged
        BY <1>17 DEF PowerLoss
    <2>3. \A i \in Ids : Certain[i] \subseteq Certain'[i]
        BY <2>1, <2>2 DEF Certain, Both
    <2>4. PossibleCurrent' \subseteq PossibleCurrent
        BY <1>17 DEF PowerLoss, PossibleCurrent
    <2> QED
        BY <2>2, <2>3, <2>4, FloorGrows
<1>18. CASE Damage
    BY <1>18, StoreAssumption DEF Damage, TypeOK
<1> QED
    BY <1>4, <1>5, <1>6, <1>7, <1>8, <1>9, <1>10, <1>11, <1>12, <1>13, <1>14,
       <1>15, <1>16, <1>17, <1>18
    DEF Next, Commit

\* While every fsync is honoured, no commit, no pruning, no attempt that fails
\* or is killed between two operations, no restart and no power loss makes the oldest checkpoint that a
\* restart may come back with older, whatever is pinned and however many files
\* are damaged already (prune keeps CURRENT and the fallback recovery would use).
THEOREM RecoveryIsMonotone ==
    ASSUME LostSyncs = {}
    PROVE  Spec => RecoveryNeverRegresses
<1>1. TypeOK /\ TypeOK' /\ Busy /\ DiskInv /\ [Next]_vars
         => [damage' = damage => Floor' >= Floor]_vars
    <2> SUFFICES ASSUME TypeOK, TypeOK', Busy, DiskInv, [Next]_vars, damage' = damage
                 PROVE  Floor' >= Floor
        OBVIOUS
    <2>1. Floor <= Floor'
        BY FloorStep
    <2> QED
        BY <2>1
<1> QED
    BY <1>1, TypeInit, TypeStep, DiskInit, DiskStep, PTL DEF Spec, RecoveryNeverRegresses

-----------------------------------------------------------------------------
(* An automatic start does not begin empty by accident.                      *)

\* Once a commit has made CURRENT durable, no power loss leaves a store
\* without CURRENT.
NeverEmpty ==
    /\ NoId \in PossibleCurrent => acked = {}
    /\ pc \in NamedSteps => cur # NoId
    /\ pc \in MaintenanceSteps => NoId \notin PossibleCurrent

\* Every step keeps it, also one that goes on over a lost fsync.
LEMMA NeverEmptyStep ==
    TypeOK /\ Busy /\ NeverEmpty /\ [Next]_vars => NeverEmpty'
<1> SUFFICES ASSUME TypeOK, Busy, NeverEmpty, [Next]_vars PROVE NeverEmpty'
    OBVIOUS
<1> USE DEF NeverEmpty, NamedSteps, MaintenanceSteps, PossibleCurrent, diskVars,
            memVars, histVars, At, Goto
<1>1. CASE StartResumed \/ StartFresh \/ (\E i \in Requests : StartAt(i))
    BY <1>1 DEF StartResumed, StartFresh, StartAt, Opened
<1>2. CASE \E i \in Ids : Begin(i)
    BY <1>2 DEF Begin
<1>3. CASE Mark \/ MarkSync \/ Prune \/ Reserve \/ Mkdir
    BY <1>3 DEF Mark, MarkSync, Prune, Reserve, Mkdir
<1>4. CASE PruneSync \/ MkdirSync \/ CurrentSync
    BY <1>4 DEF PruneSync, MkdirSync, CurrentSync, SyncRoot
<1>5. CASE WriteChunks \/ WriteAck \/ WriteManifest \/ Publish
    BY <1>5 DEF WriteChunks, WriteAck, WriteManifest, Publish, Write
<1>6. CASE ChunksSync \/ ManifestSync \/ PublishSync
    BY <1>6 DEF ChunksSync, ManifestSync, PublishSync, SyncFiles
<1>7. CASE RenameCurrent
    BY <1>7, IdValues DEF RenameCurrent, Busy
<1>8. CASE Trim
    BY <1>8 DEF Trim, Return
<1>9. CASE TrimSync
    BY <1>9 DEF TrimSync, SyncRoot, Return
<1>10. CASE Stop \/ Kill \/ CommitFails
    BY <1>10 DEF Stop, Kill, Forget, CommitFails
<1>11. CASE PruneFails
    BY <1>11 DEF PruneFails, Return
<1>12. CASE MaintenanceFails
    BY <1>12 DEF MaintenanceFails, Return
<1>13. CASE PowerLoss
    BY <1>13 DEF PowerLoss, Forget
<1>14. CASE Damage
    BY <1>14, IdValues DEF Damage
<1>15. CASE UNCHANGED vars
    BY <1>15 DEF vars
<1> QED
    BY <1>1, <1>2, <1>3, <1>4, <1>5, <1>6, <1>7, <1>8, <1>9, <1>10, <1>11,
       <1>12, <1>13, <1>14, <1>15
    DEF Next, Commit

\* With every retention, pin and fault, a lost fsync and damaged files included,
\* a job starts with empty state only if no checkpoint was ever acknowledged
\* (resume_latest starts fresh without CURRENT and without generations only).
THEOREM FreshStartIsFirst == Spec => NoSilentFreshStart
<1>1. Init => NeverEmpty
    BY DEF Init, NeverEmpty, NamedSteps, MaintenanceSteps
<1>2. TypeOK /\ NeverEmpty /\ [Next]_vars
         => [~up /\ up' /\ origin' = NoId => acked = {}]_vars
    <2> SUFFICES ASSUME TypeOK, NeverEmpty, [Next]_vars, ~up, up', origin' = NoId
                 PROVE  acked = {}
        OBVIOUS
    <2> USE DEF diskVars, memVars, histVars, At
    <2>1. CASE StartResumed
        BY <2>1, IdValues DEF StartResumed, Opened
    <2>2. CASE StartFresh
        BY <2>2 DEF StartFresh, NeverEmpty, PossibleCurrent
    <2>3. CASE \E i \in Requests : StartAt(i)
        BY <2>3, StoreAssumption, IdValues DEF StartAt, Opened
    <2>4. CASE Commit
        BY <2>4 DEF Commit, Begin, Mark, MarkSync, Prune, PruneSync, Reserve, Mkdir,
            MkdirSync, WriteChunks, WriteAck, WriteManifest, Publish, Write, ChunksSync,
            ManifestSync, PublishSync, SyncFiles, RenameCurrent, CurrentSync, Trim,
            TrimSync
    <2>5. CASE Stop \/ CommitFails \/ PruneFails \/ MaintenanceFails \/ Kill \/ PowerLoss
        BY <2>5 DEF Stop, CommitFails, PruneFails, MaintenanceFails, Kill, PowerLoss,
                    Forget
    <2>6. CASE Damage \/ UNCHANGED vars
        BY <2>6 DEF Damage, vars
    <2> QED
        BY <2>1, <2>2, <2>3, <2>4, <2>5, <2>6 DEF Next
<1> QED
    BY <1>1, <1>2, TypeInit, TypeStep, NeverEmptyStep, PTL DEF Spec, NoSilentFreshStart

-----------------------------------------------------------------------------
(* The store implements the register.                                        *)

\* What a restart recovers is CURRENT, and the worst is the least value CURRENT
\* may have after a power loss.
CurrentDecides ==
    /\ Latest = cur
    /\ Floor \in PossibleCurrent /\ \A c \in PossibleCurrent : Floor <= c
    /\ PossibleCurrent \subseteq Ids \cup {NoId}

\* Without media faults CURRENT decides.
LEMMA IntactRecovers == TypeOK /\ Intact => CurrentDecides
<1> SUFFICES ASSUME TypeOK, Intact PROVE CurrentDecides
    OBVIOUS
<1>1. ASSUME NEW c \in PossibleCurrent
      PROVE  /\ c = NoId \/ (c \in Ids /\ Loads(seen, damaged, c) /\ Loads(Certain, damaged, c))
    <2>1. c = NoId \/ (c \in Ids /\ Committed \subseteq Both(c) /\ damaged[c] = {})
        BY DEF Intact, PossibleCurrent
    <2> QED
        BY <2>1 DEF Loads, Certain, Both, Committed
<1>2. \A c \in PossibleCurrent : Recovered(seen, damaged, c) = c
    BY <1>1 DEF Recovered
<1>3. \A c \in PossibleCurrent : Recovered(Certain, damaged, c) = c
    BY <1>1 DEF Recovered
<1>4. Latest = cur
    BY <1>2, RecoverIs DEF Latest, PossibleCurrent
<1> QED
    BY <1>1, <1>3, <1>4, FloorValue DEF FloorLeast, CurrentDecides

\* CURRENT on the disk is never ahead of CURRENT as it is seen.
Behind == \A c \in curDisk : c <= cur

\* A rename takes CURRENT forward.
LEMMA BehindStep ==
    ASSUME TypeOK, TypeOK', Intact, Intact', Behind, [Next]_vars, damage' = 0
    PROVE  Behind'
<1>1. cur \in Int /\ cur' \in Int
    BY IdValues DEF TypeOK, Values
<1>2. CASE pc' # "currentSync"
    BY <1>1, <1>2 DEF Intact, Behind
<1>3. CASE RenameCurrent
    <2>1. /\ pc = "current" /\ curDisk = {cur} /\ cur < id
          /\ cur' = id /\ curDisk' = curDisk \cup {id}
        BY <1>3 DEF RenameCurrent, At, Intact, NamedSteps
    <2> QED
        BY <1>1, <2>1 DEF Behind
<1>4. CASE UNCHANGED <<cur, curDisk>>
    BY <1>4 DEF Behind
<1>5. CASE pc' = "currentSync" /\ ~RenameCurrent
    <2> USE DEF diskVars, memVars, histVars, At, Goto
    <2>1. CASE StartResumed \/ StartFresh \/ (\E i \in Requests : StartAt(i))
        BY <2>1, <1>4 DEF StartResumed, StartFresh, StartAt, Opened
    <2>2. CASE Commit
        BY <2>2, <1>5 DEF Commit, Begin, Mark, MarkSync, Prune, PruneSync, Reserve, Mkdir,
            MkdirSync, WriteChunks, WriteAck, WriteManifest, Publish, Write, ChunksSync,
            ManifestSync, PublishSync, SyncFiles, CurrentSync, Trim, TrimSync, Return
    <2>3. CASE Stop \/ CommitFails \/ PruneFails \/ MaintenanceFails \/ Kill \/ PowerLoss
        BY <2>3, <1>5 DEF Stop, CommitFails, PruneFails, MaintenanceFails, Kill,
                          PowerLoss, Forget, Return
    <2>4. CASE Damage
        BY <2>4, StoreAssumption DEF Damage, TypeOK
    <2>5. CASE UNCHANGED vars
        BY <2>5, <1>4 DEF vars
    <2> QED
        BY <2>1, <2>2, <2>3, <2>4, <2>5 DEF Next
<1> QED
    BY <1>2, <1>3, <1>5

\* Every step of the store is a step of the register or leaves it alone: the
\* rename shows, its fsync settles, the return acknowledges, a power loss
\* loses what was not settled.
LEMMA RegisterStep ==
    ASSUME TypeOK, TypeOK', Busy, Intact, Intact', Behind, [Next]_vars, damage' = 0
    PROVE  [Promise!RegisterNext]_(Promise!registerVars)
<1> USE DEF diskVars, memVars, histVars, At, Goto
<1>1. /\ Latest = cur
      /\ Floor \in PossibleCurrent /\ \A c \in PossibleCurrent : Floor <= c
      /\ PossibleCurrent \subseteq Ids \cup {NoId}
    BY IntactRecovers DEF CurrentDecides
<1>2. (TypeOK /\ Intact => CurrentDecides)'
    BY IntactRecovers, PTL
<1>3. /\ Latest' = cur'
      /\ Floor' \in PossibleCurrent' /\ \A c \in PossibleCurrent' : Floor' <= c
      /\ PossibleCurrent' \subseteq Ids \cup {NoId}
    BY <1>2 DEF CurrentDecides
<1>4. /\ cur \in Nat /\ cur' \in Nat /\ Floor \in Nat /\ Floor' \in Nat
      /\ cur \in PossibleCurrent /\ cur' \in PossibleCurrent'
    BY <1>1, <1>3, IdValues DEF PossibleCurrent
<1>5. ASSUME UNCHANGED <<cur, curDisk, acked>>
      PROVE  UNCHANGED Promise!registerVars
    <2>1. PossibleCurrent' = PossibleCurrent
        BY <1>5 DEF PossibleCurrent
    <2>2. Floor' = Floor
        BY <1>1, <1>3, <1>4, <2>1
    <2> QED
        BY <1>1, <1>3, <1>5, <2>2 DEF Promise!registerVars
<1>6. ASSUME cur' = cur, curDisk' = {cur}, acked' = acked
      PROVE  Promise!RegisterNext
    <2>1. PossibleCurrent' = {cur}
        BY <1>6 DEF PossibleCurrent
    <2>2. Floor' = cur /\ Floor <= cur
        BY <1>1, <1>3, <1>4, <2>1
    <2>3. Floor' \in Floor..Latest
        BY <1>1, <1>4, <2>2
    <2> QED
        BY <1>1, <1>3, <1>6, <2>3 DEF Promise!RegisterNext, Promise!Settle
<1>7. ASSUME pc \in MaintenanceSteps, cur' = cur, curDisk' = curDisk \/ curDisk' = {cur},
             acked' = acked \cup {id}
      PROVE  Promise!RegisterNext
    <2>1. cur = id /\ curDisk = {cur} /\ id \in Ids
        BY <1>7 DEF MaintenanceSteps, Intact, NamedSteps, Busy
    <2>2. PossibleCurrent = {cur} /\ PossibleCurrent' = {cur}
        BY <1>7, <2>1 DEF PossibleCurrent
    <2>3. Floor = cur /\ Floor' = cur
        BY <1>1, <1>3, <2>2
    <2>4. id \in 1..Floor /\ id <= Floor
        BY <2>1, <2>3, IdValues
    <2>5. Promise!Acknowledge(id)
        BY <1>1, <1>3, <1>7, <2>3, <2>4 DEF Promise!Acknowledge
    <2> QED
        BY <2>4, <2>5 DEF Promise!RegisterNext
<1>8. CASE RenameCurrent
    <2>1. /\ curDisk = {cur} /\ cur < id /\ cur' = id /\ curDisk' = curDisk \cup {id}
          /\ acked' = acked
        BY <1>8 DEF RenameCurrent, Intact, NamedSteps
    <2>2. PossibleCurrent = {cur} /\ PossibleCurrent' = {cur, id}
        BY <2>1 DEF PossibleCurrent
    <2>3. Floor = cur /\ Floor' \in {cur, id} /\ Floor' <= cur
        BY <1>1, <1>3, <2>2
    <2>4. Floor' = Floor
        BY <1>4, <2>1, <2>3
    <2>5. Latest' > Latest
        BY <1>1, <1>3, <1>4, <2>1
    <2>6. Promise!Show(Latest')
        BY <2>1, <2>4, <2>5 DEF Promise!Show
    <2> QED
        BY <2>5, <2>6 DEF Promise!RegisterNext
<1>9. CASE PruneSync \/ MkdirSync \/ CurrentSync
    BY <1>9, <1>6 DEF PruneSync, MkdirSync, CurrentSync, SyncRoot
<1>10. CASE TrimSync
    BY <1>10, <1>7 DEF TrimSync, SyncRoot, Return, MaintenanceSteps
<1>11. CASE Trim
    BY <1>11, <1>5, <1>7 DEF Trim, Return, MaintenanceSteps
<1>12. CASE PruneFails
    BY <1>12, <1>5, <1>7 DEF PruneFails, Return, MaintenanceSteps
<1>13. CASE MaintenanceFails
    BY <1>13, <1>7 DEF MaintenanceFails, Return
<1>14. CASE PowerLoss
    <2>1. cur' \in PossibleCurrent /\ curDisk' = {cur'} /\ acked' = acked
        BY <1>14 DEF PowerLoss, PossibleCurrent
    <2>2. PossibleCurrent' = {cur'}
        BY <2>1 DEF PossibleCurrent
    <2>3. Floor <= cur' /\ cur' <= cur /\ Floor' = cur'
        BY <1>1, <1>3, <1>4, <2>1, <2>2 DEF PossibleCurrent, Behind
    <2>4. Latest' \in Floor..Latest /\ Floor' = Latest'
        BY <1>1, <1>3, <1>4, <2>3
    <2> QED
        BY <2>1, <2>4 DEF Promise!RegisterNext, Promise!Lose
<1>15. CASE Damage
    BY <1>15, StoreAssumption DEF Damage, TypeOK
<1>16. CASE StartResumed \/ StartFresh \/ (\E i \in Requests : StartAt(i))
    BY <1>16, <1>5 DEF StartResumed, StartFresh, StartAt, Opened
<1>17. CASE (\E i \in Ids : Begin(i)) \/ Mark \/ MarkSync \/ Prune \/ Reserve \/ Mkdir
    BY <1>17, <1>5 DEF Begin, Mark, MarkSync, Prune, Reserve, Mkdir
<1>18. CASE WriteChunks \/ WriteAck \/ WriteManifest \/ Publish
    BY <1>18, <1>5 DEF WriteChunks, WriteAck, WriteManifest, Publish, Write
<1>19. CASE ChunksSync \/ ManifestSync \/ PublishSync
    BY <1>19, <1>5 DEF ChunksSync, ManifestSync, PublishSync, SyncFiles
<1>20. CASE Stop \/ Kill \/ CommitFails
    BY <1>20, <1>5 DEF Stop, Kill, CommitFails
<1>21. CASE UNCHANGED vars
    BY <1>21, <1>5 DEF vars
<1> QED
    BY <1>8, <1>9, <1>10, <1>11, <1>12, <1>13, <1>14, <1>15, <1>16, <1>17, <1>18,
       <1>19, <1>20, <1>21
    DEF Next, Commit

\* An empty store is an empty register.
LEMMA RegisterStart == Init => Promise!RegisterInit /\ Behind
<1> SUFFICES ASSUME Init PROVE Promise!RegisterInit /\ Behind
    OBVIOUS
<1>1. TypeOK /\ damage = 0 /\ cur = NoId /\ curDisk = {NoId} /\ acked = {}
    BY TypeInit DEF Init
<1>2. Intact
    BY <1>1, IntactInit DEF IntactInv
<1>3. Latest = NoId /\ Floor = NoId
    BY <1>1, <1>2, IntactRecovers DEF CurrentDecides, PossibleCurrent
<1> QED
    BY <1>1, <1>3, IdValues DEF Promise!RegisterInit, Behind

\* While no medium fails and no writer goes on over a rename of CURRENT that was
\* not synced, the directory protocol of commit_bytes, prune and recovery
\* implements a durable register: ids grow, the worst recovery never falls, and
\* nothing is acknowledged before it is stable, for any retention, pins, failed
\* or killed commits, power losses and any other fsyncs that are lost.
THEOREM StoreImplementsRegister ==
    ASSUME "currentSync" \notin LostSyncs, MaxDamage = 0
    PROVE  Spec => ImplementsRegister
<1> DEFINE Inv == TypeOK /\ Busy /\ IntactInv /\ Behind
<1>1. Init => Inv /\ Promise!RegisterInit
    BY TypeInit, IntactInit, RegisterStart
<1>2. Inv /\ [Next]_vars => Inv'
    <2> SUFFICES ASSUME Inv, [Next]_vars PROVE Inv'
        OBVIOUS
    <2>1. TypeOK' /\ Busy' /\ IntactInv'
        BY TypeStep, IntactStep
    <2>2. damage = 0 /\ damage' = 0
        BY <2>1 DEF TypeOK
    <2>3. Intact /\ Intact'
        BY <2>1, <2>2 DEF IntactInv
    <2> QED
        BY <2>1, <2>2, <2>3, BehindStep
<1>3. Inv /\ Inv' /\ [Next]_vars => [Promise!RegisterNext]_(Promise!registerVars)
    <2> SUFFICES ASSUME Inv, Inv', [Next]_vars
                 PROVE  [Promise!RegisterNext]_(Promise!registerVars)
        OBVIOUS
    <2>1. damage = 0 /\ damage' = 0
        BY DEF TypeOK
    <2>2. Intact /\ Intact'
        BY <2>1 DEF IntactInv
    <2> QED
        BY <2>1, <2>2, RegisterStep
<1> HIDE DEF Inv
<1> QED
    BY <1>1, <1>2, <1>3, PTL DEF Spec, ImplementsRegister, Promise!Register

-----------------------------------------------------------------------------
(* Retention leaves a fallback.                                              *)

\* A generation that recovery may fall back to, whatever a power loss takes.
Good(i) == Entries \subseteq Both(i)

\* The checkpoints a fallback must not be older than.
Owed(i) == i \in acked \/ "published" \in seen[i] \cup durable[i]

\* For each value CURRENT may have, a fallback no older than what is owed
\* below it.
Backed ==
    \A c \in PossibleCurrent : \A j \in Ids :
        Owed(j) /\ j < c => \E i \in Ids : j <= i /\ i < c /\ Good(i)

\* Markers are no newer than CURRENT, and CURRENT has its own, synced, before
\* anything is pruned for the next generation.
MarkedUpTo ==
    /\ \A j \in Ids : "published" \in seen[j] \cup durable[j]
                         => \A c \in PossibleCurrent : j <= c
    /\ (pc \notin {"idle", "mark", "markSync"} \cup NamedSteps /\ cur \in Ids)
          => "published" \in Both(cur)
    /\ pc = "markSync" => "published" \in seen[cur]

BackedInv == damage = 0 => Backed /\ MarkedUpTo /\ pinned = NoId

\* No fsync is lost, no old snapshot is asked for (a pin takes a place), and
\* CURRENT, its fallback and the generation being written all fit.
Roomy == LostSyncs = {} /\ Requests = {} /\ Generations >= 3 /\ MaxUnits >= 3

\* Two generations fit, with the one that is about to be written.
LEMMA TwoFit ==
    ASSUME Roomy, pinned = NoId, NEW a, NEW b, NEW S \in SUBSET {a, b},
           NEW reserve \in {0, 1}
    PROVE  Fits(S, reserve)
<1>1. IsFiniteSet({a, b}) /\ Cardinality({a, b}) \in {1, 2}
    <2>1. IsFiniteSet({a}) /\ Cardinality({a}) = 1
        BY FS_Singleton
    <2>2. {a, b} = {a} \cup {b}
        OBVIOUS
    <2> QED
        BY <2>1, <2>2, FS_AddElement
<1>2. ASSUME NEW T \in SUBSET {a, b} PROVE Cardinality(T) \in Nat /\ Cardinality(T) <= 2
    <2>1. IsFiniteSet(T) /\ Cardinality(T) <= Cardinality({a, b})
        BY <1>1, FS_Subset
    <2>2. Cardinality(T) \in Nat
        BY <2>1, FS_CardinalityType
    <2> QED
        BY <1>1, <2>1, <2>2
<1>3. Units(S) \in Nat /\ Units(S) <= 2
    <2>1. {i \in S : "chunks" \in seen[i]} \in SUBSET {a, b}
        OBVIOUS
    <2> QED
        BY <1>2, <2>1 DEF Units
<1>4. KeepCount(reserve) >= 2 /\ KeepCount(reserve) \in Int
    <2>1. {Generations, 1} \in SUBSET (0..Generations) /\ Generations \in Nat
        BY StoreAssumption DEF Roomy
    <2>2. /\ Max({Generations, 1}) \in {Generations, 1}
          /\ \A y \in {Generations, 1} : y <= Max({Generations, 1})
        BY <2>1, MaxOfBounded
    <2>3. KeepCount(reserve) = Max({Generations, 1}) - reserve
        BY DEF KeepCount
    <2>4. Max({Generations, 1}) >= 3 /\ Max({Generations, 1}) \in Int
        BY <2>1, <2>2 DEF Roomy
    <2> QED
        BY <2>3, <2>4
<1>5. Cardinality(S) \in Nat /\ Cardinality(S) <= 2
    BY <1>2
<1> QED
    BY <1>3, <1>4, <1>5, StoreAssumption DEF Fits, Roomy

\* prune spares the newest fallback below CURRENT: everything else but CURRENT
\* goes first, and the two of them fit.
LEMMA PruneSparesFallback ==
    ASSUME Roomy, TypeOK, Intact, MarkedUpTo, pinned = NoId, NEW reserve \in {0, 1},
           NEW R \in SUBSET Present(seen), PruneSet(R, cur, reserve),
           NEW i \in Ids, Good(i), i < cur, cur \in Ids,
           \A j \in Ids : Owed(j) /\ j < cur => j <= i
    PROVE  i \notin R
<1> SUFFICES ASSUME i \in R PROVE FALSE
    OBVIOUS
<1> DEFINE S == Present(seen) \ {k \in R : PrunedBefore(k, i)}
<1>1. ~Fits(S, reserve)
    BY DEF PruneSet
<1>2. \A k \in Ids : WasPublished(seen, k) => "published" \in seen[k]
    BY DEF WasPublished
<1>3. WasPublished(seen, i)
    BY DEF WasPublished, Good, Both, Entries, Intact
<1>4. ASSUME NEW k \in S, k # cur PROVE k = i
    <2>1. k \in Ids /\ k \in Present(seen) /\ k # NoId
        BY <1>4, IdValues DEF Present
    <2>2. k \in Prunable(cur)
        BY <1>4, <2>1 DEF Prunable
    <2>3. ~PrunedBefore(k, i)
        BY <1>4, <2>2 DEF PruneSet
    <2>4. WasPublished(seen, k) /\ ~(k < i)
        BY <1>3, <2>3 DEF PrunedBefore
    <2>5. Owed(k) /\ k <= cur
        BY <1>2, <2>1, <2>4 DEF Owed, MarkedUpTo, PossibleCurrent
    <2>6. k < cur
        BY <1>4, <2>1, <2>5, IdValues
    <2>7. k <= i
        BY <2>1, <2>5, <2>6
    <2> QED
        BY <2>1, <2>4, <2>7, IdValues
<1>5. S \in SUBSET {i, cur}
    BY <1>4
<1> QED
    BY <1>1, <1>5, TwoFit

\* The newest fallback below CURRENT covers all that is owed below it.
LEMMA NewestGood ==
    ASSUME TypeOK, Backed, cur \in Ids, NEW j \in Ids, Owed(j), j < cur
    PROVE  \E i \in Ids : /\ j <= i /\ i < cur /\ Good(i)
                          /\ \A k \in Ids : Owed(k) /\ k < cur => k <= i
<1> DEFINE G == {i \in Ids : i < cur /\ Good(i)}
<1>1. \A k \in Ids : Owed(k) /\ k < cur => \E i \in G : k <= i
    BY DEF Backed, PossibleCurrent
<1>2. G \in SUBSET (0..MaxId) /\ G # {}
    BY <1>1, IdValues DEF Ids
<1>3. Max(G) \in G /\ \A y \in G : y <= Max(G)
    BY <1>2, IdValues, MaxOfBounded
<1>4. ASSUME NEW k \in Ids, Owed(k), k < cur PROVE k <= Max(G)
    <2>1. PICK i \in G : k <= i
        BY <1>1, <1>4
    <2>2. i <= Max(G) /\ i \in Int /\ k \in Int /\ Max(G) \in Int
        BY <1>3, IdValues
    <2> QED
        BY <2>1, <2>2
<1> HIDE DEF G
<1>5. Max(G) \in Ids /\ Max(G) < cur /\ Good(Max(G))
    BY <1>3 DEF G
<1> QED
    BY <1>4, <1>5

\* A step that owes nothing new and takes nothing away leaves every fallback.
LEMMA BackedGrows ==
    ASSUME TypeOK, Backed, PossibleCurrent' \subseteq PossibleCurrent,
           \A i \in Ids : Both(i) \subseteq Both(i)',
           \A j \in Ids : Owed(j)' => Owed(j) \/ \A c \in PossibleCurrent' : ~(j < c)
    PROVE  Backed'
<1> SUFFICES ASSUME NEW c \in PossibleCurrent', NEW j \in Ids, Owed(j)', j < c
             PROVE  \E i \in Ids : j <= i /\ i < c /\ Good(i)'
    BY DEF Backed
<1>1. Owed(j) /\ c \in PossibleCurrent
    OBVIOUS
<1>2. PICK i \in Ids : j <= i /\ i < c /\ Good(i)
    BY <1>1 DEF Backed
<1>3. Good(i)'
    BY <1>2 DEF Good
<1> QED
    BY <1>2, <1>3

\* What a prune removes, told by the generations it leaves alone.
LEMMA PruneSetOf ==
    ASSUME TypeOK, Busy, DiskInv, Intact, Prune \/ Trim \/ PruneFails
    PROVE  \E R \in SUBSET Present(seen) : \E reserve \in {0, 1} :
              /\ PruneSet(R, cur, reserve)
              /\ \A i \in Ids : i \notin R => seen'[i] = seen[i]
<1>1. pc = "prune" => keep = cur
    <2>1. Latest = cur
        BY IntactRecovers DEF CurrentDecides
    <2>2. Recovered(seen, damaged, cur) = cur
        BY <2>1, RecoverIs DEF Latest
    <2> QED
        BY <2>2 DEF DiskInv, Protected
<1>2. pc = "trim" => id = cur
    BY DEF Intact, NamedSteps
<1>3. CASE Prune
    BY <1>1, <1>3 DEF Prune, At, RemoveAll
<1>4. CASE Trim
    BY <1>2, <1>4 DEF Trim, At, RemoveAll
<1>5. CASE PruneFails
    <2>1. PICK R \in SUBSET Present(seen) : \E v \in R : \E left \in SUBSET seen[v] :
             /\ PruneSet(R, IF pc = "prune" THEN keep ELSE id,
                            IF pc = "prune" THEN 1 ELSE 0)
             /\ seen' = [i \in Ids |-> IF i = v THEN left
                                   ELSE IF i \in R /\ PrunedBefore(i, v) THEN {}
                                   ELSE seen[i]]
        BY <1>5 DEF PruneFails
    <2>2. \A i \in Ids : i \notin R => seen'[i] = seen[i]
        BY <2>1
    <2>3. PruneSet(R, cur, IF pc = "prune" THEN 1 ELSE 0)
        BY <1>1, <1>2, <1>5, <2>1 DEF PruneFails
    <2> QED
        BY <2>2, <2>3
<1> QED
    BY <1>3, <1>4, <1>5

\* Retention leaves a fallback for everything that is owed.
LEMMA BackedPrune ==
    ASSUME Roomy, TypeOK, Busy, DiskInv, Intact, Backed, MarkedUpTo, pinned = NoId,
           Prune \/ Trim \/ PruneFails
    PROVE  Backed'
<1>1. /\ durable' = durable /\ cur' = cur /\ curDisk' = curDisk
      /\ \A i \in Ids : seen'[i] \subseteq seen[i]
    BY RemovalStep
<1>2. PossibleCurrent = {cur} /\ PossibleCurrent' = {cur}
    BY <1>1, PruneSpares DEF DiskInv, CurrentKnown, PossibleCurrent
<1>3. acked' = acked \/ acked' = acked \cup {cur}
    BY DEF Prune, Trim, PruneFails, Return, histVars, Intact, NamedSteps, At
<1> SUFFICES ASSUME NEW j \in Ids, Owed(j)', j < cur
             PROVE  \E i \in Ids : j <= i /\ i < cur /\ Good(i)'
    BY <1>2 DEF Backed
<1>4. cur \in Ids
    <2>1. cur \in Ids \cup {NoId}
        BY DEF Intact
    <2> QED
        BY <2>1, IdValues
<1>5. Owed(j)
    BY <1>1, <1>3, <1>4, IdValues DEF Owed
<1>6. PICK i \in Ids : /\ j <= i /\ i < cur /\ Good(i)
                       /\ \A k \in Ids : Owed(k) /\ k < cur => k <= i
    BY <1>4, <1>5, NewestGood
<1>7. PICK R \in SUBSET Present(seen) : \E reserve \in {0, 1} :
              /\ PruneSet(R, cur, reserve)
              /\ \A k \in Ids : k \notin R => seen'[k] = seen[k]
    BY PruneSetOf
<1>8. i \notin R
    BY <1>4, <1>6, <1>7, PruneSparesFallback
<1>9. Good(i)'
    BY <1>1, <1>6, <1>7, <1>8 DEF Good, Both
<1> QED
    BY <1>6, <1>9

\* So does the rename: the old CURRENT is the fallback of the new one.
LEMMA BackedRename ==
    ASSUME TypeOK, Busy, Intact, Backed, MarkedUpTo, RenameCurrent
    PROVE  Backed'
<1>1. /\ pc = "current" /\ id \in Ids /\ seen' = seen /\ durable' = durable
      /\ acked' = acked /\ cur' = id /\ curDisk' = curDisk \cup {id}
      /\ curDisk = {cur} /\ cur < id /\ cur \in Ids \cup {NoId}
    BY DEF RenameCurrent, At, Busy, Intact, NamedSteps
<1> SUFFICES ASSUME NEW c \in PossibleCurrent', NEW j \in Ids, Owed(j)', j < c
             PROVE  \E i \in Ids : j <= i /\ i < c /\ Good(i)'
    BY DEF Backed
<1>2. Owed(j) /\ \A i \in Ids : Good(i)' <=> Good(i)
    BY <1>1 DEF Owed, Good, Both
<1>3. c = id \/ c \in PossibleCurrent
    BY <1>1 DEF PossibleCurrent
<1>4. CASE c \in PossibleCurrent
    BY <1>2, <1>4 DEF Backed
<1>5. CASE c = id
    <2>1. j <= cur
        BY <1>2 DEF Owed, Intact, MarkedUpTo, PossibleCurrent
    <2>2. cur \in Ids
        BY <1>1, <2>1, IdValues
    <2>3. "published" \in Both(cur) /\ Committed \subseteq Both(cur)
        BY <1>1, <2>2, IdValues DEF MarkedUpTo, NamedSteps, Intact
    <2>4. Good(cur)
        BY <2>3 DEF Good, Entries, Committed
    <2> QED
        BY <1>1, <1>2, <1>5, <2>1, <2>2, <2>4
<1> QED
    BY <1>3, <1>4, <1>5

\* Every step leaves a fallback for what is owed.
LEMMA BackedStep ==
    ASSUME Roomy, TypeOK, Busy, DiskInv, Intact, Backed, MarkedUpTo, pinned = NoId,
           [Next]_vars, damage' = 0
    PROVE  Backed'
<1> USE DEF diskVars, memVars, histVars, At, Goto
<1>1. ASSUME UNCHANGED <<seen, durable, cur, curDisk, acked>> PROVE Backed'
    <2>1. PossibleCurrent' = PossibleCurrent
        BY <1>1 DEF PossibleCurrent
    <2>2. \A i \in Ids : Both(i)' = Both(i) /\ (Owed(i)' <=> Owed(i))
        BY <1>1 DEF Both, Owed
    <2> QED
        BY <2>1, <2>2, BackedGrows
<1>2. ASSUME cur' = cur, curDisk' \subseteq curDisk \cup {cur},
             \A i \in Ids : Both(i) \subseteq seen'[i] \cap durable'[i],
             \A i \in Ids : "published" \in seen'[i] \cup durable'[i]
                 => (i = cur /\ curDisk = {cur}) \/ "published" \in seen[i] \cup durable[i],
             acked' = acked \/ (acked' = acked \cup {cur} /\ curDisk = {cur})
      PROVE  Backed'
    <2>1. PossibleCurrent' \subseteq PossibleCurrent
        BY <1>2 DEF PossibleCurrent
    <2>2. ASSUME NEW j \in Ids, Owed(j)', ~Owed(j)
          PROVE  \A c \in PossibleCurrent' : ~(j < c)
        <3>1. j = cur /\ curDisk = {cur}
            BY <1>2, <2>2 DEF Owed
        <3>2. \A c \in PossibleCurrent' : c = j
            BY <2>1, <3>1 DEF PossibleCurrent
        <3> QED
            BY <3>2, IdValues
    <2>3. \A i \in Ids : Both(i) \subseteq Both(i)'
        BY <1>2 DEF Both
    <2> QED
        BY <2>1, <2>2, <2>3, BackedGrows
<1>3. CASE StartResumed \/ StartFresh \/ (\E i \in Requests : StartAt(i))
    BY <1>3, <1>1 DEF StartResumed, StartFresh, StartAt, Opened
<1>4. CASE (\E i \in Ids : Begin(i)) \/ Reserve \/ Stop \/ Kill \/ CommitFails
    BY <1>4, <1>1 DEF Begin, Reserve, Stop, Kill, CommitFails
<1>5. CASE UNCHANGED vars
    BY <1>5, <1>1 DEF vars
<1>6. CASE Mark
    <2>1. curDisk = {cur}
        BY <1>6 DEF Mark, DiskInv, CurrentKnown
    <2>2. /\ \A i \in Ids : i # cur => seen'[i] = seen[i]
          /\ \A i \in Ids : seen[i] \subseteq seen'[i]
          /\ durable' = durable /\ cur' = cur /\ curDisk' = curDisk /\ acked' = acked
        BY <1>6 DEF Mark, AddEntry, TypeOK
    <2> QED
        BY <1>2, <2>1, <2>2 DEF Both
<1>7. CASE Publish
    <2>1. curDisk = {cur} /\ cur = id
        BY <1>7 DEF Publish, Write, DiskInv, CurrentKnown, Writing, NamedSteps
    <2>2. /\ \A i \in Ids : i # id => seen'[i] = seen[i]
          /\ \A i \in Ids : seen[i] \subseteq seen'[i]
          /\ durable' = durable /\ cur' = cur /\ curDisk' = curDisk /\ acked' = acked
        BY <1>7 DEF Publish, Write, AddEntry, TypeOK
    <2> QED
        BY <1>2, <2>1, <2>2 DEF Both
<1>8. CASE WriteChunks \/ WriteAck \/ WriteManifest
    <2>1. /\ \A i \in Ids : /\ "published" \in seen'[i] => "published" \in seen[i]
                            /\ seen[i] \subseteq seen'[i]
          /\ durable' = durable /\ cur' = cur /\ curDisk' = curDisk /\ acked' = acked
        BY <1>8 DEF WriteChunks, WriteAck, WriteManifest, Write, AddEntry, TypeOK
    <2> QED
        BY <1>2, <2>1 DEF Both
<1>9. CASE Mkdir
    <2>1. /\ \A i \in Ids : /\ "published" \in seen'[i] => "published" \in seen[i]
                            /\ seen[i] \subseteq seen'[i]
          /\ durable' = durable /\ cur' = cur /\ curDisk' = curDisk /\ acked' = acked
        BY <1>9 DEF Mkdir, AddEntry, TypeOK
    <2> QED
        BY <1>2, <2>1 DEF Both
<1>10. CASE MarkSync \/ ChunksSync \/ ManifestSync \/ PublishSync
    <2>1. /\ \A i \in Ids : /\ durable'[i] \subseteq durable[i] \cup seen[i]
                            /\ Both(i) \subseteq durable'[i]
          /\ seen' = seen /\ cur' = cur /\ curDisk' = curDisk /\ acked' = acked
        BY <1>10 DEF MarkSync, ChunksSync, ManifestSync, PublishSync, SyncFiles,
                     SyncGeneration, TypeOK, Both
    <2> QED
        BY <1>2, <2>1 DEF Both
<1>11. CASE PruneSync \/ CurrentSync
    <2>1. /\ \A i \in Ids : /\ durable'[i] = IF "dir" \in seen[i]
                                             THEN durable[i] \cup {"dir"} ELSE {}
          /\ seen' = seen /\ cur' = cur /\ curDisk' = {cur} /\ acked' = acked
        BY <1>11 DEF PruneSync, CurrentSync, SyncRoot, RootSynced
    <2>2. \A i \in Ids : Both(i) \subseteq durable'[i]
        BY <2>1 DEF Both, DiskInv, Solid
    <2> QED
        BY <1>2, <2>1, <2>2 DEF Both
<1>12. CASE MkdirSync
    <2>1. id \in Ids /\ seen[id] = {"dir"}
        BY <1>12 DEF MkdirSync, Busy, DiskInv, Writing
    <2>2. /\ durable'[id] = {"dir"}
          /\ \A i \in Ids : i # id => durable'[i] = IF "dir" \in seen[i]
                                THEN durable[i] \cup {"dir"} ELSE {}
          /\ seen' = seen /\ cur' = cur /\ curDisk' = {cur} /\ acked' = acked
        BY <1>12, <2>1 DEF MkdirSync, RootSynced
    <2>3. \A i \in Ids : Both(i) \subseteq durable'[i]
        BY <2>1, <2>2 DEF Both, DiskInv, Solid
    <2>4. \A i \in Ids : durable'[i] \subseteq durable[i] \cup {"dir"}
        BY <2>1, <2>2
    <2>5. \A i \in Ids : "published" \in seen'[i] \cup durable'[i]
                              => "published" \in seen[i] \cup durable[i]
        BY <2>2, <2>4
    <2>6. \A i \in Ids : Both(i) \subseteq seen'[i] \cap durable'[i]
        BY <2>2, <2>3 DEF Both
    <2> QED
        BY <1>2, <2>2, <2>5, <2>6
<1>13. CASE TrimSync
    <2>1. curDisk = {cur} /\ cur = id
        BY <1>13 DEF TrimSync, DiskInv, CurrentKnown, Writing, NamedSteps
    <2>2. /\ \A i \in Ids : /\ durable'[i] = IF "dir" \in seen[i]
                                             THEN durable[i] \cup {"dir"} ELSE {}
          /\ seen' = seen /\ cur' = cur /\ curDisk' = {cur} /\ acked' = acked \cup {id}
        BY <1>13 DEF TrimSync, SyncRoot, RootSynced, Return
    <2>3. \A i \in Ids : Both(i) \subseteq durable'[i]
        BY <2>2 DEF Both, DiskInv, Solid
    <2> QED
        BY <1>2, <2>1, <2>2, <2>3 DEF Both
<1>14. CASE MaintenanceFails
    <2>1. curDisk = {cur} /\ cur = id
        BY <1>14 DEF MaintenanceFails, MaintenanceSteps, DiskInv, CurrentKnown, Writing,
                     NamedSteps
    <2>2. UNCHANGED <<seen, durable, cur, curDisk>> /\ acked' = acked \cup {id}
        BY <1>14 DEF MaintenanceFails, Return
    <2> QED
        BY <1>2, <2>1, <2>2 DEF Both
<1>15. CASE Prune \/ Trim \/ PruneFails
    BY <1>15, BackedPrune
<1>16. CASE RenameCurrent
    BY <1>16, BackedRename
<1>17. CASE PowerLoss
    <2>1. \A i \in Ids : Both(i) \subseteq seen'[i] /\ seen'[i] \subseteq seen[i] \cup durable[i]
        BY <1>17 DEF PowerLoss, Images, TypeOK, Both
    <2>2. durable' = seen' /\ acked' = acked
        BY <1>17 DEF PowerLoss
    <2>3. PossibleCurrent' \subseteq PossibleCurrent
        BY <1>17 DEF PowerLoss, PossibleCurrent
    <2>4. \A i \in Ids : Both(i) \subseteq Both(i)' /\ (Owed(i)' => Owed(i))
        BY <2>1, <2>2 DEF Both, Owed
    <2> QED
        BY <2>3, <2>4, BackedGrows
<1>18. CASE Damage
    BY <1>18, StoreAssumption DEF Damage, TypeOK
<1> QED
    BY <1>3, <1>4, <1>5, <1>6, <1>7, <1>8, <1>9, <1>10, <1>11, <1>12, <1>13, <1>14,
       <1>15, <1>16, <1>17, <1>18
    DEF Next, Commit

\* Markers follow CURRENT: only its generation gets one, and it has it before
\* the next generation is begun.
LEMMA MarkedStep ==
    ASSUME LostSyncs = {}, TypeOK, Busy, DiskInv, Intact, MarkedUpTo, [Next]_vars, damage' = 0
    PROVE  MarkedUpTo'
<1> USE DEF diskVars, memVars, histVars, At, Goto
<1> DEFINE Has(i) == "published" \in seen[i] \cup durable[i]
           Ready == {"prune", "pruneSync", "reserve", "mkdir", "mkdirSync", "chunks",
                     "chunksSync", "ack", "manifest", "manifestSync", "current"}
<1>0. /\ \A q \in Steps : q \notin {"idle", "mark", "markSync"} \cup NamedSteps <=> q \in Ready
      /\ pc \in Steps
    BY DEF Steps, NamedSteps, TypeOK
<1>1. /\ \A j \in Ids : Has(j) => \A c \in PossibleCurrent : j <= c
      /\ pc \in Ready /\ cur \in Ids => "published" \in Both(cur)
      /\ pc = "markSync" => "published" \in seen[cur]
    BY <1>0 DEF MarkedUpTo
<1>2. ASSUME \A j \in Ids : Has(j)' => \A c \in PossibleCurrent' : j <= c,
             pc' \in Ready /\ cur' \in Ids => "published" \in Both(cur)',
             pc' = "markSync" => "published" \in seen'[cur']
      PROVE  MarkedUpTo'
    <2>1. pc' \in Steps
        BY TypeStep DEF TypeOK
    <2>2. pc' \notin {"idle", "mark", "markSync"} \cup NamedSteps => pc' \in Ready
        BY <1>0, <2>1
    <2> QED
        BY <1>2, <2>2 DEF MarkedUpTo
<1>3. ASSUME PossibleCurrent' \subseteq PossibleCurrent,
             \A j \in Ids : Has(j)' => Has(j) \/ (j = cur /\ PossibleCurrent = {cur})
      PROVE  \A j \in Ids : Has(j)' => \A c \in PossibleCurrent' : j <= c
    BY <1>1, <1>3, IdValues
<1>4. ASSUME UNCHANGED diskVars, pc' = pc \/ pc' \notin Ready \cup {"markSync"}
                                 \/ (pc \in Ready /\ pc' \in Ready)
      PROVE  MarkedUpTo'
    <2>1. PossibleCurrent' = PossibleCurrent /\ \A j \in Ids : Has(j)' <=> Has(j)
        BY <1>4 DEF PossibleCurrent
    <2>2. "published" \in Both(cur) <=> "published" \in Both(cur)'
        BY <1>4 DEF Both
    <2>3. pc' = "markSync" => pc = "markSync"
        BY <1>4
    <2>4. pc' \in Ready => pc \in Ready
        BY <1>4
    <2> QED
        BY <1>1, <1>2, <1>4, <2>1, <2>2, <2>3, <2>4
<1>5. ASSUME pc \in Ready, pc' \notin {"markSync"}, cur' = cur,
             curDisk' \subseteq curDisk \cup {cur},
             \A j \in Ids : Has(j)' => Has(j),
             cur \in Ids => Both(cur) \subseteq Both(cur)'
      PROVE  MarkedUpTo'
    <2>1. PossibleCurrent' \subseteq PossibleCurrent
        BY <1>5 DEF PossibleCurrent
    <2>2. cur' \in Ids => "published" \in Both(cur)'
        BY <1>1, <1>5
    <2> QED
        BY <1>2, <1>3, <1>5, <2>1, <2>2
<1>6. ASSUME pc' \notin Ready \cup {"markSync"}, PossibleCurrent' \subseteq PossibleCurrent,
             \A j \in Ids : Has(j)' => Has(j) \/ (j = cur /\ PossibleCurrent = {cur})
      PROVE  MarkedUpTo'
    BY <1>2, <1>3, <1>6
<1> HIDE DEF Has
<1>7. CASE StartResumed \/ StartFresh \/ (\E i \in Requests : StartAt(i))
    BY <1>7, <1>4 DEF StartResumed, StartFresh, StartAt, Opened
<1>8. CASE \E i \in Ids : Begin(i)
    <2> PICK i \in Ids : Begin(i)
        BY <1>8
    <2>1. UNCHANGED diskVars /\ pc = "idle" /\ pc' \in {"mark", "prune"}
        BY DEF Begin
    <2>2. CASE pc' = "mark"
        BY <2>1, <2>2, <1>4
    <2>3. CASE pc' = "prune"
        <3>1. ASSUME cur \in Ids PROVE "published" \in Both(cur)
            <4>1. Committed \subseteq Both(cur) /\ damaged[cur] = {}
                BY <3>1, IdValues DEF Intact
            <4>2. LoadGeneration(seen, cur)
                BY <4>1 DEF LoadGeneration, Both
            <4>3. WasPublished(seen, cur)
                BY <2>3, <3>1, <4>2 DEF Begin
            <4>4. {"manifest", "published"} \subseteq seen[cur]
                BY <4>3 DEF WasPublished
            <4>5. seen[cur] \subseteq durable[cur]
                BY <2>1, <3>1, <4>4 DEF DiskInv, Solid, Unsynced
            <4> QED
                BY <4>4, <4>5 DEF Both
        <3>2. PossibleCurrent' = PossibleCurrent /\ \A j \in Ids : Has(j)' <=> Has(j)
            BY <2>1 DEF PossibleCurrent, Has
        <3>3. cur' = cur /\ Both(cur)' = Both(cur)
            BY <2>1 DEF Both
        <3> QED
            BY <1>1, <1>2, <2>3, <3>1, <3>2, <3>3
    <2> QED
        BY <2>1, <2>2, <2>3
<1>9. CASE Mark
    <2>1. /\ cur \in Ids /\ PossibleCurrent = {cur} /\ PossibleCurrent' = {cur}
          /\ pc' = "markSync" /\ cur' = cur
        BY <1>9 DEF Mark, DiskInv, Protected, CurrentKnown, PossibleCurrent
    <2>2. /\ "published" \in seen'[cur] /\ durable' = durable
          /\ \A i \in Ids : i # cur => seen'[i] = seen[i]
        BY <1>9, <2>1 DEF Mark, AddEntry, TypeOK
    <2>3. \A j \in Ids : Has(j)' => Has(j) \/ j = cur
        BY <2>2 DEF Has
    <2> QED
        BY <1>2, <1>3, <2>1, <2>2, <2>3
<1>10. CASE MarkSync
    <2>1. /\ cur \in Ids /\ seen' = seen /\ pc = "markSync" /\ pc' = "prune"
          /\ cur' = cur /\ curDisk' = curDisk
        BY <1>10 DEF MarkSync, DiskInv, Protected
    <2>2. /\ durable'[cur] = (durable[cur] \cap {"dir"}) \cup (seen[cur] \ {"dir"})
          /\ \A i \in Ids : i # cur => durable'[i] = durable[i]
        BY <1>10, <2>1 DEF MarkSync, SyncGeneration, TypeOK
    <2>3. "published" \in Both(cur)'
        BY <1>1, <2>1, <2>2 DEF Both
    <2>4. \A j \in Ids : Has(j)' => Has(j)
        BY <2>1, <2>2 DEF Has
    <2>5. PossibleCurrent' = PossibleCurrent
        BY <2>1 DEF PossibleCurrent
    <2> QED
        BY <1>2, <1>3, <2>1, <2>3, <2>4, <2>5
<1>11. CASE Prune
    <2>1. /\ pc = "prune" /\ pc' \in {"reserve", "pruneSync"}
          /\ \A i \in Ids : seen'[i] \subseteq seen[i]
          /\ cur \in Ids => seen'[cur] = seen[cur]
          /\ durable' = durable /\ cur' = cur /\ curDisk' = curDisk
        BY <1>11, RemovalStep, PruneSpares DEF Prune
    <2>2. (\A j \in Ids : Has(j)' => Has(j)) /\ (cur \in Ids => Both(cur) \subseteq Both(cur)')
        BY <2>1 DEF Has, Both
    <2> QED
        BY <1>5, <2>1, <2>2
<1>12. CASE Trim \/ PruneFails
    <2>1. /\ pc' \in {"idle", "trimSync"}
          /\ \A i \in Ids : seen'[i] \subseteq seen[i]
          /\ durable' = durable /\ cur' = cur /\ curDisk' = curDisk
        BY <1>12, RemovalStep DEF Trim, PruneFails, Return
    <2>2. PossibleCurrent' = PossibleCurrent /\ \A j \in Ids : Has(j)' => Has(j)
        BY <2>1 DEF Has, PossibleCurrent
    <2> QED
        BY <1>6, <2>1, <2>2
<1>13. CASE PruneSync
    <2>1. /\ \A i \in Ids : /\ durable'[i] = IF "dir" \in seen[i]
                                             THEN durable[i] \cup {"dir"} ELSE {}
          /\ seen' = seen /\ cur' = cur /\ curDisk' = {cur}
          /\ pc = "pruneSync" /\ pc' = "reserve"
        BY <1>13 DEF PruneSync, SyncRoot, RootSynced
    <2>2. cur \in Ids => Both(cur) \subseteq Both(cur)'
        BY <2>1 DEF Both, DiskInv, Solid
    <2>3. \A j \in Ids : Has(j)' => Has(j)
        BY <2>1 DEF Has
    <2> QED
        BY <1>5, <2>1, <2>2, <2>3
<1>14. CASE CurrentSync \/ TrimSync
    <2>1. /\ \A i \in Ids : /\ durable'[i] = IF "dir" \in seen[i]
                                             THEN durable[i] \cup {"dir"} ELSE {}
          /\ seen' = seen /\ cur' = cur /\ curDisk' = {cur}
          /\ pc' \in {"publish", "idle"}
        BY <1>14 DEF CurrentSync, TrimSync, SyncRoot, RootSynced, Return
    <2>2. PossibleCurrent' \subseteq PossibleCurrent /\ \A j \in Ids : Has(j)' => Has(j)
        BY <2>1 DEF Has, PossibleCurrent
    <2> QED
        BY <1>6, <2>1, <2>2
<1>15. CASE Reserve
    BY <1>15, <1>4 DEF Reserve
<1>16. CASE Mkdir
    <2>1. /\ \A i \in Ids : /\ "published" \in seen'[i] => "published" \in seen[i]
                            /\ seen[i] \subseteq seen'[i]
          /\ durable' = durable /\ cur' = cur /\ curDisk' = curDisk
          /\ pc = "mkdir" /\ pc' = "mkdirSync"
        BY <1>16 DEF Mkdir, AddEntry, TypeOK
    <2>2. (\A j \in Ids : Has(j)' => Has(j)) /\ (cur \in Ids => Both(cur) \subseteq Both(cur)')
        BY <2>1 DEF Has, Both
    <2> QED
        BY <1>5, <2>1, <2>2
<1>17. CASE MkdirSync
    <2>1. id \in Ids /\ seen[id] = {"dir"}
        BY <1>17 DEF MkdirSync, Busy, DiskInv, Writing
    <2>2. /\ durable'[id] = {"dir"}
          /\ \A i \in Ids : i # id => durable'[i] = IF "dir" \in seen[i]
                                THEN durable[i] \cup {"dir"} ELSE {}
          /\ seen' = seen /\ cur' = cur /\ curDisk' = {cur}
          /\ pc = "mkdirSync" /\ pc' = "chunks"
        BY <1>17, <2>1 DEF MkdirSync, RootSynced
    <2>3. \A i \in Ids : Both(i) \subseteq durable'[i]
        BY <2>1, <2>2 DEF Both, DiskInv, Solid
    <2>4. \A i \in Ids : durable'[i] \subseteq durable[i] \cup {"dir"}
        BY <2>1, <2>2
    <2>5. \A j \in Ids : Has(j)' => Has(j)
        BY <2>2, <2>4 DEF Has
    <2>6. cur \in Ids => Both(cur) \subseteq Both(cur)'
        BY <2>2, <2>3 DEF Both
    <2> QED
        BY <1>5, <2>2, <2>5, <2>6
<1>18. CASE WriteChunks \/ WriteAck \/ WriteManifest
    <2>1. /\ \A i \in Ids : /\ "published" \in seen'[i] => "published" \in seen[i]
                            /\ seen[i] \subseteq seen'[i]
          /\ durable' = durable /\ cur' = cur /\ curDisk' = curDisk
          /\ pc \in Ready /\ pc' # "markSync"
        BY <1>18 DEF WriteChunks, WriteAck, WriteManifest, Write, AddEntry, TypeOK
    <2>2. (\A j \in Ids : Has(j)' => Has(j)) /\ (cur \in Ids => Both(cur) \subseteq Both(cur)')
        BY <2>1 DEF Has, Both
    <2> QED
        BY <1>5, <2>1, <2>2
<1>19. CASE ChunksSync \/ ManifestSync
    <2>1. /\ \A i \in Ids : /\ durable'[i] \subseteq durable[i] \cup seen[i]
                            /\ Both(i) \subseteq durable'[i]
          /\ seen' = seen /\ cur' = cur /\ curDisk' = curDisk
          /\ pc \in Ready /\ pc' # "markSync"
        BY <1>19 DEF ChunksSync, ManifestSync, SyncFiles, SyncGeneration, TypeOK, Both
    <2>2. (\A j \in Ids : Has(j)' => Has(j)) /\ (cur \in Ids => Both(cur) \subseteq Both(cur)')
        BY <2>1 DEF Has, Both
    <2> QED
        BY <1>5, <2>1, <2>2
<1>20. CASE PublishSync
    <2>1. /\ \A i \in Ids : durable'[i] \subseteq durable[i] \cup seen[i]
          /\ seen' = seen /\ cur' = cur /\ curDisk' = curDisk /\ pc' = "trim"
        BY <1>20 DEF PublishSync, SyncFiles, SyncGeneration, TypeOK
    <2>2. PossibleCurrent' = PossibleCurrent /\ \A j \in Ids : Has(j)' => Has(j)
        BY <2>1 DEF Has, PossibleCurrent
    <2> QED
        BY <1>6, <2>1, <2>2
<1>21. CASE Publish
    <2>1. /\ PossibleCurrent = {cur} /\ PossibleCurrent' = {cur} /\ cur = id
          /\ pc' = "publishSync" /\ durable' = durable
        BY <1>21 DEF Publish, Write, DiskInv, CurrentKnown, Writing, NamedSteps,
                     PossibleCurrent
    <2>2. \A i \in Ids : i # id => seen'[i] = seen[i]
        BY <1>21 DEF Publish, Write, AddEntry, TypeOK
    <2>3. \A j \in Ids : Has(j)' => Has(j) \/ j = cur
        BY <2>1, <2>2 DEF Has
    <2> QED
        BY <1>6, <2>1, <2>3
<1>22. CASE RenameCurrent
    <2>1. /\ cur < id /\ seen' = seen /\ durable' = durable /\ id \in Ids
          /\ PossibleCurrent' \subseteq PossibleCurrent \cup {id} /\ pc' = "currentSync"
          /\ cur \in PossibleCurrent /\ cur \in Ids \cup {NoId}
        BY <1>22 DEF RenameCurrent, Intact, NamedSteps, PossibleCurrent, Busy
    <2>2. \A j \in Ids : Has(j)' <=> Has(j)
        BY <2>1 DEF Has
    <2>3. ASSUME NEW j \in Ids, Has(j)', NEW c \in PossibleCurrent' PROVE j <= c
        <3>1. \A b \in PossibleCurrent : j <= b
            BY <1>1, <2>2, <2>3
        <3>2. j <= cur
            BY <2>1, <3>1
        <3>3. j <= id
            BY <2>1, <3>2, IdValues
        <3> QED
            BY <2>1, <3>1, <3>3
    <2> QED
        BY <1>2, <2>1, <2>3
<1>23. CASE Stop \/ Kill \/ CommitFails \/ MaintenanceFails
    <2>1. UNCHANGED diskVars /\ pc' = "idle"
        BY <1>23 DEF Stop, Kill, CommitFails, MaintenanceFails, Forget, Return
    <2> QED
        BY <2>1, <1>4
<1>24. CASE PowerLoss
    <2>1. \A i \in Ids : seen'[i] \subseteq seen[i] \cup durable[i]
        BY <1>24 DEF PowerLoss, Images, TypeOK
    <2>2. durable' = seen' /\ pc' = "idle"
        BY <1>24 DEF PowerLoss, Forget
    <2>3. PossibleCurrent' \subseteq PossibleCurrent
        BY <1>24 DEF PowerLoss, PossibleCurrent
    <2>4. \A j \in Ids : Has(j)' => Has(j)
        BY <2>1, <2>2 DEF Has
    <2> QED
        BY <1>6, <2>2, <2>3, <2>4
<1>25. CASE Damage
    BY <1>25, StoreAssumption DEF Damage, TypeOK
<1>26. CASE UNCHANGED vars
    BY <1>26, <1>4 DEF vars
<1> QED
    BY <1>7, <1>8, <1>9, <1>10, <1>11, <1>12, <1>13, <1>14, <1>15, <1>16, <1>17, <1>18,
       <1>19, <1>20, <1>21, <1>22, <1>23, <1>24, <1>25, <1>26
    DEF Next, Commit

\* Without requests for old snapshots nothing is ever pinned.
LEMMA NothingPinned ==
    ASSUME Requests = {}, pinned = NoId, [Next]_vars
    PROVE  pinned' = NoId
<1>1. CASE StartResumed \/ StartFresh
    BY <1>1 DEF StartResumed, StartFresh, Opened
<1>2. CASE Commit
    BY <1>2 DEF Commit, Begin, Mark, MarkSync, Prune, PruneSync, Reserve, Mkdir, MkdirSync,
        WriteChunks, WriteAck, WriteManifest, Publish, Write, ChunksSync, ManifestSync,
        PublishSync, SyncFiles, RenameCurrent, CurrentSync, Trim, TrimSync
<1>3. CASE Stop \/ Kill \/ PowerLoss
    BY <1>3 DEF Stop, Kill, PowerLoss, Forget
<1>4. CASE CommitFails \/ PruneFails \/ MaintenanceFails \/ Damage
    BY <1>4 DEF CommitFails, PruneFails, MaintenanceFails, Damage, memVars
<1>5. CASE UNCHANGED vars
    BY <1>5 DEF vars
<1> QED
    BY <1>1, <1>2, <1>3, <1>4, <1>5 DEF Next

\* An empty store owes nothing.
LEMMA BackedInit == Init => BackedInv
<1> SUFFICES ASSUME Init PROVE Backed /\ MarkedUpTo /\ pinned = NoId
    BY DEF BackedInv
<1>1. \A j \in Ids : ~Owed(j) /\ "published" \notin seen[j] \cup durable[j]
    BY DEF Init, Owed
<1> QED
    BY <1>1 DEF Init, Backed, MarkedUpTo

\* Every step keeps what is owed backed, until a media fault.
LEMMA BackedInvStep ==
    ASSUME Roomy
    PROVE  TypeOK /\ Busy /\ DiskInv /\ IntactInv /\ BackedInv /\ [Next]_vars => BackedInv'
<1> SUFFICES ASSUME TypeOK, Busy, DiskInv, IntactInv, BackedInv, [Next]_vars, damage' = 0
             PROVE  Backed' /\ MarkedUpTo' /\ pinned' = NoId
    BY DEF BackedInv
<1>1. damage = 0
    BY DamageGrows
<1>2. Intact /\ Backed /\ MarkedUpTo /\ pinned = NoId
    BY <1>1 DEF IntactInv, BackedInv
<1>3. Backed'
    BY <1>2, BackedStep
<1>4. MarkedUpTo'
    BY <1>2, MarkedStep DEF Roomy
<1>5. pinned' = NoId
    BY <1>2, NothingPinned DEF Roomy
<1> QED
    BY <1>3, <1>4, <1>5

\* The checkpoint to fall back to, in a store without media faults.
FallbackExists == damage = 0 => HasFallback

\* What is owed covers what was acknowledged.
LEMMA BackedFallback == TypeOK /\ IntactInv /\ BackedInv => FallbackExists
<1> SUFFICES ASSUME TypeOK, Intact, Backed,
                    NEW c \in PossibleCurrent \ {NoId}, NEW a \in acked, a < c
             PROVE  a <= LatestValid(Certain, c)
    BY DEF IntactInv, BackedInv, FallbackExists, HasFallback
<1>1. c \in Ids /\ a \in Ids /\ Owed(a)
    BY DEF Intact, PossibleCurrent, TypeOK, Owed
<1>2. PICK i \in Ids : a <= i /\ i < c /\ Good(i)
    BY <1>1 DEF Backed
<1>3. Certain[i] = Both(i) /\ Entries \subseteq Certain[i]
    BY <1>2 DEF Certain, Good, Both, Entries
<1>4. Marked(Certain, damaged, i) /\ Loads(Certain, damaged, i)
    BY <1>3 DEF Marked, Loads, Intact, Entries, Committed
<1>5. i \in Fallbacks(Certain, damaged, c)
    BY <1>2, <1>4 DEF Fallbacks
<1>6. i <= Newest(Certain, damaged, c)
    BY <1>5, NewestFallback
<1>7. Newest(Certain, damaged, c) \in Int
    BY <1>5, NewestFallback, IdValues DEF Fallbacks
<1>8. LatestValid(Certain, c) = Newest(Certain, damaged, c)
    BY RecoverIs
<1> QED
    BY <1>1, <1>2, <1>6, <1>7, <1>8, IdValues

\* With room for three generations and no requests for old snapshots, the store
\* always has, below whatever CURRENT may say after a power loss, a published
\* generation no older than the checkpoints acknowledged before it, until a
\* media fault: prune removes CURRENT's predecessor only once the generation
\* that replaces it as the fallback is marked and synced.
THEOREM FallbackAlways ==
    ASSUME Roomy
    PROVE  Spec => []FallbackExists
<1>1. LostSyncs = {}
    BY DEF Roomy
<1>2. TypeOK /\ Busy /\ IntactInv /\ [Next]_vars => IntactInv'
    BY <1>1, IntactStep
<1>3. TypeOK /\ Busy /\ DiskInv /\ [Next]_vars => DiskInv'
    BY <1>1, DiskStep
<1> QED
    BY <1>2, <1>3, TypeInit, TypeStep, DiskInit, IntactInit, BackedInit, BackedInvStep,
       BackedFallback, PTL DEF Spec

\* The same as a property of the steps: no step but a media fault takes the
\* fallback away.
THEOREM FallbackStays ==
    ASSUME Roomy
    PROVE  Spec => FallbackRetained
<1>1. FallbackExists' /\ [Next]_vars
         => [HasFallback /\ pinned = NoId /\ NoHalfPruned /\ damage' = 0
                => HasFallback']_vars
    BY DEF FallbackExists
<1> QED
    BY <1>1, FallbackAlways, PTL DEF Spec, FallbackRetained
=============================================================================
