------------------------------- MODULE Restore -------------------------------
(***************************************************************************)
(* Backup, staging and restore of the database: packages/storage/src/      *)
(* backup.ts, restore-preflight.ts, restore-staging.ts, restore-apply.ts.  *)
(*                                                                         *)
(* A backup job writes a snapshot and its manifest; a staging job copies   *)
(* and verifies it; an apply job keeps the current database as 'previous', *)
(* swaps the staged copy in, and undoes all that if a step fails.  Jobs    *)
(* run next to each other and to the daemon's writes; any file operation   *)
(* may fail, a copy may be damaged, and a job may die between two steps.   *)
(* A removal may fail as well, and the code ignores it: the file stays,    *)
(* and the job goes on as if it were gone.                                 *)
(***************************************************************************)
EXTENDS Integers, FiniteSets

CONSTANTS
    Backups, Stagings, Applies,  \* the calls of create(), stage() and apply()
    MaxWrites,   \* bound: writes of the daemon
    MaxFaults,   \* bound: failed operations and damaged copies
    MaxCrashes,  \* bound: jobs that die
    None

ASSUME RestoreAssumption ==
    /\ {MaxWrites, MaxFaults, MaxCrashes} \subseteq Nat
    /\ Backups \cap (Stagings \cup Applies) = {} /\ Stagings \cap Applies = {}

VARIABLES
    files,     \* what is under each path: [data, ino], or None
    manifest,  \* the digest in the backup's manifest, once there is one
    staged,    \* stage() has returned a path and a plan
    pc,        \* the next step of each job
    seen,      \* currentFingerprint and currentDigest of each apply job
    made,      \* previousCreated
    swapped,   \* swapCommitted
    result,    \* what each job returned or threw
    writes,    \* the daemon's writes so far: the version of its data
    raced,     \* a write fell between an apply job's last check and its end
    litter,    \* the paths whose removal failed unnoticed
    faults, crashes

vars == <<files, manifest, staged, pc, seen, made, swapped, result, writes, raced, litter, faults,
          crashes>>
flags == <<seen, made, swapped>>
world == <<writes, raced>>

Current == <<"current", None>>
Previous == <<"previous", None>>
Snapshot == <<"snapshot", None>>
Staged == <<"staged", None>>

Jobs == Backups \cup Stagings \cup Applies
Named == {Current, Previous, Snapshot, Staged}
\* Temporary files are named by a random id: each job has its own.
Temps == {"copy"} \X Jobs \cup {"swap", "old", "rollback", "rollback-old"} \X Applies
Paths == Named \cup Temps
Bad == -1  \* damaged
Data == 0 .. MaxWrites \cup {Bad}
File == [data : Data, ino : Paths]
Outcomes == {"done", "failed", "changed", "stranded", "applied", "manual", "died"}

\* None is no file, no digest and no outcome.
ASSUME NoneAssumption == None \notin File \cup Data \cup Outcomes

CopyOf(j) == <<"copy", j>>
SwapOf(j) == <<"swap", j>>
OldOf(j) == <<"old", j>>
RollbackOf(j) == <<"rollback", j>>
RollbackOldOf(j) == <<"rollback-old", j>>

Init ==
    /\ files = [p \in Paths |-> IF p = Current THEN [data |-> 0, ino |-> p] ELSE None]
    /\ manifest = None
    /\ staged = FALSE
    /\ pc = [j \in Jobs |-> "begin"]
    /\ seen = [j \in Applies |-> None]
    /\ made = {} /\ swapped = {}
    /\ result = [j \in Jobs |-> None]
    /\ writes = 0 /\ raced = FALSE /\ litter = {}
    /\ faults = 0 /\ crashes = 0

-----------------------------------------------------------------------------
(* File operations and the ends of a job *)

Exists(p) == files[p] # None

\* A copy is a file of its own; a hard link and a renamed file are the same file.
Copied(p, q) == [files EXCEPT ![q] = [data |-> files[p].data, ino |-> q]]
Linked(p, q) == [files EXCEPT ![q] = files[p]]
Moved(p, q) == [files EXCEPT ![q] = files[p], ![p] = None]
Without(ps) == [p \in Paths |-> IF p \in ps THEN None ELSE files[p]]

\* preflight(): the manifest's digest, integrity and schema of snapshot and target.
Preflight(p) ==
    /\ Exists(p) /\ files[p].data = manifest
    /\ Exists(Current) /\ files[Current].data # Bad

Goto(j, step) == pc' = [pc EXCEPT ![j] = step] /\ UNCHANGED result
End(j, r) == pc' = [pc EXCEPT ![j] = "ended"] /\ result' = [result EXCEPT ![j] = r]

\* The step throws: the error waits in result for the handlers of the job.
Throw(j, r, handler) == pc' = [pc EXCEPT ![j] = handler] /\ result' = [result EXCEPT ![j] = r]

\* An operation fails for a reason of its own.
Fault == faults < MaxFaults /\ faults' = faults + 1

\* A step that copies, links or renames: it may fail, and does if it cannot succeed.
Do(j, possible, effect, next, r, handler) ==
    \/ possible /\ files' = effect /\ Goto(j, next) /\ UNCHANGED faults
    \/ ~possible /\ Throw(j, r, handler) /\ UNCHANGED <<files, faults>>
    \/ Fault /\ Throw(j, r, handler) /\ UNCHANGED files

\* A step that only looks, and may fail to read.
Check(j, holds, next, r, handler) ==
    /\ UNCHANGED files
    /\ \/ holds /\ Goto(j, next) /\ UNCHANGED faults
       \/ ~holds /\ Throw(j, r, handler) /\ UNCHANGED faults
       \/ Fault /\ Throw(j, r, handler)

\* rm(...).catch(() => undefined): some of the files may stay, and nobody notices.
Remove(ps) ==
    \E left \in SUBSET {p \in ps : Exists(p)} :
        /\ files' = Without(ps \ left)
        /\ litter' = litter \cup left
        /\ IF left = {} THEN UNCHANGED faults ELSE Fault

At(j, step) == pc[j] = step
Outside == UNCHANGED <<manifest, staged, flags, world, crashes>>
Same == Outside /\ UNCHANGED litter

-----------------------------------------------------------------------------
(* create() of a backup *)

BackupBegin(j) ==
    /\ At(j, "begin") /\ Same
    /\ Check(j, Exists(Current) /\ ~Exists(Snapshot), "vacuum", "failed", "ended")

\* VACUUM INTO: a consistent copy, if the source's integrity and schema are right.
BackupVacuum(j) ==
    /\ At(j, "vacuum") /\ Same
    /\ Do(j, Exists(Current) /\ files[Current].data # Bad,
          Copied(Current, CopyOf(j)), "link", "failed", "clean")

\* The copy is verified, its digest goes into the manifest, and it is committed
\* under its name, never over another file.
BackupLink(j) ==
    /\ At(j, "link")
    /\ Do(j, ~Exists(Snapshot) /\ files[CopyOf(j)].data # Bad,
          Linked(CopyOf(j), Snapshot), "clean", "failed", "clean")
    /\ manifest' = IF files' # files THEN files[CopyOf(j)].data ELSE manifest
    /\ UNCHANGED <<staged, flags, world, litter, crashes>>

-----------------------------------------------------------------------------
(* stage() of a snapshot *)

StageBegin(j) ==
    /\ At(j, "begin") /\ Same
    /\ manifest # None
    /\ Check(j, Preflight(Snapshot) /\ ~Exists(Staged), "copy", "failed", "ended")

StageCopy(j) ==
    /\ At(j, "copy") /\ Same
    /\ Do(j, Exists(Snapshot), Copied(Snapshot, CopyOf(j)), "verify", "failed", "clean")

StageVerify(j) ==
    /\ At(j, "verify") /\ Same
    /\ Check(j, Preflight(CopyOf(j)), "link", "failed", "clean")

StageLink(j) ==
    /\ At(j, "link")
    /\ Do(j, ~Exists(Staged), Linked(CopyOf(j), Staged), "clean", "failed", "clean")
    /\ staged' = (staged \/ files' # files)
    /\ UNCHANGED <<manifest, flags, world, litter, crashes>>

\* finally: the temporary file goes, whatever happened.
Clean(j) ==
    /\ At(j, "clean") /\ Outside
    /\ Remove({CopyOf(j)})
    /\ End(j, IF result[j] = None THEN "done" ELSE result[j])

-----------------------------------------------------------------------------
(* apply(): current is kept as previous *)

\* Plan, confirmation and paths are right or refused; then the staged copy is
\* verified, there must be no previous, and the current file is remembered.
ApplyBegin(j) ==
    /\ At(j, "begin") /\ staged
    /\ Check(j, Preflight(Staged) /\ ~Exists(Previous), "preserve", "failed", "ended")
    /\ seen' = [seen EXCEPT ![j] = files[Current]]
    /\ UNCHANGED <<manifest, staged, made, swapped, world, litter, crashes>>

Preserve(j) ==
    /\ At(j, "preserve") /\ Same
    /\ Do(j, Exists(Current), Copied(Current, CopyOf(j)), "compare", "failed", "undo")

\* fingerprint() and digest of the current file are the remembered ones.
Unchanged(j) == files[Current] = seen[j]

Compare(j) ==
    /\ At(j, "compare") /\ Same
    /\ Check(j, Unchanged(j) /\ files[CopyOf(j)].data = seen[j].data,
             "keep", "changed", "undo")

KeepReplacing(j) ==
    /\ At(j, "keep")
    /\ Do(j, TRUE, Linked(CopyOf(j), Previous), "prepare", "failed", "undo")
    /\ made' = IF files' # files THEN made \cup {j} ELSE made
    /\ UNCHANGED <<manifest, staged, seen, swapped, world, litter, crashes>>

\* link(): previous is committed, never over another one.
Keep(j) ==
    /\ At(j, "keep")
    /\ Do(j, ~Exists(Previous), Linked(CopyOf(j), Previous), "prepare", "failed", "undo")
    /\ made' = IF files' # files THEN made \cup {j} ELSE made
    /\ UNCHANGED <<manifest, staged, seen, swapped, world, litter, crashes>>

-----------------------------------------------------------------------------
(* apply(): the swap *)

Prepare(j) ==
    /\ At(j, "prepare") /\ Same
    /\ IF Unchanged(j)
       THEN Do(j, Exists(Staged), Copied(Staged, SwapOf(j)), "verify", "failed", "undo")
       ELSE Throw(j, "changed", "undo") /\ UNCHANGED <<files, faults>>

\* The last check before the swap.
Verify(j) ==
    /\ At(j, "verify") /\ Same
    /\ Check(j, Preflight(SwapOf(j)) /\ Unchanged(j), "swap", "failed", "undo")

\* A rename over a file; on some systems the destination is in the way (EEXIST,
\* EPERM, EBUSY), which sends the job another way round.
Replace(j, p, q, next, around, handler) ==
    \/ Exists(p) /\ files' = Moved(p, q) /\ Goto(j, next) /\ UNCHANGED faults
    \/ Fault /\ Goto(j, around) /\ UNCHANGED files
    \/ Fault /\ Throw(j, "failed", handler) /\ UNCHANGED files

Swap(j) ==
    /\ At(j, "swap")
    /\ Replace(j, SwapOf(j), Current, "swapped", "aside", "undo")
    /\ swapped' = IF files' # files THEN swapped \cup {j} ELSE swapped
    /\ UNCHANGED <<manifest, staged, seen, made, world, litter, crashes>>

\* The other way round: current aside, the candidate in, and back on failure; what
\* cannot be brought back is stranded (MANUAL_RECOVERY_REQUIRED).
Aside(j) ==
    /\ At(j, "aside") /\ Same
    /\ Do(j, Exists(Current), Moved(Current, OldOf(j)), "install", "failed", "undo")

InstallStays(j) ==
    /\ At(j, "install") /\ Same
    /\ Do(j, TRUE, Moved(SwapOf(j), Current), "drop", "failed", "undo")

Install(j) ==
    /\ At(j, "install") /\ Same
    /\ Do(j, TRUE, Moved(SwapOf(j), Current), "drop", "failed", "back")

Back(j) ==
    /\ At(j, "back") /\ Same
    /\ \/ files' = Moved(OldOf(j), Current) /\ Goto(j, "undo") /\ UNCHANGED faults
       \/ Fault /\ Throw(j, "stranded", "undo") /\ UNCHANGED files

Drop(j) ==
    /\ At(j, "drop")
    /\ Remove({OldOf(j)})
    /\ Goto(j, "swapped")
    /\ swapped' = swapped \cup {j}
    /\ UNCHANGED <<manifest, staged, seen, made, world, crashes>>

\* The digest of what is now current decides.
Applied(j) ==
    /\ At(j, "swapped") /\ Same
    /\ UNCHANGED files
    /\ LET good == Exists(Current) /\ files[Current].data = manifest IN
       \/ good /\ Throw(j, "applied", "finally") /\ UNCHANGED faults
       \/ ~good /\ Throw(j, "failed", "undo") /\ UNCHANGED faults
       \/ Fault /\ Throw(j, "failed", "undo")

-----------------------------------------------------------------------------
(* apply(): undoing *)

\* catch: after the swap current is rolled back, else previous goes if it is ours.
Undo(j) ==
    /\ At(j, "undo") /\ Outside
    /\ IF j \in swapped THEN Goto(j, "rollback") /\ UNCHANGED <<files, litter, faults>>
       ELSE Goto(j, "finally") /\ Remove(IF j \in made THEN {Previous} ELSE {})

Rollback(j) ==
    /\ At(j, "rollback") /\ Same
    /\ Do(j, Exists(Previous), Copied(Previous, RollbackOf(j)), "return", "manual", "finally")

Return(j) ==
    /\ At(j, "return") /\ Same
    /\ Replace(j, RollbackOf(j), Current, "forget", "return-aside", "manual")

ReturnAside(j) ==
    /\ At(j, "return-aside") /\ Same
    /\ Do(j, Exists(Current), Moved(Current, RollbackOldOf(j)), "return-install", "manual", "manual")

\* The second rename fails, and the first is undone, or the removal of what lay aside
\* fails.  A second failure in a row is swallowed: what was rolled back stays aside.
ReturnInstall(j) ==
    /\ At(j, "return-install") /\ Same
    /\ \/ /\ files' = [Moved(RollbackOf(j), Current) EXCEPT ![RollbackOldOf(j)] = None]
          /\ Goto(j, "forget") /\ UNCHANGED faults
       \/ /\ Fault
          /\ files' \in {Moved(RollbackOf(j), Current), Moved(RollbackOldOf(j), Current)}
          /\ Throw(j, "manual", "manual")
       \/ /\ faults + 2 <= MaxFaults /\ faults' = faults + 2
          /\ Throw(j, "manual", "manual")
          /\ UNCHANGED files

\* Rolled back: previous has done its duty.
Forget(j) ==
    /\ At(j, "forget") /\ Outside
    /\ Remove({Previous, RollbackOf(j)})
    /\ Goto(j, "finally")

\* The rollback failed: previous stays for whoever recovers by hand.
Manual(j) ==
    /\ At(j, "manual") /\ Outside
    /\ Remove({RollbackOf(j)})
    /\ Throw(j, "manual", "finally")

FinallyKeepsCopies(j) ==
    /\ At(j, "finally") /\ Same
    /\ End(j, result[j])
    /\ UNCHANGED <<files, faults>>

Finally(j) ==
    /\ At(j, "finally") /\ Outside
    /\ Remove({CopyOf(j), SwapOf(j), OldOf(j)})
    /\ End(j, result[j])

-----------------------------------------------------------------------------
(* The surroundings *)

\* The apply jobs that no longer look whether current has changed.
PastChecks ==
    {j \in Applies : \/ pc[j] \in {"swap", "aside", "install", "back", "drop"}
                      \/ (j \in swapped /\ pc[j] # "ended")}

\* The daemon writes to its database, which it opens by its path.  The story ends
\* with a restore: what it writes to the restored database is not followed.
Write ==
    /\ writes < MaxWrites
    /\ Exists(Current) /\ files[Current].data # Bad
    /\ \A j \in Applies : result[j] # "applied"
    /\ writes' = writes + 1
    /\ files' = [files EXCEPT ![Current].data = writes']
    /\ raced' = (raced \/ PastChecks # {})
    /\ UNCHANGED <<manifest, staged, pc, flags, result, litter, faults, crashes>>

\* The medium damages a snapshot, a staged copy or a prepared candidate.
Damage ==
    /\ Fault
    /\ \E p \in {Snapshot, Staged} \cup {SwapOf(j) : j \in Applies} :
          Exists(p) /\ files' = [files EXCEPT ![p].data = Bad]
    /\ UNCHANGED <<manifest, staged, pc, flags, result, world, litter, crashes>>

\* The process of a job dies; nothing takes the job up again.
Crash(j) ==
    /\ crashes < MaxCrashes
    /\ pc[j] \notin {"begin", "ended"}
    /\ crashes' = crashes + 1
    /\ pc' = [pc EXCEPT ![j] = "ended"]
    /\ result' = [result EXCEPT ![j] = "died"]
    /\ UNCHANGED <<files, manifest, staged, flags, world, litter, faults>>

Backup(j) == BackupBegin(j) \/ BackupVacuum(j) \/ BackupLink(j) \/ Clean(j)
Stage(j) == StageBegin(j) \/ StageCopy(j) \/ StageVerify(j) \/ StageLink(j) \/ Clean(j)
Apply(j) ==
    \/ ApplyBegin(j) \/ Preserve(j) \/ Compare(j) \/ Keep(j) \/ Prepare(j) \/ Verify(j)
    \/ Swap(j) \/ Aside(j) \/ Install(j) \/ Back(j) \/ Drop(j) \/ Applied(j)
    \/ Undo(j) \/ Rollback(j) \/ Return(j) \/ ReturnAside(j) \/ ReturnInstall(j)
    \/ Forget(j) \/ Manual(j) \/ Finally(j)

Next ==
    \/ \E j \in Backups : Backup(j)
    \/ \E j \in Stagings : Stage(j)
    \/ \E j \in Applies : Apply(j)
    \/ \E j \in Jobs : Crash(j)
    \/ Write \/ Damage

Spec == Init /\ [][Next]_vars

-----------------------------------------------------------------------------
(* Properties *)

TypeOK ==
    /\ files \in [Paths -> File \cup {None}]
    /\ manifest \in Data \cup {None} /\ manifest # Bad
    /\ staged \in BOOLEAN /\ raced \in BOOLEAN
    /\ seen \in [Applies -> File \cup {None}]
    /\ made \subseteq Applies /\ swapped \subseteq Applies /\ litter \subseteq Paths
    /\ writes \in 0 .. MaxWrites /\ faults \in 0 .. MaxFaults /\ crashes \in 0 .. MaxCrashes

\* The daemon's latest data is in some file beside the backup's own, in every state
\* of every job, after a crash and after failures: current, previous, or a temporary
\* file.  Two cases are excepted: a write that raced with the swap, and a swap that
\* failed and could not be undone (see EvidenceSurvives).
LatestSurvives ==
    \/ raced
    \/ \E j \in Applies : result[j] = "stranded"
    \/ \E p \in Paths \ ({Snapshot, Staged} \cup {SwapOf(j) : j \in Applies}) :
        Exists(p) /\ files[p].data = writes

\* "manual-recovery-required must not delete evidence": also then.
EvidenceSurvives ==
    \/ raced
    \/ \E p \in Paths \ ({Snapshot, Staged} \cup {SwapOf(j) : j \in Applies}) :
        Exists(p) /\ files[p].data = writes

\* When all jobs are over, and none died or called for manual recovery, either one
\* restore was applied, whole, with the data before it kept as previous, or nothing
\* has changed.  What is left beside that, a temporary file or the previous of a job that
\* failed, is only what could not be removed.
EndsWhole ==
    /\ TypeOK
    /\ /\ \A j \in Jobs : pc[j] \in {"begin", "ended"}
       /\ \A j \in Jobs : result[j] \notin {"died", "manual", "stranded"}
       /\ ~raced
       => /\ \A p \in Temps : Exists(p) => p \in litter
          /\ IF \E j \in Applies : result[j] = "applied"
             THEN files[Current].data = manifest /\ files[Previous].data = writes
             ELSE files[Current].data = writes /\ (Exists(Previous) => Previous \in litter)

\* A snapshot, a staged copy or a previous database is never replaced by another one, and
\* never removed, but for a previous by the one job that made it, as it undoes its work.
NeverReplaced ==
    [][\A p \in {Snapshot, Staged, Previous} :
          Exists(p) =>
            \/ files'[p] # None /\ files'[p].ino = files[p].ino
            \/ /\ p = Previous /\ files'[p] = None
               /\ \E j \in made : files[p].ino = CopyOf(j) /\ pc[j] \in {"undo", "forget"}]_vars
=============================================================================
