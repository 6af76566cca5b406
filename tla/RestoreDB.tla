----------------------------- MODULE RestoreDB -----------------------------
(***************************************************************************)
(* pc restore-db: the live store ~/personal-context is replaced, entry by  *)
(* entry, by a store staged from a snapshot.  cli/restore_db.go and        *)
(* cli/restore_recovery.go keep a marker file that every later command     *)
(* consults before it opens the database; gitsnapshot/snapshot.go moves    *)
(* the entries (ReplaceContents, CompleteReplacement,                      *)
(* RestoreReplacementBackup).                                              *)
(*                                                                         *)
(* An entry is one of restorePayloadEntries, in the order of the code;     *)
(* entry 1 is the database.  Its content is old (before the restore), new  *)
(* (staged) or missing.  A process may die, or a call may fail, between    *)
(* any two changes of the file system; what the kernel has been told       *)
(* survives (loss of power is not modelled).                               *)
(***************************************************************************)
EXTENDS Naturals, FiniteSets

CONSTANTS
    Proc,       \* pc processes
    N,          \* number of payload entries
    Overlap,    \* TRUE: processes run at the same time
    MaxFaults   \* bound: crashes and failing calls

ASSUME RestoreAssumption ==
    /\ N \in Nat \ {0}
    /\ Overlap \in BOOLEAN
    /\ MaxFaults \in Nat

VARIABLES
    live,     \* the payload entries of the live store
    staged,   \* ... of the staging directory
    backup,   \* ... of the payload backup directory
    dirs,     \* which of "staging", "backup" exist as directories
    marker,   \* .pc/restore.marker
    proc,     \* the running commands
    outcome,  \* how restore-db ended, once it has
    before,   \* history: the live store when it was listed by restore-db
    after,    \* history: the store that was staged
    faults    \* crashes and failures so far

files == <<live, staged, backup, dirs>>
vars == <<live, staged, backup, dirs, marker, proc, outcome, before, after, faults>>

Entry == 1..N
Database == 1
Tree == [Entry -> {"none", "old", "new"}]
Nothing == [e \in Entry |-> "none"]
Present(tree) == {e \in Entry : tree[e] # "none"}

\* restoreMarker; phase "none" stands for no file.
Marker == [phase: {"none", "staging", "committing", "done"}, rollbackOnly: BOOLEAN,
           staged: SUBSET Entry, original: SUBSET Entry]
NoMarker == [phase |-> "none", rollbackOnly |-> FALSE, staged |-> {}, original |-> {}]

PcState == {"idle", "read", "sweep", "forward", "back", "cleanStaging",
            "cleanBackup", "unmark", "opened", "markStaging", "markCommitting",
            "mkBackup", "backup", "promote", "commit", "dropBackup", "markDone",
            "markRollback", "undo", "abort"}

\* pc, the command, the loop position, the local marker, the local lists
\* movedExisting and promoted, the flag cleanupBackup, and what the process is about.
Process == [pc: PcState, cmd: {"none", "open", "restore"}, i: 0..(N + 1), mk: Marker,
            moved: SUBSET Entry, promoted: SUBSET Entry, cleanupBackup: BOOLEAN,
            role: {"recover", "commit", "abort"}]
Idle == [pc |-> "idle", cmd |-> "none", i |-> 0, mk |-> NoMarker,
         moved |-> {}, promoted |-> {}, cleanupBackup |-> TRUE, role |-> "recover"]

TypeOK ==
    /\ live \in Tree /\ staged \in Tree /\ backup \in Tree
    /\ dirs \subseteq {"staging", "backup"}
    /\ marker \in Marker
    /\ proc \in [Proc -> Process]
    /\ outcome \in {"none", "committed", "aborted"}
    /\ before \in Tree /\ after \in Tree
    /\ faults \in Nat

\* A store with a database and any of the other entries.
Init ==
    /\ live \in {t \in [Entry -> {"none", "old"}] : t[Database] = "old"}
    /\ staged = Nothing
    /\ backup = Nothing
    /\ dirs = {}
    /\ marker = NoMarker
    /\ proc = [p \in Proc |-> Idle]
    /\ outcome = "none"
    /\ before = live
    /\ after = Nothing
    /\ faults = 0

Goto(p, l) == proc' = [proc EXCEPT ![p].pc = l]
GotoAt(p, l, i) == proc' = [proc EXCEPT ![p].pc = l, ![p].i = i]
Fault == faults < MaxFaults /\ faults' = faults + 1
History == <<outcome, before, after>>

-----------------------------------------------------------------------------
(* Every command: recoverInterruptedRestore, then the database is opened.  *)

\* openLocalStack, ensureLocalEnvironment.
Start(p, cmd) ==
    /\ proc[p].pc = "idle"
    /\ ~Overlap => \A q \in Proc : proc[q].pc = "idle"
    /\ cmd = "restore" => after = Nothing /\ \A q \in Proc : proc[q].cmd # "restore"
    /\ proc' = [proc EXCEPT ![p] = [Idle EXCEPT !.pc = "read", !.cmd = cmd]]
    /\ UNCHANGED <<files, marker, History, faults>>

\* Where recovery starts for a marker that is committing.
recoverCommittingRestore(mk) ==
    CASE mk.rollbackOnly -> "back"
      [] ~mk.rollbackOnly /\ "staging" \in dirs -> "forward"
      [] OTHER -> IF "backup" \notin dirs /\ live[Database] # "none"
                     THEN "cleanStaging" ELSE "back"

\* Mutant: every unfinished restore is treated as one that was only staged.
recoverAsStaging(p) ==
    /\ proc[p].pc = "read"
    /\ proc' = [proc EXCEPT ![p].pc = IF marker.phase = "none" THEN "opened" ELSE "sweep",
                            ![p].mk = marker]
    /\ UNCHANGED <<files, marker, History, faults>>

\* readRestoreMarker and the choice of a recovery.
recoverInterruptedRestore(p) ==
    /\ proc[p].pc = "read"
    /\ LET next == CASE marker.phase = "none"       -> "opened"
                     [] marker.phase = "staging"    -> "sweep"
                     [] marker.phase = "committing" -> recoverCommittingRestore(marker)
                     [] marker.phase = "done"       -> "cleanStaging"
       IN  proc' = [proc EXCEPT ![p].pc = next, ![p].mk = marker,
                                ![p].i = IF next = "back" THEN N ELSE 1]
    /\ UNCHANGED <<files, marker, History, faults>>

\* Phase staging: the staged store is thrown away.
sweepStaging(p) ==
    /\ proc[p].pc = "sweep"
    /\ staged' = Nothing
    /\ dirs' = dirs \ {"staging"}
    /\ Goto(p, "unmark")
    /\ UNCHANGED <<live, backup, marker, History, faults>>

\* CompleteReplacement, one entry.  A live entry is left alone if it is the
\* promoted one; otherwise it makes room, and the staged entry takes its place.
CompleteReplacement(p) ==
    LET e == proc[p].i
        promoted == staged[e] = "none" /\ e \in proc[p].mk.staged
    IN  /\ proc[p].pc = "forward"
        /\ e \in Entry
        /\ \/ /\ live[e] # "none" /\ promoted
              /\ GotoAt(p, "forward", e + 1)
              /\ UNCHANGED files
           \/ /\ live[e] # "none" /\ ~promoted
              /\ live' = [live EXCEPT ![e] = "none"]
              /\ backup' = [backup EXCEPT ![e] = IF @ = "none" THEN live[e] ELSE @]
              /\ dirs' = dirs \cup {"backup"}
              /\ UNCHANGED <<staged, proc>>
           \/ /\ live[e] = "none"
              /\ live' = [live EXCEPT ![e] = staged[e]]
              /\ staged' = [staged EXCEPT ![e] = "none"]
              /\ GotoAt(p, "forward", e + 1)
              /\ UNCHANGED <<backup, dirs>>
        /\ UNCHANGED <<marker, History, faults>>

\* Rolled forward: done if there is a database, else roll back.
rolledForward(p) ==
    /\ proc[p].pc = "forward"
    /\ proc[p].i = N + 1
    /\ IF live[Database] # "none" THEN Goto(p, "cleanStaging") ELSE GotoAt(p, "back", N)
    /\ UNCHANGED <<files, marker, History, faults>>

\* Mutant: the original entries of the marker are ignored.
RestoreBackupForgetful(p) ==
    LET e == proc[p].i
    IN  /\ proc[p].pc = "back"
        /\ e \in Entry
        /\ live' = [live EXCEPT ![e] = backup[e]]
        /\ backup' = [backup EXCEPT ![e] = "none"]
        /\ GotoAt(p, "back", e - 1)
        /\ UNCHANGED <<staged, dirs, marker, History, faults>>

\* RestoreReplacementBackup, one entry, from the last to the first.  An original
\* entry without a backup never left its place; any other target is cleared, then
\* the backup, if there is one, takes its place.
RestoreReplacementBackup(p) ==
    LET e == proc[p].i
        inPlace == backup[e] = "none" /\ e \in proc[p].mk.original
    IN  /\ proc[p].pc = "back"
        /\ e \in Entry
        /\ \/ /\ inPlace
              /\ GotoAt(p, "back", e - 1)
              /\ UNCHANGED <<live, backup>>
           \/ /\ ~inPlace /\ live[e] # "none"
              /\ live' = [live EXCEPT ![e] = "none"]
              /\ UNCHANGED <<backup, proc>>
           \/ /\ ~inPlace /\ live[e] = "none"
              /\ live' = [live EXCEPT ![e] = backup[e]]
              /\ backup' = [backup EXCEPT ![e] = "none"]
              /\ GotoAt(p, "back", e - 1)
        /\ UNCHANGED <<staged, dirs, marker, History, faults>>

\* Rolled back: an abort goes on to finishCommittedRestore, a recovery requires
\* a database and cleans up.
rolledBack(p) ==
    /\ proc[p].pc = "back"
    /\ proc[p].i = 0
    /\ IF proc[p].role = "abort" THEN Goto(p, "markDone")
       ELSE IF live[Database] # "none" THEN Goto(p, "cleanStaging")
       ELSE proc' = [proc EXCEPT ![p] = Idle]
    /\ UNCHANGED <<files, marker, History, faults>>

\* cleanupCompletedRestore: the staging directory first ...
cleanupRestoreStaging(p) ==
    /\ proc[p].pc = "cleanStaging"
    /\ staged' = Nothing
    /\ dirs' = dirs \ {"staging"}
    /\ Goto(p, "cleanBackup")
    /\ UNCHANGED <<live, backup, marker, History, faults>>

\* os.RemoveAll of the backup directory, which goes through it in any order.
RemoveBackup(p, from, to) ==
    /\ proc[p].pc = from
    /\ \/ /\ \E e \in Present(backup) : backup' = [backup EXCEPT ![e] = "none"]
          /\ UNCHANGED <<dirs, proc>>
       \/ /\ Present(backup) = {}
          /\ dirs' = dirs \ {"backup"}
          /\ Goto(p, to)
          /\ UNCHANGED backup
    /\ UNCHANGED <<live, staged, marker, History, faults>>

\* ... then the backup ...
cleanupCompletedRestore(p) == RemoveBackup(p, "cleanBackup", "unmark")

\* Mutant: a recovery forgets to remove the marker it has dealt with.
keepRestoreMarker(p) ==
    /\ proc[p].pc = "unmark"
    /\ Goto(p, "opened")
    /\ UNCHANGED <<files, marker, History, faults>>

\* ... and the marker.
removeRestoreMarker(p) ==
    /\ proc[p].pc = "unmark"
    /\ marker' = NoMarker
    /\ CASE proc[p].role = "recover" -> Goto(p, "opened") /\ UNCHANGED outcome
         [] proc[p].role = "commit"  -> proc' = [proc EXCEPT ![p] = Idle] /\ outcome' = "committed"
         [] proc[p].role = "abort"   -> proc' = [proc EXCEPT ![p] = Idle] /\ outcome' = "aborted"
    /\ UNCHANGED <<files, before, after, faults>>

\* The command has used the store.
Exit(p) ==
    /\ proc[p].pc = "opened"
    /\ proc[p].cmd = "open"
    /\ proc' = [proc EXCEPT ![p] = Idle]
    /\ UNCHANGED <<files, marker, History, faults>>

-----------------------------------------------------------------------------
(* pc restore-db.                                                          *)

\* The live entries are listed and the snapshot is imported into a new staging
\* directory (buildRestoreStagedStore).
stageStore(p) ==
    /\ proc[p].pc = "opened"
    /\ proc[p].cmd = "restore"
    /\ \E t \in [Entry -> {"none", "new"}] :
          /\ t[Database] = "new"
          /\ staged' = t
          /\ after' = t
          /\ proc' = [proc EXCEPT ![p].pc = "markStaging", ![p].role = "commit",
                        ![p].mk = [phase |-> "staging", rollbackOnly |-> FALSE,
                                   staged |-> Present(t), original |-> Present(live)]]
    /\ dirs' = dirs \cup {"staging"}
    /\ before' = live
    /\ UNCHANGED <<live, backup, marker, outcome, faults>>

\* writeRestoreMarker, which replaces the file by a rename.
writeRestoreMarker(p, from, mk, to) ==
    /\ proc[p].pc = from
    /\ marker' = mk
    /\ proc' = [proc EXCEPT ![p].pc = to, ![p].mk = mk, ![p].i = 1]
    /\ UNCHANGED <<files, History, faults>>

markStaging(p) == writeRestoreMarker(p, "markStaging", proc[p].mk, "markCommitting")

\* A failing write of the first marker lets the deferred cleanup run.
markStagingFails(p) ==
    /\ proc[p].pc = "markStaging"
    /\ Fault
    /\ marker' \in {marker, proc[p].mk}
    /\ staged' = Nothing
    /\ dirs' = dirs \ {"staging"}
    /\ proc' = [proc EXCEPT ![p] = Idle]
    /\ UNCHANGED <<live, backup, History>>

markCommitting(p) ==
    writeRestoreMarker(p, "markCommitting", [proc[p].mk EXCEPT !.phase = "committing"], "mkBackup")

\* createReplacementBackupDir
createReplacementBackupDir(p) ==
    /\ proc[p].pc = "mkBackup"
    /\ dirs' = dirs \cup {"backup"}
    /\ GotoAt(p, "backup", 1)
    /\ UNCHANGED <<live, staged, backup, marker, History, faults>>

\* replaceContents, first loop: every live entry is moved to the backup.
backupExisting(p) ==
    LET e == proc[p].i
    IN  /\ proc[p].pc = "backup"
        /\ e \in Entry
        /\ IF live[e] = "none" THEN UNCHANGED <<live, backup>>
           ELSE /\ backup' = [backup EXCEPT ![e] = live[e]]
                /\ live' = [live EXCEPT ![e] = "none"]
        /\ proc' = [proc EXCEPT ![p].i = IF e = N THEN 1 ELSE e + 1,
                                ![p].pc = IF e = N THEN "promote" ELSE @,
                                ![p].moved = IF live[e] = "none" THEN @ ELSE @ \cup {e}]
        /\ UNCHANGED <<staged, dirs, marker, History, faults>>

\* replaceContents, second loop: every staged entry is moved into place.
promoteStaged(p) ==
    LET e == proc[p].i
    IN  /\ proc[p].pc = "promote"
        /\ e \in Entry
        /\ IF staged[e] = "none" THEN UNCHANGED <<live, staged>>
           ELSE /\ live' = [live EXCEPT ![e] = staged[e]]
                /\ staged' = [staged EXCEPT ![e] = "none"]
        /\ proc' = [proc EXCEPT ![p].i = IF e = N THEN 1 ELSE e + 1,
                                ![p].pc = IF e = N THEN "commit" ELSE @,
                                ![p].promoted = IF staged[e] = "none" THEN @ ELSE @ \cup {e}]
        /\ UNCHANGED <<backup, dirs, marker, History, faults>>

\* syncReplacementDirs: the replacement is committed.
commitReplacement(p) ==
    /\ proc[p].pc = "commit"
    /\ Goto(p, "dropBackup")
    /\ UNCHANGED <<files, marker, History, faults>>

\* The backup is removed; a failure is reported but the restore is finished.
dropBackup(p) == RemoveBackup(p, "dropBackup", "markDone")

\* Mutant: a failing cleanup is taken for a failing replacement.
dropBackupFailsAborts(p) ==
    /\ proc[p].pc = "dropBackup"
    /\ Fault
    /\ Goto(p, "abort")
    /\ UNCHANGED <<files, marker, History>>

dropBackupFails(p) ==
    /\ proc[p].pc = "dropBackup"
    /\ Fault
    /\ Goto(p, "markDone")
    /\ UNCHANGED <<files, marker, History>>

\* finishCommittedRestore, of a commit or of an abort.
markDone(p) ==
    writeRestoreMarker(p, "markDone", [proc[p].mk EXCEPT !.phase = "done"], "cleanStaging")

\* A rename or a flush of replaceContents fails.
replaceFails(p) ==
    /\ proc[p].pc \in {"mkBackup", "backup", "promote", "commit"}
    /\ Fault
    /\ Goto(p, IF proc[p].pc = "mkBackup" THEN "abort" ELSE "markRollback")
    /\ UNCHANGED <<files, marker, History>>

\* BeforeRollback: the marker says that only the old store is acceptable.
markRestoreRollbackOnly(p) ==
    writeRestoreMarker(p, "markRollback", [proc[p].mk EXCEPT !.rollbackOnly = TRUE], "undo")

\* restoreSnapshotContents: promoted entries are removed, then moved ones are
\* brought back, each from the last to the first.  An entry that fails is passed
\* over, and then the backup is kept.
restoreSnapshotContents(p) ==
    LET todo == IF proc[p].promoted # {} THEN proc[p].promoted ELSE proc[p].moved
        e == CHOOSE x \in todo : \A y \in todo : y <= x
        passed(failed) ==
            proc' = [proc EXCEPT ![p].promoted = @ \ {e},
                                 ![p].moved = IF proc[p].promoted # {} THEN @ ELSE @ \ {e},
                                 ![p].cleanupBackup = @ /\ ~failed]
    IN  /\ proc[p].pc = "undo"
        /\ \/ /\ proc[p].promoted # {}
              /\ live' = [live EXCEPT ![e] = "none"]
              /\ passed(FALSE)
              /\ UNCHANGED <<backup, dirs, faults>>
           \/ /\ proc[p].promoted = {} /\ todo # {}
              /\ live' = [live EXCEPT ![e] = backup[e]]
              /\ backup' = [backup EXCEPT ![e] = "none"]
              /\ passed(FALSE)
              /\ UNCHANGED <<dirs, faults>>
           \/ /\ todo # {}
              /\ Fault
              /\ live' \in {live, [live EXCEPT ![e] = "none"]}
              /\ passed(TRUE)
              /\ UNCHANGED <<backup, dirs>>
           \/ /\ todo = {}
              /\ backup' = IF proc[p].cleanupBackup THEN Nothing ELSE backup
              /\ dirs' = IF proc[p].cleanupBackup THEN dirs \ {"backup"} ELSE dirs
              /\ Goto(p, "abort")
              /\ UNCHANGED <<live, faults>>
        /\ UNCHANGED <<staged, marker, History>>

\* The marker cannot be written, or the final flush fails: the backup is kept for
\* the abort.
rollbackFails(p) ==
    /\ proc[p].pc = "markRollback" \/ (proc[p].pc = "undo" /\ proc[p].moved = {})
    /\ Fault
    /\ Goto(p, "abort")
    /\ UNCHANGED <<files, marker, History>>

\* abortFailedRestorePromotion: marked again, then rolled back from the backup.
abortFailedRestorePromotion(p) ==
    LET mk == [proc[p].mk EXCEPT !.rollbackOnly = TRUE]
    IN  /\ proc[p].pc = "abort"
        /\ marker' = mk
        /\ proc' = [proc EXCEPT ![p].pc = "back", ![p].i = N, ![p].mk = mk, ![p].role = "abort"]
        /\ UNCHANGED <<files, History, faults>>

\* The process dies, or a call fails whose error ends the command.
Crash(p) ==
    /\ proc[p].pc # "idle"
    /\ Fault
    /\ proc' = [proc EXCEPT ![p] = Idle]
    /\ UNCHANGED <<files, marker, History>>

-----------------------------------------------------------------------------
Recover(p) ==
    \/ recoverInterruptedRestore(p)
    \/ sweepStaging(p)
    \/ CompleteReplacement(p)
    \/ rolledForward(p)
    \/ RestoreReplacementBackup(p)
    \/ rolledBack(p)
    \/ cleanupRestoreStaging(p)
    \/ cleanupCompletedRestore(p)
    \/ removeRestoreMarker(p)
    \/ Exit(p)

Restore(p) ==
    \/ stageStore(p)
    \/ markStaging(p)
    \/ markCommitting(p)
    \/ createReplacementBackupDir(p)
    \/ backupExisting(p)
    \/ promoteStaged(p)
    \/ commitReplacement(p)
    \/ dropBackup(p)
    \/ markDone(p)
    \/ markRestoreRollbackOnly(p)
    \/ restoreSnapshotContents(p)
    \/ abortFailedRestorePromotion(p)

Fails(p) ==
    markStagingFails(p) \/ replaceFails(p) \/ dropBackupFails(p) \/ rollbackFails(p) \/ Crash(p)

Next ==
    \E p \in Proc :
        \/ Start(p, "open")
        \/ Start(p, "restore")
        \/ Recover(p)
        \/ Restore(p)
        \/ Fails(p)

Spec == Init /\ [][Next]_vars

\* A started command runs on, and the user comes back.
FairSpec ==
    /\ Spec
    /\ \A p \in Proc : WF_vars(Recover(p) \/ Restore(p)) /\ WF_vars(Start(p, "open"))

-----------------------------------------------------------------------------
(* Properties.                                                             *)

\* A command has dealt with the marker, opens the store, and is alone.
Opened == \E p \in Proc : proc[p].pc = "opened" /\ \A q \in Proc \ {p} : proc[q].pc = "idle"

\* "It leaves the live store in either the old backup state or the fully
\* promoted staged state": what a command finds when it opens the store.
AllOrNothing == Opened => live \in {before, after}

\* recoverInterruptedRestore keeps that promise when one call failed or one
\* process died, in restore-db or in recovery; and the store is the one that
\* restore-db announced, the new one after a commit, the old one after an abort.
OneFaultIsRepaired ==
    faults <= 1 => /\ AllOrNothing
                   /\ Opened /\ outcome = "committed" => live = after
                   /\ Opened /\ outcome = "aborted" => live = before

\* A restore that failed and says so has restored the old store, even when roll
\* back met further failures: abortFailedRestorePromotion repairs what
\* restoreSnapshotContents passed over.
AbortRestoresOld ==
    outcome = "aborted" => live = before

\* However often restore and recovery are interrupted, the store that is opened
\* has a database.
DatabaseSurvives == Opened => live[Database] # "none"

\* A marker does not stay: some command completes or undoes the restore.
MarkerIsResolved == (marker.phase # "none") ~> (marker.phase = "none")
=============================================================================
