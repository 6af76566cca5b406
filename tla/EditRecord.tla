----------------------------- MODULE EditRecord -----------------------------
(***************************************************************************)
(* pc records add and pc records edit on one record: rows in SQLite and    *)
(* files in the store are changed one by one, any call may fail, the       *)
(* command then undoes what it did, and the process may die at any point.  *)
(*                                                                         *)
(* The n-th command writes texts and file contents numbered n.  A figure   *)
(* row says nothing of its file; a data file row carries its hash.         *)
(***************************************************************************)
EXTENDS Naturals, Sequences, FiniteSets, SequencesExt

CONSTANTS None,
          Assets,       \* file names, figures first: the order of every loop
          DataFiles,    \* those that are data files
          MaxCommands, MaxFaults   \* bounds

ASSUME AssetsAssumption ==
    /\ Assets \in Seq(STRING) /\ DataFiles \subseteq ToSet(Assets)
    /\ None \notin Nat \cup [text : Nat, upd : Nat] \cup [hash : Nat \cup {None}]
    /\ MaxCommands \in Nat /\ MaxFaults \in Nat

VARIABLES record,    \* [text, upd] or None
          rows,      \* asset rows: name -> [hash] or None
          files,     \* name -> content or None
          temps,     \* .edit-stage-* files: name -> set of contents
          backups,   \* .edit-backup-* files: name -> set of contents
          pc, todo,  \* where the command is, names left in its loop
          input,     \* the input folder: name -> content or None
          old,       \* what an edit read first: [record, rows]
          done,      \* mutations: names whose rows it created, updated, deleted
          staged,    \* staged names
          committed, \* committed files, in order: [name, backup]
          failed,    \* the command returns an error
          command,   \* number of commands started; it is the clock too
          faults,    \* calls that failed and crashes
          lately,    \* history: faults in this command
          before,    \* history: the store and the side files when the command started
          good       \* history: the files after the last success

store == <<record, rows, files>>
progress == <<pc, todo, input, old, done, staged, committed, failed>>
history == <<command, lately, before, good>>
vars == <<store, temps, backups, progress, faults, history>>

Names == ToSet(Assets)

RowOf(n, c) == IF n \in DataFiles THEN [hash |-> c] ELSE [hash |-> None]

NoMutations == [created |-> {}, updated |-> {}, deleted |-> {}]

\* The loops go through their names in the order of Assets.
First(S) == Assets[Min({i \in DOMAIN Assets : Assets[i] \in S})]

Nothing == [n \in Names |-> None]

InputNames == {n \in Names : input[n] # None}

Everything == <<store, temps, backups>>

Present(f) == {n \in Names : f[n] # None}

Init ==
    /\ \/ record = None /\ rows = Nothing /\ files = Nothing
       \/ /\ record = [text |-> 0, upd |-> 0]
          /\ files \in [Names -> {0, None}]
          /\ rows = [n \in Names |-> IF files[n] = None THEN None ELSE RowOf(n, files[n])]
    /\ temps = [n \in Names |-> {}] /\ backups = [n \in Names |-> {}]
    /\ pc = "idle" /\ todo = {} /\ input = Nothing /\ old = None /\ done = NoMutations
    /\ staged = {} /\ committed = <<>> /\ failed = FALSE /\ command = 0 /\ faults = 0 /\ lately = 0
    /\ before = None /\ good = files

Fault == faults < MaxFaults /\ faults' = faults + 1 /\ lately' = lately + 1

NoFault == UNCHANGED <<faults, lately>>

Goto(where, names) == pc' = where /\ todo' = names

\* The names after the one that the loop is at.
Rest == todo \ {First(todo)}

\* The next name of a loop, or the next loop.
Advance(where, names) ==
    IF Rest # {} THEN todo' = Rest /\ UNCHANGED pc ELSE Goto(where, names)

\* A loop without names is skipped.
LoopOver(first, names, second, others) ==
    IF names = {} THEN Goto(second, others) ELSE Goto(first, names)

---------------------------------------------------------------------------
(* Starting *)

Start(contents) ==
    /\ pc = "idle" /\ command < MaxCommands /\ command' = command + 1
    /\ input' = [n \in Names |-> IF n \in contents THEN command + 1 ELSE None]
    /\ done' = NoMutations /\ staged' = {} /\ committed' = <<>> /\ failed' = FALSE
    /\ lately' = 0 /\ before' = Everything
    /\ UNCHANGED <<files, rows, temps, backups, faults, good>>

\* runAdd up to CreateRecord, with a new ID: no file is in its place.
runAdd(contents) ==
    /\ record = None /\ files = Nothing
    /\ record' = [text |-> command + 1, upd |-> command + 1]
    /\ old' = None
    /\ IF contents = {} THEN Goto("succeed", {}) ELSE Goto("copy", contents)
    /\ Start(contents)

\* runEdit up to loadExistingEditAssets.
runEdit(contents) ==
    /\ record # None
    /\ old' = [record |-> record, rows |-> rows]
    /\ Goto("update", {})
    /\ Start(contents) /\ UNCHANGED record

---------------------------------------------------------------------------
(* pc records add: copy a file, create its row *)

FailAdd == failed' = TRUE /\ Goto("deleteRecord", {})

copyInto ==
    /\ pc = "copy"
    /\ LET n == First(todo) IN
       \/ /\ files' = [files EXCEPT ![n] = input[n]]
          /\ staged' = staged \cup {n}
          /\ pc' = "create" /\ UNCHANGED <<todo, failed>> /\ NoFault
       \/ Fault /\ FailAdd /\ UNCHANGED <<files, staged>>
    /\ UNCHANGED <<record, rows, temps, backups, input, old, done, committed, command, before, good>>

createAssetRow ==
    /\ pc = "create"
    /\ LET n == First(todo) IN
       \/ /\ rows' = [rows EXCEPT ![n] = RowOf(n, input[n])]
          /\ IF Rest # {} THEN Goto("copy", Rest) ELSE Goto("succeed", {})
          /\ UNCHANGED failed /\ NoFault
       \/ Fault /\ FailAdd /\ UNCHANGED rows
    /\ UNCHANGED <<record, files, temps, backups, input, old, done, staged, committed, command, before, good>>

\* The deferred rollback of runAdd; errors are ignored.
rollbackAddRecord ==
    /\ pc = "deleteRecord"
    /\ \/ record' = None /\ rows' = Nothing /\ NoFault
       \/ Fault /\ UNCHANGED <<record, rows>>
    /\ LoopOver("deleteCopies", staged, "idle", {})
    /\ UNCHANGED <<files, temps, backups, input, old, done, staged, committed, failed, command, before, good>>

rollbackAddFile ==
    /\ pc = "deleteCopies"
    /\ \/ files' = [files EXCEPT ![First(todo)] = None] /\ NoFault
       \/ Fault /\ UNCHANGED files
    /\ Advance("idle", {})
    /\ UNCHANGED <<record, rows, temps, backups, input, old, done, staged, committed, failed, command, before, good>>

---------------------------------------------------------------------------
(* pc records edit *)

\* An error after the record was updated: finalizeCommittedFiles(false) first.
FailEdit ==
    failed' = TRUE /\ Goto(IF committed' = <<>> THEN "cleanup" ELSE "restore", {})

UpdateRecord ==
    /\ pc = "update"
    /\ \/ /\ record' = [text |-> command, upd |-> command]
          /\ LoopOver("stage", InputNames, "remove", Present(old.rows) \ InputNames)
          /\ UNCHANGED failed /\ NoFault
       \/ Fault /\ failed' = TRUE /\ Goto("idle", {}) /\ UNCHANGED record
    /\ UNCHANGED <<rows, files, temps, backups, input, old, done, staged, committed, command, before, good>>

stageEditInputFiles ==
    /\ pc = "stage"
    /\ LET n == First(todo) IN
       \/ /\ temps' = [temps EXCEPT ![n] = @ \cup {input[n]}]
          /\ staged' = staged \cup {n}
          /\ Advance("upsert", InputNames) /\ UNCHANGED <<failed, committed>> /\ NoFault
       \/ Fault /\ UNCHANGED <<temps, staged, committed>> /\ FailEdit
    /\ UNCHANGED <<store, backups, input, old, done, command, before, good>>

\* Mutant: rows that exist are left as they are.
createEditRowsOnly ==
    /\ pc = "upsert"
    /\ LET n == First(todo) IN
       /\ rows' = IF old.rows[n] = None THEN [rows EXCEPT ![n] = RowOf(n, input[n])] ELSE rows
       /\ done' = IF old.rows[n] = None THEN [done EXCEPT !.created = @ \cup {n}] ELSE done
       /\ Advance("backup", InputNames) /\ UNCHANGED failed /\ NoFault
    /\ UNCHANGED <<record, files, temps, backups, input, old, staged, committed, command, before, good>>

\* upsertEditFigureRecords, upsertEditDataFileRecords
upsertEditRows ==
    /\ pc = "upsert"
    /\ LET n == First(todo) IN
       \/ /\ rows' = [rows EXCEPT ![n] = RowOf(n, input[n])]
          /\ done' = IF old.rows[n] = None THEN [done EXCEPT !.created = @ \cup {n}]
                     ELSE [done EXCEPT !.updated = @ \cup {n}]
          /\ Advance("backup", InputNames) /\ UNCHANGED <<failed, committed>> /\ NoFault
       \/ Fault /\ UNCHANGED <<rows, done, committed>> /\ FailEdit
    /\ UNCHANGED <<record, files, temps, backups, input, old, staged, command, before, good>>

\* Mutant: the old file is removed, not moved aside.
removeExistingFile ==
    /\ pc = "backup"
    /\ files' = [files EXCEPT ![First(todo)] = None]
    /\ committed' = Append(committed, [name |-> First(todo), backup |-> None])
    /\ pc' = "commit" /\ UNCHANGED <<todo, failed>> /\ NoFault
    /\ UNCHANGED <<record, rows, temps, backups, input, old, done, staged, command, before, good>>

\* commitStagedFiles moves the old file aside ...
backupExistingFileForEdit ==
    /\ pc = "backup"
    /\ LET n == First(todo) IN
       \/ /\ files' = [files EXCEPT ![n] = None]
          /\ backups' = [backups EXCEPT ![n] = IF files[n] = None THEN @ ELSE @ \cup {files[n]}]
          /\ committed' = Append(committed, [name |-> n, backup |-> files[n]])
          /\ pc' = "commit" /\ UNCHANGED <<todo, failed>> /\ NoFault
       \/ Fault /\ UNCHANGED <<files, backups, committed>> /\ FailEdit
    /\ UNCHANGED <<record, rows, temps, input, old, done, staged, command, before, good>>

\* What moving a backup back to its place leaves.
Back(c) == [files   |-> IF c.backup = None THEN files ELSE [files EXCEPT ![c.name] = c.backup],
            backups |-> [backups EXCEPT ![c.name] = @ \ {c.backup}]]

\* ... and the new one into its place; if that fails, the old one back.
commitStagedFiles ==
    /\ pc = "commit"
    /\ LET n == First(todo)
           c == Last(committed)
       IN
       \/ /\ files' = [files EXCEPT ![n] = input[n]]
          /\ temps' = [temps EXCEPT ![n] = @ \ {input[n]}]
          /\ IF Rest # {} THEN Goto("backup", Rest) ELSE Goto("remove", Present(old.rows) \ InputNames)
          /\ UNCHANGED <<backups, committed, failed>> /\ NoFault
       \/ /\ Fault
          /\ files' = Back(c).files /\ backups' = Back(c).backups
          /\ committed' = Front(committed) /\ FailEdit
          /\ UNCHANGED temps
       \/ /\ faults + 1 < MaxFaults /\ faults' = faults + 2 /\ lately' = lately + 2
          /\ committed' = Front(committed) /\ FailEdit
          /\ UNCHANGED <<files, backups, temps>>
    /\ UNCHANGED <<record, rows, input, old, done, staged, command, before, good>>

\* deleteRemovedEditFigures, deleteRemovedEditDataFiles: the last step that can
\* fail the edit.
deleteRemovedEditRows ==
    /\ pc = "remove"
    /\ \/ /\ todo = {} /\ Goto("deleteFiles", {})
          /\ good' = [n \in Names |-> IF n \in InputNames THEN files[n] ELSE None]
          /\ UNCHANGED <<rows, done, failed, committed>> /\ NoFault
       \/ /\ todo # {} /\ todo' = Rest /\ UNCHANGED pc
          /\ rows' = [rows EXCEPT ![First(todo)] = None]
          /\ done' = [done EXCEPT !.deleted = @ \cup {First(todo)}]
          /\ UNCHANGED <<failed, good, committed>> /\ NoFault
       \/ todo # {} /\ Fault /\ UNCHANGED <<rows, done, good, committed>> /\ FailEdit
    /\ UNCHANGED <<record, files, temps, backups, input, old, staged, command, before>>

\* Best effort: any of the files may stay.
deleteEditFiles ==
    /\ pc = "deleteFiles"
    /\ \/ /\ files' = [n \in Names |-> IF n \in done.deleted THEN None ELSE files[n]]
          /\ NoFault
       \/ /\ \E kept \in (SUBSET done.deleted) \ {{}} :
                files' = [n \in Names |-> IF n \in done.deleted \ kept THEN None ELSE files[n]]
          /\ Fault
    /\ Goto("succeed", {})
    /\ UNCHANGED <<record, rows, temps, backups, input, old, done, staged, committed, failed, command, before, good>>

\* finalizeCommittedFiles(true): the backups go.
finalizeCommittedFiles ==
    /\ pc = "succeed"
    /\ \/ /\ backups' = [n \in Names |-> backups[n] \ {c.backup : c \in {x \in ToSet(committed) : x.name = n}}]
          /\ NoFault
       \/ Fault /\ UNCHANGED backups
    /\ good' = [n \in Names |-> IF n \in InputNames THEN files[n] ELSE None]
    /\ Goto("idle", {})
    /\ UNCHANGED <<store, temps, input, old, done, staged, committed, failed, command, before>>

\* finalizeCommittedFiles(false): the last committed file is removed and its
\* backup moved back.
restoreCommittedFile ==
    /\ pc = "restore"
    /\ LET c == Last(committed) IN
       \/ /\ files' = [files EXCEPT ![c.name] = c.backup]
          /\ backups' = [backups EXCEPT ![c.name] = @ \ {c.backup}]
          /\ NoFault
       \/ c.backup # None /\ Fault /\ files' = [files EXCEPT ![c.name] = None] /\ UNCHANGED backups
       \/ c.backup = None /\ Fault /\ UNCHANGED <<files, backups>>
    /\ committed' = Front(committed)
    /\ IF Len(committed) = 1 THEN Goto("cleanup", {}) ELSE UNCHANGED <<pc, todo>>
    /\ UNCHANGED <<record, rows, temps, input, old, done, staged, failed, command, before, good>>

cleanupStagedFiles ==
    /\ pc = "cleanup"
    /\ \/ /\ temps' = [n \in Names |-> IF n \in staged THEN temps[n] \ {input[n]} ELSE temps[n]]
          /\ NoFault
       \/ Fault /\ UNCHANGED temps
    /\ LoopOver("rollback", done.created \cup done.updated \cup done.deleted, "rollbackRecord", {})
    /\ UNCHANGED <<store, backups, input, old, done, staged, committed, failed, command, before, good>>

\* The child rows, one by one; errors are ignored.
rollbackRepository ==
    /\ pc = "rollback"
    /\ \/ rows' = [rows EXCEPT ![First(todo)] = old.rows[First(todo)]] /\ NoFault
       \/ Fault /\ UNCHANGED rows
    /\ Advance("rollbackRecord", {})
    /\ UNCHANGED <<record, files, temps, backups, input, old, done, staged, committed, failed, command, before, good>>

\* Mutant: the record comes back with a new updated_at.
rollbackRecordNow ==
    /\ pc = "rollbackRecord"
    /\ record' = [old.record EXCEPT !.upd = command] /\ NoFault
    /\ Goto("idle", {})
    /\ UNCHANGED <<rows, files, temps, backups, input, old, done, staged, committed, failed, command, before, good>>

\* Then the record, with its old updated_at.
rollbackRecord ==
    /\ pc = "rollbackRecord"
    /\ \/ record' = old.record /\ NoFault
       \/ Fault /\ UNCHANGED record
    /\ Goto("idle", {})
    /\ UNCHANGED <<rows, files, temps, backups, input, old, done, staged, committed, failed, command, before, good>>

Crash ==
    /\ pc # "idle" /\ faults < MaxFaults /\ faults' = faults + 1
    /\ lately' = 0 /\ before' = None
    /\ pc' = "idle" /\ todo' = {} /\ input' = Nothing /\ old' = None /\ done' = NoMutations
    /\ staged' = {} /\ committed' = <<>> /\ failed' = TRUE
    /\ UNCHANGED <<store, temps, backups, command, good>>

---------------------------------------------------------------------------

AddStep == copyInto \/ createAssetRow \/ rollbackAddRecord \/ rollbackAddFile

EditStep == \/ UpdateRecord \/ stageEditInputFiles \/ upsertEditRows \/ backupExistingFileForEdit
            \/ commitStagedFiles \/ deleteRemovedEditRows \/ deleteEditFiles \/ finalizeCommittedFiles
            \/ restoreCommittedFile \/ cleanupStagedFiles \/ rollbackRepository \/ rollbackRecord

Next == \/ \E contents \in SUBSET Names : runAdd(contents) \/ runEdit(contents)
        \/ AddStep \/ EditStep \/ Crash

Spec == Init /\ [][Next]_vars

---------------------------------------------------------------------------
(* Properties *)

\* Every variable has its type: contents are numbers of commands, a data file's
\* row has a hash, a figure's none.
TypeOK ==
    /\ record \in {None} \cup [text : 0..command, upd : 0..command]
    /\ rows \in [Names -> {None} \cup [hash : (0..command) \cup {None}]]
    /\ \A n \in Names : rows[n] # None => (rows[n].hash = None <=> n \notin DataFiles)
    /\ {files, good} \subseteq [Names -> (0..command) \cup {None}]
    /\ {temps, backups} \subseteq [Names -> SUBSET (0..command)]
    /\ input \in [Names -> {command, None}]
    /\ done \in [created : SUBSET Names, updated : SUBSET Names, deleted : SUBSET Names]
    /\ todo \cup staged \subseteq Names
    /\ committed \in Seq([name : Names, backup : (0..command) \cup {None}])
    /\ failed \in BOOLEAN /\ command \in 0..MaxCommands /\ faults \in 0..MaxFaults /\ lately \in 0..faults

Ended == pc = "idle" /\ before # None

\* A command that one failed call stopped leaves the record, its updated_at, its
\* rows and its files, and nothing on the side, as they were: whichever call it
\* was, and whatever an earlier crash had left.
FailedCommandIsUndone == Ended /\ failed /\ lately <= 1 => Everything = before

\* A command that succeeds leaves exactly its input, whatever crashes and
\* failures came before: no row of a removed file, no old hash, no old content.
SuccessIsExact ==
    Ended /\ ~failed =>
        /\ record.text = command
        /\ \A n \in Names : rows[n] = (IF input[n] = None THEN None ELSE RowOf(n, input[n]))
        /\ \A n \in InputNames : files[n] = input[n]

\* Files that the last successful command stored can be found in their place or
\* in a backup at every moment, crashes and failing rollbacks included, until an
\* edit has passed its last step that can fail.
NothingIsLost == \A n \in Names : good[n] # None => good[n] \in {files[n]} \cup backups[n]

=============================================================================
