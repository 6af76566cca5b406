----------------------------- MODULE RecordSync -----------------------------
(***************************************************************************)
(* Synchronisation of records, figures and data files between the SQLite   *)
(* store of a device and the Postgres/S3 cloud: cli/internal/sync          *)
(* (service.go, conflict.go), with the operations that change records      *)
(* between syncs: pc add, edit, move, delete, restore and fetch on a       *)
(* device, and the PATCH, order, DELETE and restore routes of the web      *)
(* application on the cloud.                                               *)
(*                                                                         *)
(* A sync is a push pass (device to cloud) and a pull pass (cloud to       *)
(* device).  A pass lists the source's rows updated since the cursor, and  *)
(* for each one loads both bundles, resolves, and applies the winner by    *)
(* separate writes: the row, the figure binaries, the figure rows, the     *)
(* data files.  A failing call or a crash stops the sync between any two   *)
(* of them, and the cursor moves only when everything succeeded.           *)
(*                                                                         *)
(* pc add and pc edit are separate writes too, outside the sync lock: the  *)
(* row first, child rows and files after it.  A failing call is rolled     *)
(* back write by write; a crash leaves what was done.                      *)
(*                                                                         *)
(* One sync runs per device: SyncSession proves the lock that ensures it.  *)
(* All parties read one clock, in milliseconds (Milli = 1).                *)
(***************************************************************************)
EXTENDS Resolve

CONSTANTS
    Device,     \* devices with a local store
    Cloud,      \* the cloud store
    Record,     \* record IDs
    NoRecord,   \* no record
    Figure,     \* figure filenames
    DataFile,   \* data-file filenames
    Features,   \* which of OptionalFeatures happen
    MaxClock,   \* bound: clock readings
    MaxEdits,   \* bound: user operations
    MaxFaults   \* bound: failed calls of syncs and roll backs, and crashes

OptionalFeatures ==
    {"alt",      \* a device starts with a record that has alt texts
     "remove",   \* pc edit leaves figures or data files out
     "replace",  \* pc edit brings new content for existing filenames
     "deletion", \* records are deleted and restored
     "fetch",    \* pc fetch is used
     "web",      \* the web application is used
     "overlap",  \* other devices' syncs and the web act during a sync
     "busy"}     \* commands and the sync of a device run at the same time

ASSUME RecordSyncAssumption ==
    /\ Milli = 1
    /\ Cloud \notin Device
    /\ NoRecord \notin Record
    /\ Figure \cap DataFile = {}
    /\ Features \subseteq OptionalFeatures
    /\ MaxClock \in Nat /\ MaxEdits \in Nat /\ MaxFaults \in Nat

VARIABLES
    row,     \* records table of each store
    child,   \* record_figures and record_data_files of each store
    file,    \* files under figures/ and data/ of each device
    obj,     \* objects in S3
    cursor,  \* last_sync of each device
    clock,   \* wall clock
    edits,   \* user operations so far; numbers the contents they write
    faults,  \* failed calls so far
    job,     \* the sync running on each device
    cmd,     \* the pc add or pc edit running on each device
    intent,  \* history: what the latest user operation leaves in its store
    cut,     \* history: the records of each device that a command left half done
    raced    \* history: those that a pull replaced during a command on them

stores == <<row, child, file, obj>>
commands == <<cmd, cut, raced>>
vars == <<row, child, file, obj, cursor, clock, edits, faults, job, intent, cmd, cut, raced>>

Store == Device \cup {Cloud}
Asset == Figure \cup DataFile

\* upd = NoTime: the store has no such row.  pay numbers the version of all the
\* other columns.
Row == [upd: Nat, del: Nat, pay: Nat]
NoRow == [upd |-> NoTime, del |-> NoTime, pay |-> 0]

\* A child row is the metadata that reconciliation compares: for a figure the
\* alt text (Plain: none), for a data file the hash, which numbers its content.
\* 0: no row.
Plain == 1
Captioned == 2
NoAssets == [a \in Asset |-> 0]

OpKind == {"createDataRow", "updateDataRow", "discard", "transfer",
           "createFigure", "updateFigure", "deleteFigure",
           "createData", "updateData", "deleteData"}

\* Mutant: figure rows are written before their binaries.
PhaseRowsFirst(k) ==
    CASE k \in {"createDataRow", "updateDataRow", "discard"} -> 0
      [] k = "createFigure" -> 1
      [] k = "updateFigure" -> 2
      [] k = "deleteFigure" -> 3
      [] k = "transfer"     -> 4
      [] k = "createData"   -> 5
      [] k = "updateData"   -> 6
      [] k = "deleteData"   -> 7

\* The order of the writes that apply a bundle's children; 0 is the second half
\* of a write in progress.
Phase(k) ==
    CASE k \in {"createDataRow", "updateDataRow", "discard"} -> 0
      [] k = "transfer"     -> 1
      [] k = "createFigure" -> 2
      [] k = "updateFigure" -> 3
      [] k = "deleteFigure" -> 4
      [] k = "createData"   -> 5
      [] k = "updateData"   -> 6
      [] k = "deleteData"   -> 7

Job == [pc: {"idle", "list", "next", "row", "assets", "complete", "done"},
        push: BOOLEAN, last: Nat, started: Nat, todo: [Record -> Row],
        rec: Record \cup {NoRecord}, new: Row, exists: BOOLEAN,
        want: [Asset -> Nat], ops: SUBSET (OpKind \X Asset),
        calm: BOOLEAN]  \* history: no user operation during this sync

NoJob == [pc |-> "idle", push |-> TRUE, last |-> 0, started |-> 0,
          todo |-> [r \in Record |-> NoRow], rec |-> NoRecord, new |-> NoRow,
          exists |-> FALSE, want |-> NoAssets, ops |-> {},
          calm |-> TRUE]

\* What an operation leaves of a record: content has the versions of the figures'
\* binaries and of the data files.
Intent == [pay: Nat, del: BOOLEAN, child: [Asset -> Nat], content: [Asset -> Nat]]

CmdKind == {"copy", "writeRow", "setAside", "promote", "deleteRow", "dropFile",
            "remove", "putBack", "restoreRow"}

\* The order of a command's writes: in each loop figures come before data files.
\* promote and putBack are second halves of a file's replacement, and the row of a
\* file that pc add has copied comes before the next copy.
CmdPhase(k, a) ==
    LET data == IF a \in DataFile THEN 1 ELSE 0
    IN  CASE k \in {"promote", "putBack", "remove"} -> 0
          [] k \in {"writeRow", "restoreRow"}       -> 1 + data
          [] k \in {"copy", "setAside"}             -> 3 + data
          [] k = "deleteRow"                        -> 5 + data
          [] k = "dropFile"                         -> 7 + data

\* A command goes forward, or undoes its writes, or has the record to undo.
\* old: the record before it, NoRow for pc add; new: its input; was: history, the
\* intent to return to.
Cmd == [at: {"idle", "forward", "undo", "record"}, rec: Record \cup {NoRecord},
        ops: SUBSET (CmdKind \X Asset),
        old: [row: Row, child: [Asset -> Nat], file: [Asset -> Nat]],
        new: [child: [Asset -> Nat], file: [Asset -> Nat]],
        was: Intent]

NoCmd == [at |-> "idle", rec |-> NoRecord, ops |-> {},
          old |-> [row |-> NoRow, child |-> NoAssets, file |-> NoAssets],
          new |-> [child |-> NoAssets, file |-> NoAssets],
          was |-> [pay |-> 0, del |-> FALSE, child |-> NoAssets, content |-> NoAssets]]

Source(d) == IF job[d].push THEN d ELSE Cloud
Target(d) == IF job[d].push THEN Cloud ELSE d

TypeOK ==
    /\ row \in [Store -> [Record -> Row]]
    /\ child \in [Store -> [Record -> [Asset -> Nat]]]
    /\ file \in [Device -> [Record -> [Asset -> Nat]]]
    /\ obj \in [Record -> [Asset -> Nat]]
    /\ cursor \in [Device -> Nat]
    /\ clock \in Nat \ {0} /\ edits \in Nat /\ faults \in Nat
    /\ job \in [Device -> Job]
    /\ \A d \in Device : (job[d].rec # NoRecord) <=> job[d].pc \in {"row", "assets"}
    /\ cmd \in [Device -> Cmd]
    /\ \A d \in Device : (cmd[d].rec # NoRecord) <=> cmd[d].at # "idle"
    /\ intent \in [Record -> Intent]
    /\ cut \subseteq Device \X Record /\ raced \subseteq Device \X Record

\* Every store is empty, or one device holds a record restored from a snapshot.
Init ==
    /\ \E held \in {{}} \cup {{d} : d \in IF "alt" \in Features THEN Device ELSE {}} :
         /\ row = [s \in Store |-> [r \in Record |->
                     IF s \in held THEN [NoRow EXCEPT !.upd = 1] ELSE NoRow]]
         /\ child = [s \in Store |-> [r \in Record |-> [a \in Asset |->
                     IF s \notin held THEN 0 ELSE IF a \in Figure THEN Captioned ELSE 1]]]
         /\ file = [d \in Device |-> [r \in Record |-> [a \in Asset |->
                     IF d \in held THEN 1 ELSE 0]]]
         /\ intent = [r \in Record |->
                [pay |-> 0, del |-> FALSE,
                 child |-> [a \in Asset |-> IF held = {} THEN 0
                                ELSE IF a \in Figure THEN Captioned ELSE 1],
                 content |-> [a \in Asset |-> IF held = {} THEN 0 ELSE 1]]]
    /\ obj = [r \in Record |-> NoAssets]
    /\ cursor = [d \in Device |-> NoTime]
    /\ clock = 2
    /\ edits = 1
    /\ faults = 0
    /\ job = [d \in Device |-> NoJob]
    /\ cmd = [d \in Device |-> NoCmd]
    /\ cut = {} /\ raced = {}

-----------------------------------------------------------------------------
(* The sync of a device.                                                   *)

\* session.Begin: the lock is taken, the cursor read, the start noted.
Begin(d) ==
    /\ job[d].pc = "idle"
    /\ "overlap" \notin Features => \A e \in Device : job[e].pc = "idle"
    /\ "busy" \notin Features => cmd[d].at = "idle"
    /\ job' = [job EXCEPT ![d] = [NoJob EXCEPT !.pc = "list", !.last = cursor[d],
                                               !.started = clock,
                                               !.calm = \A e \in Device : cmd[e].at = "idle"]]
    /\ UNCHANGED <<stores, cursor, clock, edits, faults, intent, commands>>

\* The rows of a pass, as they are at this moment.
listChangedRecords(d) ==
    /\ job[d].pc = "list"
    /\ job' = [job EXCEPT ![d].pc = "next",
                 ![d].todo = [r \in Record |->
                     LET x == row[Source(d)][r]
                     IN  IF x.upd # NoTime /\ UpdatedSince(x, job[d].last)
                            THEN x ELSE NoRow]]
    /\ UNCHANGED <<stores, cursor, clock, edits, faults, intent, commands>>

\* Which side wins, for the local and the cloud version of a row.
ResolveBundle(d, source, target) ==
    LET winner == IF job[d].push THEN ResolveRecordWinner(source, target)
                                 ELSE ResolveRecordWinner(target, source)
        winningSide == IF job[d].push THEN "local" ELSE "remote"
    IN  CASE winner = winningSide -> "source"
          [] winner = "equal"     -> "none"
          [] OTHER                -> "target"

\* Mutant: a tie is always left alone.
RepairNever(source, target, want, have) == FALSE

\* At a tie the source may only add children to the target.
sourceBundleCanRepairTargetChildren(source, target, want, have) ==
    /\ source.pay = target.pay
    /\ \A a \in Asset : have[a] # 0 => want[a] = have[a]
    /\ \E a \in Asset : want[a] # 0 /\ have[a] = 0

\* Mutant: figure binaries travel only when their row does.
PlanChangedOnly(have, want) ==
    LET creates(S) == {a \in S : want[a] # 0 /\ have[a] = 0}
        updates(S) == {a \in S : want[a] # 0 /\ have[a] # 0 /\ have[a] # want[a]}
        deletes(S) == {a \in S : want[a] = 0 /\ have[a] # 0}
    IN  ({"transfer", "createFigure"} \X creates(Figure))
        \cup ({"transfer", "updateFigure"} \X updates(Figure))
        \cup ({"deleteFigure"} \X deletes(Figure))
        \cup ({"createData"} \X creates(DataFile))
        \cup ({"updateData"} \X updates(DataFile))
        \cup ({"deleteData"} \X deletes(DataFile))

\* What turns the target's children into the source's.
PlanReconciliation(have, want) ==
    LET creates(S) == {a \in S : want[a] # 0 /\ have[a] = 0}
        updates(S) == {a \in S : want[a] # 0 /\ have[a] # 0 /\ have[a] # want[a]}
        deletes(S) == {a \in S : want[a] = 0 /\ have[a] # 0}
    IN  ({"transfer"} \X {f \in Figure : want[f] # 0})
        \cup ({"createFigure"} \X creates(Figure))
        \cup ({"updateFigure"} \X updates(Figure))
        \cup ({"deleteFigure"} \X deletes(Figure))
        \cup ({"createData"} \X creates(DataFile))
        \cup ({"updateData"} \X updates(DataFile))
        \cup ({"deleteData"} \X deletes(DataFile))

\* Mutant: whatever differs is applied, whichever side won.
ApplyUnlessEqual(d, source, target, want, have) ==
    \/ target.upd = NoTime
    \/ ResolveBundle(d, source, target) # "none"
    \/ sourceBundleCanRepairTargetChildren(source, target, want, have)

\* The target has no such record, or loses, or ties and can be completed.
MustApply(d, source, target, want, have) ==
    \/ target.upd = NoTime
    \/ ResolveBundle(d, source, target) = "source"
    \/ /\ ResolveBundle(d, source, target) = "none"
       /\ sourceBundleCanRepairTargetChildren(source, target, want, have)

\* One iteration of syncChangedRecords up to apply: the source's children and
\* the target's bundle are read now, the source's row was read by the listing.
loadBundle(d, r) ==
    LET source == job[d].todo[r]
        target == row[Target(d)][r]
        want   == child[Source(d)][r]
        have   == child[Target(d)][r]
    IN  /\ job[d].pc = "next"
        /\ source # NoRow
        /\ job' = [job EXCEPT ![d] =
              IF MustApply(d, source, target, want, have)
                 THEN [@ EXCEPT !.pc = "row", !.todo[r] = NoRow, !.rec = r,
                                !.new = source, !.exists = target.upd # NoTime,
                                !.want = want, !.ops = PlanReconciliation(have, want)]
                 ELSE [@ EXCEPT !.todo[r] = NoRow]]
        /\ raced' = IF job'[d].rec = r /\ ~job[d].push /\ cmd[d].rec = r
                       THEN raced \cup {<<d, r>>} ELSE raced
        /\ UNCHANGED <<stores, cursor, clock, edits, faults, intent, cmd, cut>>

\* The end of a pass: from push to pull, and from pull to the cursor.
EndPass(d) ==
    /\ job[d].pc = "next"
    /\ job[d].todo = NoJob.todo
    /\ job' = [job EXCEPT ![d].pc = IF job[d].push THEN "list" ELSE "complete",
                          ![d].push = FALSE]
    /\ UNCHANGED <<stores, cursor, clock, edits, faults, intent, commands>>

\* The job after one of its writes: op is replaced by more, and the record is
\* finished when nothing is left.
After(d, op, more) ==
    LET ops == (job[d].ops \ {op}) \cup more
    IN  job' = [job EXCEPT ![d] =
            IF ops = {}
               THEN [@ EXCEPT !.pc = "next", !.rec = NoRecord, !.new = NoRow,
                              !.exists = FALSE, !.want = NoAssets, !.ops = {}]
               ELSE [@ EXCEPT !.pc = "assets", !.ops = ops]]

\* Mutant: the write does not carry updated_at, and the trigger stamps it.
applyRecordStamped(d) ==
    /\ job[d].pc = "row"
    /\ job[d].exists = (row[Target(d)][job[d].rec].upd # NoTime)
    /\ row' = [row EXCEPT ![Target(d)][job[d].rec] = [job[d].new EXCEPT !.upd = clock]]
    /\ After(d, <<>>, {})
    /\ UNCHANGED <<child, file, obj, cursor, clock, edits, faults, intent, commands>>

\* UpdateRecord or CreateRecord.  The trigger auto_update_updated_at replaces an
\* updated_at that the UPDATE did not change by the present time.
applyRecord(d) ==
    LET t == Target(d)
        r == job[d].rec
        new == job[d].new
    IN  /\ job[d].pc = "row"
        /\ job[d].exists = (row[t][r].upd # NoTime)
        /\ row' = [row EXCEPT ![t][r] =
                     IF new.upd = @.upd THEN [new EXCEPT !.upd = clock] ELSE new]
        /\ After(d, <<>>, {})
        /\ UNCHANGED <<child, file, obj, cursor, clock, edits, faults, intent, commands>>

\* op is the next write of the bundle being applied.
Turn(d, op) ==
    /\ job[d].pc = "assets"
    /\ op \in job[d].ops
    /\ \A o \in job[d].ops : Phase(op[1]) <= Phase(o[1])

\* uploadDesiredFigureFiles: every desired binary is copied, whether or not its
\* row changes.
uploadFigure(d, f) ==
    LET r == job[d].rec
    IN  /\ job[d].push
        /\ Turn(d, <<"transfer", f>>)
        /\ file[d][r][f] # 0
        /\ obj' = [obj EXCEPT ![r][f] = file[d][r][f]]
        /\ After(d, <<"transfer", f>>, {})
        /\ UNCHANGED <<row, child, file, cursor, clock, edits, faults, intent, commands>>

\* downloadDesiredFigureFiles; the file is replaced by a rename.
downloadFigure(d, f) ==
    LET r == job[d].rec
    IN  /\ ~job[d].push
        /\ Turn(d, <<"transfer", f>>)
        /\ obj[r][f] # 0
        /\ file' = [file EXCEPT ![d][r][f] = obj[r][f]]
        /\ After(d, <<"transfer", f>>, {})
        /\ UNCHANGED <<row, child, obj, cursor, clock, edits, faults, intent, commands>>

\* Mutant: only a changed data file is uploaded, not a new one.
uploadUpdatedDataFile(d, k, a) ==
    LET r == job[d].rec
    IN  /\ job[d].push
        /\ Turn(d, <<k, a>>)
        /\ k \in {"createData", "updateData"}
        /\ obj' = [obj EXCEPT ![r][a] = IF k = "updateData" THEN file[d][r][a] ELSE @]
        /\ After(d, <<k, a>>,
                 {<<IF k = "createData" THEN "createDataRow" ELSE "updateDataRow", a>>})
        /\ UNCHANGED <<row, child, file, cursor, clock, edits, faults, intent, commands>>

\* uploadDataFileIfPresent, before the row is written.
uploadDataFile(d, k, a) ==
    LET r == job[d].rec
    IN  /\ job[d].push
        /\ Turn(d, <<k, a>>)
        /\ k \in {"createData", "updateData"}
        /\ obj' = [obj EXCEPT ![r][a] = IF file[d][r][a] # 0 THEN file[d][r][a] ELSE @]
        /\ After(d, <<k, a>>,
                 {<<IF k = "createData" THEN "createDataRow" ELSE "updateDataRow", a>>})
        /\ UNCHANGED <<row, child, file, cursor, clock, edits, faults, intent, commands>>

Creating(d) == {"createFigure", "createDataRow"}
                 \cup IF job[d].push THEN {} ELSE {"createData"}
Updating(d) == {"updateFigure", "updateDataRow"}
                 \cup IF job[d].push THEN {} ELSE {"updateData"}
Deleting == {"deleteFigure", "deleteData"}

\* A pulled data file's local copy is discarded next: it is fetched on demand.
ThenDiscard(k, a) == IF k \in {"createData", "updateData"} THEN {<<"discard", a>>} ELSE {}

\* CreateRecordFigure, CreateRecordDataFile; foreign keys are on.
createChildRow(d, k, a) ==
    LET t == Target(d)
        r == job[d].rec
    IN  /\ Turn(d, <<k, a>>)
        /\ k \in Creating(d)
        /\ row[t][r] # NoRow /\ child[t][r][a] = 0
        /\ child' = [child EXCEPT ![t][r][a] = job[d].want[a]]
        /\ After(d, <<k, a>>, ThenDiscard(k, a))
        /\ UNCHANGED <<row, file, obj, cursor, clock, edits, faults, intent, commands>>

\* UpdateRecordFigure, UpdateRecordDataFile.
updateChildRow(d, k, a) ==
    LET t == Target(d)
        r == job[d].rec
    IN  /\ Turn(d, <<k, a>>)
        /\ k \in Updating(d)
        /\ child[t][r][a] # 0
        /\ child' = [child EXCEPT ![t][r][a] = job[d].want[a]]
        /\ After(d, <<k, a>>, ThenDiscard(k, a))
        /\ UNCHANGED <<row, file, obj, cursor, clock, edits, faults, intent, commands>>

\* DeleteRecordFigure, DeleteRecordDataFile; the file or object goes next.
deleteChildRow(d, k, a) ==
    LET t == Target(d)
        r == job[d].rec
    IN  /\ Turn(d, <<k, a>>)
        /\ k \in Deleting
        /\ child[t][r][a] # 0
        /\ child' = [child EXCEPT ![t][r][a] = 0]
        /\ After(d, <<k, a>>, {<<"discard", a>>})
        /\ UNCHANGED <<row, file, obj, cursor, clock, edits, faults, intent, commands>>

\* cloudObjects.Delete.
deleteObject(d, a) ==
    /\ job[d].push
    /\ Turn(d, <<"discard", a>>)
    /\ obj' = [obj EXCEPT ![job[d].rec][a] = 0]
    /\ After(d, <<"discard", a>>, {})
    /\ UNCHANGED <<row, child, file, cursor, clock, edits, faults, intent, commands>>

\* removeLocalFigureFileIfPresent, removeLocalDataFileIfPresent.
removeLocalFile(d, a) ==
    /\ ~job[d].push
    /\ Turn(d, <<"discard", a>>)
    /\ file' = [file EXCEPT ![d][job[d].rec][a] = 0]
    /\ After(d, <<"discard", a>>, {})
    /\ UNCHANGED <<row, child, obj, cursor, clock, edits, faults, intent, commands>>

\* The next call of the job finds the target other than the bundle it was
\* planned from, or a binary missing, returns an error and ends the sync.
Refused(d) ==
    LET t == Target(d)
        r == job[d].rec
    IN  /\ \/ /\ job[d].pc = "row"
              /\ job[d].exists # (row[t][r].upd # NoTime)
           \/ \E op \in job[d].ops :
                /\ Turn(d, op)
                /\ \/ op[1] \in Creating(d) /\ (row[t][r] = NoRow \/ child[t][r][op[2]] # 0)
                   \/ op[1] \in Updating(d) \cup Deleting /\ child[t][r][op[2]] = 0
                   \/ /\ op[1] = "transfer"
                      /\ IF job[d].push THEN file[d][r][op[2]] = 0 ELSE obj[r][op[2]] = 0
        /\ job' = [job EXCEPT ![d] = NoJob]
        /\ UNCHANGED <<stores, cursor, clock, edits, faults, intent, commands>>

\* Mutant: a failed sync moves the cursor too.
FailMovesCursor(d) ==
    /\ job[d].pc \notin {"idle", "done"}
    /\ faults < MaxFaults
    /\ faults' = faults + 1
    /\ cursor' = [cursor EXCEPT ![d] = job[d].started]
    /\ job' = [job EXCEPT ![d] = NoJob]
    /\ UNCHANGED <<stores, clock, edits, intent, commands>>

\* Any call fails, or the process dies; the lock is released or recovered and
\* the cursor stays.
Fail(d) ==
    /\ job[d].pc \notin {"idle", "done"}
    /\ faults < MaxFaults
    /\ faults' = faults + 1
    /\ job' = [job EXCEPT ![d] = NoJob]
    /\ UNCHANGED <<stores, cursor, clock, edits, intent, commands>>

\* Mutant: the cursor moves to the end of the sync.
CompleteAtEnd(d) ==
    /\ job[d].pc = "complete"
    /\ cursor' = [cursor EXCEPT ![d] = clock]
    /\ job' = [job EXCEPT ![d].pc = "done"]
    /\ UNCHANGED <<stores, clock, edits, faults, intent, commands>>

\* session.Complete: the cursor moves to the start of this sync.
Complete(d) ==
    /\ job[d].pc = "complete"
    /\ cursor' = [cursor EXCEPT ![d] = job[d].started]
    /\ job' = [job EXCEPT ![d].pc = "done"]
    /\ UNCHANGED <<stores, clock, edits, faults, intent, commands>>

\* The deferred lock.Release.
Release(d) ==
    /\ job[d].pc = "done"
    /\ job' = [job EXCEPT ![d] = NoJob]
    /\ UNCHANGED <<stores, cursor, clock, edits, faults, intent, commands>>

-----------------------------------------------------------------------------
(* Users.  No record is changed twice within a millisecond: two such changes *)
(* would tie.                                                              *)

Fresh(r) == \A s \in Store : row[s][r].upd < clock

\* What child rows and figure binaries amount to.
Contents(rows, bins) ==
    [a \in Asset |-> IF rows[a] = 0 THEN 0 ELSE IF a \in DataFile THEN rows[a] ELSE bins[a]]

\* Bookkeeping of every user operation on record r, which is to leave i.
Operated(r, i) ==
    /\ edits < MaxEdits
    /\ edits' = edits + 1
    /\ Fresh(r)
    /\ intent' = [intent EXCEPT ![r] = i]
    /\ job' = [d \in Device |-> [job[d] EXCEPT !.calm = @ /\ job[d].pc = "idle"]]
    /\ UNCHANGED <<child, file, obj, cursor, clock, faults, cut>>

\* A command on r that fails will return to i.
ReturningTo(r, i) == [d \in Device |-> IF cmd[d].rec = r THEN [cmd[d] EXCEPT !.was = i] ELSE cmd[d]]

\* An operation that writes nothing but the row.
WroteRow(s, r) ==
    LET i == [pay |-> row'[s][r].pay, del |-> row'[s][r].del # NoTime, child |-> child[s][r],
              content |-> Contents(child[s][r], IF s = Cloud THEN obj[r] ELSE file[s][r])]
    IN  /\ Operated(r, i)
        /\ cmd' = ReturningTo(r, i)
        /\ UNCHANGED raced

\* One command at a time runs on a device.
AtDevice(d) ==
    /\ cmd[d].at = "idle"
    /\ job[d].pc = "idle" \/ "busy" \in Features

\* A command without writes left is over, or comes to undo the record.
Onward(c, ops) ==
    IF ops # {} THEN [c EXCEPT !.ops = ops]
    ELSE IF c.at = "undo" /\ c.old.row # NoRow THEN [c EXCEPT !.at = "record", !.ops = {}]
    ELSE NoCmd

\* The row of a command is written and its other writes are to come.
Start(d, r, new, ops) ==
    LET i == [pay |-> row'[d][r].pay, del |-> row'[d][r].del # NoTime, child |-> new.child,
              content |-> Contents(new.child, new.file)]
        c == [at |-> "forward", rec |-> r, ops |-> ops,
              old |-> [row |-> row[d][r], child |-> child[d][r], file |-> file[d][r]],
              new |-> new, was |-> intent[r]]
    IN  /\ Operated(r, i)
        /\ cmd' = [ReturningTo(r, i) EXCEPT ![d] = Onward(c, ops)]
        /\ raced' = IF job[d].rec = r /\ ~job[d].push THEN raced \cup {<<d, r>>} ELSE raced

\* pc add: a new ID and its row; the files A are copied next.
Add(d, r, A) ==
    /\ AtDevice(d)
    /\ \A s \in Store : row[s][r] = NoRow
    /\ \A e \in Device : cmd[e].rec # r
    /\ child[d][r] = NoAssets /\ file[d][r] = NoAssets
    /\ row' = [row EXCEPT ![d][r] = [upd |-> clock, del |-> NoTime, pay |-> edits + 1]]
    /\ Start(d, r, [child |-> [a \in Asset |-> IF a \notin A THEN 0 ELSE IF a \in Figure THEN Plain ELSE edits + 1],
                    file  |-> [a \in Asset |-> IF a \in A THEN edits + 1 ELSE 0]],
             {"copy"} \X A)

\* The writes of pc edit after the row.
EditPlan(old, A) ==
    ({"writeRow", "setAside"} \X A) \cup ({"deleteRow", "dropFile"} \X (old \ A))

\* pc edit: the row's columns; it is to replace the whole set of files by A, of which
\* those in C have new content; alt texts are not carried over.
Edit(d, r, A, C) ==
    LET old == {a \in Asset : child[d][r][a] # 0}
        content == [a \in Asset |-> IF a \in C THEN edits + 1 ELSE file[d][r][a]]
    IN  /\ AtDevice(d)
        /\ row[d][r] # NoRow
        /\ "remove" \notin Features => old \subseteq A
        /\ "replace" \notin Features => C = A \ old
        /\ A \ C \subseteq {a \in old : file[d][r][a] # 0}
        /\ row' = [row EXCEPT ![d][r].upd = clock, ![d][r].pay = edits + 1]
        /\ Start(d, r, [child |-> [a \in Asset |-> IF a \notin A THEN 0
                                                   ELSE IF a \in Figure THEN Plain ELSE content[a]],
                        file  |-> [a \in Asset |-> IF a \in A THEN content[a]
                                                   ELSE IF a \in old THEN 0 ELSE file[d][r][a]]],
                 EditPlan(old, A))

\* k, for the file a, is the next write of the command on d.
CommandTurn(d, k, a) ==
    /\ cmd[d].at \in {"forward", "undo"}
    /\ <<k, a>> \in cmd[d].ops
    /\ \A o \in cmd[d].ops : CmdPhase(k, a) <= CmdPhase(o[1], o[2])

Advance(d, k, a, more) ==
    cmd' = [cmd EXCEPT ![d] = Onward(@, (cmd[d].ops \ {<<k, a>>}) \cup more)]

\* The file a of the record becomes version v; 0: it is gone.
PutFile(d, k, a, v, more) ==
    /\ CommandTurn(d, k, a)
    /\ file' = [file EXCEPT ![d][cmd[d].rec][a] = v]
    /\ Advance(d, k, a, more)
    /\ UNCHANGED <<row, child, obj, cursor, clock, edits, faults, job, intent, cut, raced>>

\* The row of a becomes v; 0: it is gone.
PutChildRow(d, k, a, v) ==
    /\ CommandTurn(d, k, a)
    /\ child' = [child EXCEPT ![d][cmd[d].rec][a] = v]
    /\ Advance(d, k, a, {})
    /\ UNCHANGED <<row, file, obj, cursor, clock, edits, faults, job, intent, cut, raced>>

\* pc add: CopyFigure, CopyDataFile; the row comes next.
copyFile(d, a) == PutFile(d, "copy", a, cmd[d].new.file[a], {<<"writeRow", a>>})

\* CreateRecordFigure and CreateRecordDataFile of pc add; upsertEditFigureRecords and
\* upsertEditDataFileRecords.  A row that was there is updated, another created.
writeChildRow(d, a) ==
    /\ CommandTurn(d, "writeRow", a)
    /\ (child[d][cmd[d].rec][a] = 0) <=> (cmd[d].old.child[a] = 0)
    /\ PutChildRow(d, "writeRow", a, cmd[d].new.child[a])

\* commitStagedFiles: the file that is there is renamed to a backup ...
backupExistingFile(d, a) == PutFile(d, "setAside", a, 0, {<<"promote", a>>})

\* ... and the staged one to its name.
commitStagedFile(d, a) == PutFile(d, "promote", a, cmd[d].new.file[a], {})

\* deleteRemovedEditFigures, deleteRemovedEditDataFiles.
deleteRemovedRow(d, a) ==
    /\ CommandTurn(d, "deleteRow", a)
    /\ child[d][cmd[d].rec][a] # 0
    /\ PutChildRow(d, "deleteRow", a, 0)

\* deleteEditFiles, after the last row.
deleteEditFile(d, a) == PutFile(d, "dropFile", a, 0, {})

Adding(d) == cmd[d].old.row = NoRow

\* What there is to undo besides the record: the child rows and files written so far.  The
\* rows of pc add go with their record.
UndoPlan(d) ==
    LET c == cmd[d]
        pending(K) == {a \in Asset : \E k \in K : <<k, a>> \in c.ops}
        input == {a \in Asset : c.new.child[a] # 0}
        given == {a \in Asset : c.old.child[a] # 0}
    IN  IF Adding(d) THEN {"remove"} \X (input \ pending({"copy"}))
        ELSE ({"restoreRow"} \X ((input \cup given) \ pending({"writeRow", "deleteRow"})))
               \cup ({"remove"} \X (input \ pending({"setAside", "promote"})))
               \cup ({"putBack"} \X pending({"promote"}))

\* A call fails, and what was done is undone: pc add deletes its record first, pc edit
\* restores it last.  Only deleteEditFiles ignores errors.
commandFails(d) ==
    /\ cmd[d].at = "forward"
    /\ \E op \in cmd[d].ops : op[1] # "dropFile"
    /\ cmd' = [cmd EXCEPT ![d] = IF Adding(d) THEN [@ EXCEPT !.at = "record", !.ops = UndoPlan(d)]
                                 ELSE Onward([@ EXCEPT !.at = "undo"], UndoPlan(d))]
    /\ UNCHANGED <<stores, cursor, clock, edits, faults, job, intent, cut, raced>>

\* finalizeCommittedFiles(false), and the deletion of the files that pc add copied.
removeFile(d, a) == PutFile(d, "remove", a, 0, IF Adding(d) THEN {} ELSE {<<"putBack", a>>})

\* The backup, if there is one, is renamed back.
restoreBackup(d, a) == PutFile(d, "putBack", a, cmd[d].old.file[a], {})

\* rollbackRepository, the child rows: a created row is deleted, an updated one restored,
\* a deleted one created again; errors are ignored.
rollbackChildRow(d, a) ==
    LET have == child[d][cmd[d].rec][a]
        old  == cmd[d].old.child[a]
    IN  PutChildRow(d, "restoreRow", a,
                    IF old = 0 THEN 0
                    ELSE IF (cmd[d].new.child[a] = 0) <=> (have = 0) THEN old ELSE have)

\* Bookkeeping of an operation on r that is taken back.
TakenBack(d, r) ==
    /\ intent' = [intent EXCEPT ![r] = cmd[d].was]
    /\ job' = [e \in Device |-> [job[e] EXCEPT !.calm = @ /\ job[e].pc = "idle"]]
    /\ UNCHANGED <<file, obj, cursor, clock, edits, faults, cut, raced>>

\* The end of rollbackRepository: the row as it was, updated_at included, which the trigger
\* replaces only if it is the present one.
rollbackRecord(d) ==
    LET r == cmd[d].rec
        old == cmd[d].old.row
    IN  /\ cmd[d].at = "record"
        /\ ~Adding(d)
        /\ row' = [row EXCEPT ![d][r] = IF old.upd = @.upd THEN [old EXCEPT !.upd = clock] ELSE old]
        /\ cmd' = [cmd EXCEPT ![d] = NoCmd]
        /\ UNCHANGED child
        /\ TakenBack(d, r)

\* The roll back of pc add: the record, with its child rows; the copied files go next.
deleteAddedRecord(d) ==
    LET r == cmd[d].rec
    IN  /\ cmd[d].at = "record"
        /\ Adding(d)
        /\ row' = [row EXCEPT ![d][r] = NoRow]
        /\ child' = [child EXCEPT ![d][r] = NoAssets]
        /\ cmd' = [cmd EXCEPT ![d] = Onward([@ EXCEPT !.at = "undo"], cmd[d].ops)]
        /\ TakenBack(d, r)

\* A call whose error is ignored fails: of a roll back, or of deleteEditFiles.
ignoredFailure(d) ==
    /\ faults < MaxFaults
    /\ faults' = faults + 1
    /\ \/ \E k \in {"remove", "putBack", "restoreRow", "dropFile"}, a \in Asset :
             CommandTurn(d, k, a) /\ Advance(d, k, a, {})
       \/ /\ cmd[d].at = "record"
          /\ cmd' = [cmd EXCEPT ![d] = IF Adding(d) THEN Onward([@ EXCEPT !.at = "undo"], cmd[d].ops)
                                       ELSE NoCmd]
    /\ cut' = cut \cup {<<d, cmd[d].rec>>}
    /\ UNCHANGED <<stores, cursor, clock, edits, job, intent, raced>>

\* The process dies.
commandDies(d) ==
    /\ cmd[d].at # "idle"
    /\ faults < MaxFaults
    /\ faults' = faults + 1
    /\ cut' = cut \cup {<<d, cmd[d].rec>>}
    /\ cmd' = [cmd EXCEPT ![d] = NoCmd]
    /\ UNCHANGED <<stores, cursor, clock, edits, job, intent, raced>>

\* pc move: new date or position, deleted or not.
Move(d, r) ==
    /\ AtDevice(d)
    /\ row[d][r] # NoRow
    /\ row' = [row EXCEPT ![d][r].upd = clock, ![d][r].pay = edits + 1]
    /\ WroteRow(d, r)

\* pc delete: an earlier deleted_at stays, updated_at moves.
Delete(d, r) ==
    /\ "deletion" \in Features
    /\ AtDevice(d)
    /\ row[d][r] # NoRow
    /\ row' = [row EXCEPT ![d][r].upd = clock,
                          ![d][r].del = IF @ = NoTime THEN clock ELSE @]
    /\ WroteRow(d, r)

\* pc restore: an active record is touched too.
Restore(d, r) ==
    /\ "deletion" \in Features
    /\ AtDevice(d)
    /\ row[d][r] # NoRow
    /\ row' = [row EXCEPT ![d][r].upd = clock, ![d][r].del = NoTime]
    /\ WroteRow(d, r)

\* verifyDataFile, against the size and hash in the cloud's row.
verifyDataFile(r, a) == obj[r][a] = child[Cloud][r][a]

\* A data file of the cloud is written over the local one, then checked against
\* the cloud's row and removed again if it does not match.
download(d, r, a) ==
    /\ "fetch" \in Features
    /\ child[Cloud][r][a] # 0
    /\ obj[r][a] # 0
    /\ file' = [file EXCEPT ![d][r][a] = IF verifyDataFile(r, a) THEN obj[r][a] ELSE 0]
    /\ UNCHANGED <<row, child, obj, cursor, clock, edits, faults, job, intent, commands>>

\* pc fetch of a record, a project or a period: whatever is there is replaced.
Fetch(d, r, a) == download(d, r, a)

localDataFileMatches(d, r, a) == file[d][r][a] = child[Cloud][r][a]

\* pc fetch --all, for active records: a local file that matches is kept.
fetchAllDataFiles(d, r, a) ==
    /\ row[Cloud][r].del = NoTime
    /\ ~localDataFileMatches(d, r, a)
    /\ download(d, r, a)

OnWeb(r) ==
    /\ "web" \in Features
    /\ "overlap" \notin Features => \A d \in Device : job[d].pc = "idle"
    /\ row[Cloud][r] # NoRow

\* PATCH /api/records/[id], on active records.
WebPatch(r) ==
    /\ OnWeb(r)
    /\ row[Cloud][r].del = NoTime
    /\ row' = [row EXCEPT ![Cloud][r].upd = clock, ![Cloud][r].pay = edits + 1]
    /\ WroteRow(Cloud, r)

\* PATCH /api/records/[id]/order reads an active record, and its UPDATE moves the
\* record even if it has been deleted in between.
WebOrder(r) ==
    /\ OnWeb(r)
    /\ row' = [row EXCEPT ![Cloud][r].upd = clock, ![Cloud][r].pay = edits + 1]
    /\ WroteRow(Cloud, r)

\* DELETE /api/records/[id], on active records.
WebDelete(r) ==
    /\ "deletion" \in Features
    /\ OnWeb(r)
    /\ row[Cloud][r].del = NoTime
    /\ row' = [row EXCEPT ![Cloud][r].upd = clock, ![Cloud][r].del = clock]
    /\ WroteRow(Cloud, r)

\* POST /api/records/[id]/restore, on deleted records.
WebRestore(r) ==
    /\ "deletion" \in Features
    /\ OnWeb(r)
    /\ row[Cloud][r].del # NoTime
    /\ row' = [row EXCEPT ![Cloud][r].upd = clock, ![Cloud][r].del = NoTime]
    /\ WroteRow(Cloud, r)

Tick ==
    /\ clock < MaxClock
    /\ clock' = clock + 1
    /\ UNCHANGED <<stores, cursor, edits, faults, job, intent, commands>>

-----------------------------------------------------------------------------
Sync(d) ==
    \/ Begin(d)
    \/ listChangedRecords(d)
    \/ \E r \in Record : loadBundle(d, r)
    \/ EndPass(d)
    \/ applyRecord(d)
    \/ \E f \in Figure : uploadFigure(d, f) \/ downloadFigure(d, f)
    \/ \E k \in OpKind, a \in Asset :
          \/ uploadDataFile(d, k, a)
          \/ createChildRow(d, k, a)
          \/ updateChildRow(d, k, a)
          \/ deleteChildRow(d, k, a)
    \/ \E a \in Asset : deleteObject(d, a) \/ removeLocalFile(d, a)
    \/ Refused(d)
    \/ Fail(d)
    \/ Complete(d)
    \/ Release(d)

Command(d) ==
    \/ \E a \in Asset :
          \/ copyFile(d, a)
          \/ writeChildRow(d, a)
          \/ backupExistingFile(d, a)
          \/ commitStagedFile(d, a)
          \/ deleteRemovedRow(d, a)
          \/ deleteEditFile(d, a)
          \/ removeFile(d, a)
          \/ restoreBackup(d, a)
          \/ rollbackChildRow(d, a)
    \/ commandFails(d)
    \/ rollbackRecord(d)
    \/ deleteAddedRecord(d)
    \/ ignoredFailure(d)
    \/ commandDies(d)

User(d) ==
    \E r \in Record :
        \/ \E A \in SUBSET Asset : Add(d, r, A)
        \/ \E A \in SUBSET Asset : \E C \in SUBSET A : Edit(d, r, A, C)
        \/ Move(d, r)
        \/ Delete(d, r)
        \/ Restore(d, r)
        \/ \E a \in DataFile : Fetch(d, r, a) \/ fetchAllDataFiles(d, r, a)

Web == \E r \in Record : WebPatch(r) \/ WebOrder(r) \/ WebDelete(r) \/ WebRestore(r)

Next == (\E d \in Device : Sync(d) \/ User(d) \/ Command(d)) \/ Web \/ Tick

Spec == Init /\ [][Next]_vars

-----------------------------------------------------------------------------
(* Properties.                                                             *)

\* A version of a row is unknown to a device that has no row, or a losing one.
Unseen(s, t, r) ==
    /\ row[s][r] # NoRow
    /\ row[t][r] = NoRow \/ Beats(row[s][r], row[t][r])

\* What the commands on a device left of r is what they promised, and none is at work.
Settled(d, r) == cmd[d].rec # r /\ <<d, r>> \notin cut \cup raced

\* A figure row always has its binary, in S3 for the cloud and on disk for a
\* device, wherever a sync is interrupted or a command fails: in a sync, binaries
\* are moved before rows are written and deleted after them.  In the cloud this
\* holds whatever users do meanwhile and wherever their commands stop, for a
\* missing figure refuses its push.  On a device pc edit writes the rows first: it
\* holds when the command is done or rolled back, unless it was cut short or a
\* pull replaced the record under it.
FigureRowsHaveContent ==
    \A r \in Record, f \in Figure :
        /\ child[Cloud][r][f] # 0 => obj[r][f] # 0
        /\ \A d \in Device : Settled(d, r) /\ child[d][r][f] # 0 => file[d][r][f] # 0

\* No command on r was cut short.
Uncut(r) == \A d \in Device : <<d, r>> \notin cut

\* A data file's row in the cloud has an object to fetch, although its upload is
\* skipped when the device has no copy; unless a command was cut short between
\* row and file.
CloudDataFileHasObject ==
    \A r \in Record, a \in DataFile :
        child[Cloud][r][a] # 0 /\ Uncut(r) => obj[r][a] # 0

\* What a device has and the cloud has not is still ahead of the device's
\* cursor, so that the next push lists it; unless a roll back brought it back
\* over what a pull had put in its place.
CursorCoversLocal ==
    \A d \in Device, r \in Record :
        job[d].pc = "idle" /\ <<d, r>> \notin raced /\ Unseen(d, Cloud, r) => row[d][r].upd >= cursor[d]

\* What the cloud has and a device has not is still ahead of that device's
\* cursor, so that the next pull lists it.
CursorCoversCloud ==
    \A d \in Device, r \in Record :
        job[d].pc = "idle" /\ Unseen(Cloud, d, r) => row[Cloud][r].upd >= cursor[d]

\* So with one device, nothing is ever left behind on either side.
CursorCovers == CursorCoversLocal /\ CursorCoversCloud

\* "Most-recent-action-wins": no write replaces a row by one that loses to it,
\* unless a user acted during the sync that makes it, or a command takes its own
\* row back.
NeverOverwritesNewer ==
    [][\A s \in Store, r \in Record :
          /\ row[s][r] # NoRow
          /\ \A d \in Device : job[d].calm /\ cmd[d].at # "record"
          => ~Beats(row[s][r], row'[s][r])]_vars

\* The same without the exceptions, as CONTEXT.md has it.
MostRecentActionWins ==
    [][\A s \in Store, r \in Record :
          row[s][r] # NoRow => ~Beats(row[s][r], row'[s][r])]_vars

\* A sync that succeeds, with no user acting meanwhile, leaves device and cloud with the row of the latest user
\* operation.
RowsLossless ==
    \A d \in Device, r \in Record :
        job[d].pc = "done" /\ job[d].calm =>
            /\ row[d][r] = row[Cloud][r]
            /\ row[d][r].pay = intent[r].pay
            /\ (row[d][r].del # NoTime) = intent[r].del

\* ... and with the figure and data-file rows of that operation ...
ChildRowsLossless ==
    \A d \in Device, r \in Record, s \in Store :
        job[d].pc = "done" /\ job[d].calm /\ Uncut(r) /\ s \in {d, Cloud} => child[s][r] = intent[r].child

\* ... and with its contents: every figure on both sides, every data file in
\* the cloud, and no outdated data file on the device.
ContentLossless ==
    \A d \in Device, r \in Record :
        job[d].pc = "done" /\ job[d].calm /\ Uncut(r) =>
            /\ \A a \in Asset : obj[r][a] = intent[r].content[a]
            /\ \A f \in Figure : file[d][r][f] = intent[r].content[f]
            /\ \A a \in DataFile : file[d][r][a] \in {0, intent[r].content[a]}

\* Together: whatever failed before, a sync that succeeds delivers everything;
\* but not the child rows and files of a record whose command was cut short.
SyncIsLossless == RowsLossless /\ ChildRowsLossless /\ ContentLossless

\* As long as no call fails, a sync delivers everything, replaced and removed
\* files included.
UndisturbedSyncIsLossless == faults = 0 => SyncIsLossless

\* No sync removes from a device a figure that no user removed, unless a command
\* on its record was cut short.
NoFigureLost ==
    [][\A d \in Device, r \in Record, f \in Figure :
          UNCHANGED cmd /\ Uncut(r) /\ child[d][r][f] # 0 /\ intent[r].child[f] # 0 => child'[d][r][f] # 0]_vars
=============================================================================
