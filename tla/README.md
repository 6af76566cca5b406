# Personal Context: TLA+ verification project

`pc` is a local-first store for research records and agent chat transcripts. Each
device keeps SQLite and files under `~/personal-context`; a cloud (Postgres for
rows, S3 for binaries) connects the devices and serves a web application. This
directory holds TLA+ models of the parts of the program where order, failure and
concurrency decide whether data survives, the TLC configurations that check them
on small instances, and TLAPS proofs of the results that matter most.

## Inventory

| Component | State | Operations | Hard behaviour | What makes it correct |
|---|---|---|---|---|
| Sync session (`syncengine/session.go`) | `sync.lock`, its guard, the cursor `last_sync` | acquire, recover stale lock, begin, complete, release | several processes, two hosts on a shared directory, crashes at every step, a lock file without content | one owner; nobody removes a running owner's lock; the cursor only moves forward; a dead owner does not block forever |
| Conflict resolution (`syncengine/resolve.go`) | none | compare two versions, filter by cursor | precision, ties, delete against edit | one total order, the same from both sides; what the filter drops never wins |
| Record sync (`sync/service.go`, `sync/conflict.go`) | rows, child rows, files and objects of two stores; a cursor | push pass, pull pass: list, load, resolve, apply | writes of many steps without a transaction; retry of a half-applied bundle; changes during a sync; several devices | lossless; no row without its binary; nothing behind the cursor; the newer version is never replaced |
| Record commands (`cli/add.go`, `edit*.go`, `move.go`, `delete.go`, `restore.go`, `fetch.go`) | local rows and files | one per command | run while a sync runs; roll back of partial edits | the store after a command is what the user asked for |
| Web routes (`web/app/api/records`, `web/lib/records-handlers.ts`) | cloud rows, `_version` | patch, order, delete, restore | run while a device syncs | as above |
| restore-db (`cli/restore_db.go`, `restore_recovery.go`, `gitsnapshot/snapshot.go`) | live entries, staging and backup directories, marker | stage, mark, back up, promote, commit, clean; recover | a crash between any two renames, failing calls, failing roll back, crash during recovery | the old store or the new one, whole |
| Chat import (`cli/chat.go`, `chatimport`) | sessions and items, managed raw files, search index | scan, compare, queue, commit a batch, promote, reclaim origins | agents write meanwhile; rows are committed before files are promoted; index triggers dropped during a run | a chat is one text; no origin removed before its copy is safe; a later run repairs an earlier one |
| Chat sync (`sync/service.go`) | rows with items, raw sources of devices, objects | push pass, pull pass | object and row are separate writes in opposite orders; two IDs for one transcript | device and cloud agree; items and raw source are of one version |
| Repositories (`repository/sqlite`, `repository/postgres`) | tables, triggers, sync version | some forty calls of one interface | two dialects, two precisions, cascades, several accounts in one database | both do what the contract suite says; every change is visible to pollers and syncs |
| Local server (`serve/server.go`) | SQLite and files through HTTP | patch, reorder, delete, restore, purge, list, poll | concurrent requests, the command line beside it | no acknowledged write is lost; pages and polls miss nothing |
| Day order, fractional index, list pages | order keys, page cursors | key between neighbours, next page | equal keys, changes between pages | strict order; no row skipped |
| Trash and gc (`cli/lifecycle.go`) | rows and files of both stores | trash, gc | hard deletion in two stores, other devices | nothing alive is deleted |
| Snapshot export and import (`cli/export.go`, `import.go`, `snapshot_support.go`) | a git working tree, the store | export, import | partial replacement, older timestamps | active records survive a round trip |
| Cloud version (`web/lib/s3.ts`, `s3client`) | `_version` | bump after commit, poll | two writers, retries, out of order | a client eventually sees every change |
| Web client (`web/hooks`) | record pages, selection, poll state | fetch, fetchMore, select, refresh, remove optimistically | answers out of order | what is shown is the latest answer |
| Setup, doctor, search, notes, screenshot, auth | configuration | prompts, queries, rendering | none of protocol kind | not modelled |

Interaction: every command first runs restore recovery, then opens SQLite. Record
commands end with an automatic sync, whose failure is only a warning. A sync takes
the session lock, pushes registries, records and chats, pulls them, bumps
`_version` and moves the cursor. Web routes write Postgres directly. The only
ordering between devices, the web and the cloud is the timestamp of each row.

`PROJECT.json` lists each hazard at the line where it bites with the properties
that cover it, and what they leave out.

## Modules

### SyncSession (`syncengine/session.go`)

State: the lock file (owner, start number, or blank while its metadata is unwritten),
the guard, the cursor, the clock, and per process a program counter, the lock it
holds or has seen, and its window. Actions follow `AcquireFileLock`,
`createFileLock`, `recoverStaleLock` (read, probe, re-read, remove are four steps),
`lockOperationGuard.Release`, `Manager.Begin`, `Manager.Complete` and
`FileLock.Release`, plus the failure of each call, `Crash`, `Start` (a new process)
and `Tick`. Processes of another host are never judged dead. Flock on the guard is
external: the kernel releases it when its process dies.

### Resolve (`syncengine/resolve.go`)

`ResolveRecordWinner` and `UpdatedSince` as operators on rows `[upd, del]`, with
`Milli` clock readings per millisecond, so that truncation is visible. `Beats` is
the reference: the rule of `docs/agent-layer/CONTEXT.md` as one lexicographic order.

### RecordSync (`sync/service.go`, `sync/conflict.go`, record commands, web routes)

State per store: `row` (updated_at, deleted_at and a number for the version of all
other columns), `child` (per filename the metadata that reconciliation compares:
alt text of a figure, hash of a data file), `file` and `obj` (which content is
there). `job` is the sync of a device: pass, listed rows, the loaded bundle and the
writes still to be made. One action per write of `applyBundleToCloud` and
`applyBundleToLocal`, in the code's order (`Phase`): row; figure binaries; figure
rows created, updated, deleted; data files. Each write can be the last one
(`Fail`), or be refused because the target has changed (`Refused`). `applyRecord`
includes the trigger that replaces an unchanged `updated_at`.

`cmd` is the `pc add` or `pc edit` running on a device, which takes no lock: what was
there before, the input, and the writes still to be made, in the code's order
(`CmdPhase`). `Add` and `Edit` write the row; then come, for each file of an add, its
copy and its row; for an edit the upserted child rows, the files one by one (backup,
then rename), the rows that are left out, and last their files. `commandFails` turns to
the roll back: an add deletes its record and then the copied files, an edit removes and
puts back files, restores child rows, and at the end the row with its old `updated_at`.
The roll back ignores the errors of its own calls (`ignoredFailure`), and the process can die
anywhere (`commandDies`). With the feature `busy` all this happens while the device syncs.

Three history variables: `intent`, what the latest user operation is to leave behind;
`cut`, the records of each device on which a command died or a call of its roll back
failed; `raced`, those that a pull replaced while a command was at work on them. The
temporary files of an edit are left out here (EditRecord has them).

The other user operations write one row or one file: `Move`, `Delete`, `Restore`,
`Fetch`, `fetchAllDataFiles`, and the routes `WebPatch`, `WebOrder`, `WebDelete`,
`WebRestore`. Chats (see ChatSync), registries and `_version` are left out of the
passes: they write other tables and objects, and a failure in them is one of the
failures of `Fail`. Contents are numbers; the content of a data file determines its hash.
`Features` selects which optional behaviour a run has, so that each run can say
under which circumstances its property holds.

Simplifications: one clock for all parties; a record is not changed twice within
one millisecond (`Fresh`); the lock is taken as given (SyncSession proves it); an
`order` request may hit a record deleted after it was read.

### RestoreDB (`cli/restore_db.go`, `cli/restore_recovery.go`, `gitsnapshot/snapshot.go`)

State: for each payload entry (entry 1 is the database) what the live store, the
staging and the backup directory hold; which directories exist; the marker; per
process a program counter, loop index, its copy of the marker and the lists
`movedExisting` and `promoted`. One action per rename, removal or marker write, in
`restore-db`, in its two levels of roll back, and in `recoverInterruptedRestore`.
`os.RemoveAll` of the backup removes one entry at a time in any order. A crash is
possible everywhere, and each call that the code handles may fail. Loss of power is
not modelled: what a rename has done stays done.

### RepositoryTables, SQLiteRepository, PostgresRepository, RepositoryContract, Repositories

`RepositoryTables` has the rows and filters of `repository/types.go`. The two
backend modules are operators from a store and a call to a reply and a new store,
one for each method, each with its own triggers (`updated_at`, sync version),
unique indexes, foreign keys, cascades and roll back; SQLite keeps milliseconds,
Postgres microseconds and an owner for every row. `Repositories` makes the same
call on both, in one of four workloads (records, children, chats with items,
registries), while another account changes the Postgres store.
`RepositoryContract` is the abstract specification, read from the suite that both
backends run (`repositorytest/contract.go`): which IDs are absent, live or trashed,
and which children, items and entries exist; a refused call changes nothing.
`LocalContract` and `CloudContract` in `Repositories` are its instances, with the
contents of SQLite and of one account of Postgres as the refinement mapping
(`LocalImplementsContract`, `CloudImplementsContract`).

### ChatImport (`cli/chat.go`, `sqlite/chat.go`, `filesystem/chat_source.go`)

A transcript is `[sid, ver, size]`: session, text, length in half lines, so that an
agent can be caught in the middle of a line. `Files` are the places of a scan in order;
a path has two of them if two roots list it. An import looks at each (`handleExistingChatImport`
and its callees decide: skip, reclaim, append, replace, collide), stages a copy, commits the
batch in one transaction, promotes the copies one by one with a backup of what they replace,
and reclaims origins. When an operation for the same session is already queued, the
batch is flushed first and the import goes on where it was, with what it had read
(`FlushFirst`, `resume`, `AfterFlush`): an append keeps its comparison, a parsed file its
items. A file that is gone when its root is listed is not scanned (`NotListed`), one that
goes later is an error. Agents write, the user trashes, restores and collects chats, calls
fail and the process dies between any two of these steps. The index triggers are dropped for
the run; dropping them, the rebuild and their creation can each fail (`StartImportFails`,
`BulkModeFails`), after items have been committed or not. The parsers are reduced to the
items of a text's complete lines. `todo` has the places that are left. What `--delete-source`
removed (`reclaimed`), what gc deleted (`purged`), what bulk mode left out of the index
when it ended early (`unindexed`), and what an agent replaced or gave up under
the import (`raced`, `discarded`) are history variables. A transcript may name no
session; then its file does, and no transcript names a session as another file would
(`FilesAssumption`).

### ChatSync (`sync/service.go`)

A chat is a row `[upd, del, items]`, a raw source on a device and an object. Push
uploads the object, reads the items and upserts; pull upserts and downloads; a tie
in the pull pass downloads again. Each call is an action and can be the last of a
sync. A missing raw source is a warning, a second ID for one transcript an error.
Imports, deletions and restorations happen between the syncs of a device, and
devices sync in turn. Three history variables name what the properties exempt:
chats pushed behind another device's cursor (`late`), rows stored without their raw
source (`torn`), pushes without a file (`missing`).

### EditRecord (`cli/add.go`, `cli/edit.go`, `cli/edit_support.go`)

One record, its rows, its files, and the temporary and backup files of an edit. The
steps of `runAdd` and `runEdit` are actions: read, stage, update the record, upsert
and remove child rows, commit files with backups, clean up. Every call can fail,
which starts the roll back, whose own calls can fail and are ignored as in the code;
a crash leaves everything as it is, and the next command starts from there.

### LocalServer and DayOrder (`serve/server.go`, `listpage`, `fractionalindex`, `cli/lifecycle.go`)

Requests take `writeMu`, read the record or the day, compute and write; each
repository call is a step. The command line (add, delete, restore, gc) works on the
same database without the mutex. `pc records add` is the call that chooses the key,
the live row, the figure's copy, the figure row and the data files, each a step that can fail,
and its deferred roll back: the row, whose error is dropped, and then the files; the process
can be killed at each step, and the row can be purged under it. A purge reads the IDs, deletes
what is in the trash, and removes the directories of the IDs it read. `figs` are the
records with a figure row, `dirs` those with the figure on disk. A client pages through the
records or polls for changes. `DayOrder` has the keys as numbers whose fraction is halved at
each insertion, `computeDayOrder`, and the fallback for keys that are not in order.

Each of these state machines has its `TypeOK`, the first conjunct of the inductive
invariant of its proofs.

## Runs

| Run | Instance | Result |
|---|---|---|
| `session` | three processes on one host, one pid used twice, one process on another host, one fault, clock to 2, fair | one owner, whose file nobody removes; the window and the monotone cursor hold; a stale lock is recovered when the others leave the guard alone |
| `resolve` | all pairs of versions with timestamps to 4 ticks, 2 per millisecond, all cursors | the reference order; the filter drops no winner |
| `record_device` | one device, a figure, a data file, three user operations, adds and edits write by write, one fault | an undisturbed sync delivers the latest operation; an interrupted sync or a failing command leaves no data-file row without its object and nothing behind the cursor |
| `record_retry` | two figures and a data file, one fault, additive edits, deletions, fetches | the next successful sync delivers rows, child rows and contents, and no figure is lost |
| `record_devices` | two devices in turn and the web, a figure, commands and their roll backs write by write during a sync, additions and removals, one fault | no local change is left behind the cursor, no figure row is without its binary, a sync that nobody disturbs overwrites nothing newer |
| `restore_recovery` | three entries, three faults, fair | a database in every store that is opened; an abort restores the old store; every marker is resolved; with one fault the store is the old or the new one, whole |
| `repositories` | four workloads of three calls, two accounts, two clock readings per millisecond | both backends answer alike, implement the contract, keep references, show every change to pollers and syncs, and leave the other account alone |
| `chat_import` | two transcripts, each listed once, batches of two, a few writes, faults (also of the index) and user operations in any order, fair | a chat is one text, reclaimed transcripts are kept, search is complete, repeated imports converge or stop at an error that is shown |
| `chat_sync` | two devices, two chats of one or two transcripts, two imports, two deletions or restorations, one fault | a sync that ends leaves device and cloud alike; a cloud row has its object; items and raw source are of one version |
| `edit` | two figures and a data file, two commands, three failing calls or crashes | one failure is undone completely, a success is exact whatever happened before, and stored content always has a copy |
| `local_server` | two requests and one command at once, which may fail or be killed at each step, a paging or polling client | no acknowledged write is lost, a figure row has its file, pages and polls are complete, a reorder lands next to its reference |
| `record_replaced` | one device, replaced contents, one fault | refuted, see below |

Bounds. One record suffices for RecordSync because records share only the cursor
and the order of the passes; `MaxEdits` counts from 1, so 3 is two user
operations and 4 is three. The clock starts at 2, after the rows that are there; it
runs to 4 or 5 with one device and to 3 with two, so that operations fall before, during
and after a sync, each in a millisecond of its own. `record_devices` has no data file: its
properties speak of rows and figures only, and a data file would add the states of its
writes to each of them. In RestoreDB three entries give a first, a
middle and a last one; each may or may not exist before and in the staged store, and
three faults are a failing promotion, a failing roll back and a crash. The session
needs a crashed owner, a slow recoverer and a fast one on its host, a pid that is
used again, and a process of another host. Three repository calls are a change, its
repetition or undoing, and a call that meets the result; stores are prepared so that
the first call already has something to meet, at a clock reading that is not a whole
millisecond. A second chat in ChatSync is there for
the identity conflict; two imports are one on each device, or one and its repetition. Two
commands in EditRecord are one that fails or dies and one that runs over its
remains. Two requests, one command and one reader are enough for every pair of a
read and a write in the server. `CHECK_DEADLOCK FALSE` is set where the clock, the
edits, the calls or the starts run out.

Fairness. `session`: weak fairness of a running process's own steps, as the
operating system schedules it, and weak fairness of taking the guard: a process that
finds it free all the time takes it, since its user (or the next automatic sync) tries
again. More would not be justified: `acquireLockOperationGuard` uses
`LOCK_EX|LOCK_NB`, which refuses at once with `ErrSyncLocked`, and nobody queues, so a
process can find the guard taken every time while others keep taking it.
`StaleLockRecovered` therefore speaks of a process whose competitors leave the guard
alone in the end. Starts, exits and crashes are not fair. `restore_recovery`: weak fairness of a started command's steps, and the user
runs some command again. `chat_import`: weak fairness of a started import's steps,
and the user imports again. Faults are bounded and never fair.

### Where code and documents disagree

Run `record_replaced` violates `ContentLossless`: after a sync that failed behind
the row, replaced content is never uploaded, while `DECISIONS.md:57` says "Change
will sync on next successful pc sync". Eight more configurations state what a document
or comment says and are refuted by TLC in a few steps:

| Configuration (module) | What the code does | What is said |
|---|---|---|
| `RecordSync_offline.cfg` (MCRecordSync) | an edit made offline and pushed late is behind other devices' cursors, and never pulled by them | "Full lossless guarantee for Local ↔ Cloud sync" (`DECISIONS.md:96`), "multi-device" (`CONTEXT.md:42`) |
| `RecordSync_webduring.cfg` (MCRecordSync) | a web edit between load and write is replaced by an older version | "Most-recent-action-wins" (`CONTEXT.md:174`) |
| `RestoreDB_twofaults.cfg` (MCRestoreDB) | a crash while recovery removes the backup makes the next recovery roll half of the store back | "either the old backup state or the fully promoted staged state" (`restore_recovery.go:62`) |
| `RestoreDB_overlap.cfg` (MCRestoreDB) | a command started during restore-db removes its staging directory | the same |
| `ChatImport_selfheal.cfg` (MCChatImport) | a transcript that grows again after a failed promotion makes every later import stop with "item state mismatch" | "the next `pc chat import` self-heals each affected session" (`DECISIONS.md:33`) |
| `ChatImport_roots.cfg` (MCChatImport) | when two roots list a transcript that has grown, the second append flushes the first, which promotes the copy, and goes on with the comparison made before (`chat.go:707-712`): the new lines are stored twice | the flush is for "duplicate --root entries or overlapping scan roots", "so the next ordinal calculation sees the prior items committed" (`chat.go:702-706`) |
| `LocalServer_purge.cfg` (MCLocalServer) | a purge selects IDs and deletes rows in two statements: a record restored in between stays, and its files are removed with the others' | "returns the IDs of the purged records for filesystem/S3 cleanup by the caller" (`repository.go:101`) |
| `LocalServer_order.cfg` (MCLocalServer) | a record added while the last one of the day is in the trash gets its key; after the restoration a reorder between the two needs the fallback | "cannot happen with well-ordered data from the database" (`server.go:1179`) |

More are visible with other values of the constants and listed as hazards:
with `remove` and one fault `SyncIsLossless` fails (a removed figure comes back);
with two faults `NoFigureLost` fails (a repair push bumps the cloud's `updated_at`
through the trigger, fails, and the incomplete cloud bundle wins); with `replace` and
`fetch` `ContentLossless` fails (`pc fetch` replaces an edited file that was not yet
pushed). That is why `record_retry` has additive edits and one fault. The backends
differ where `Repositories` does not look: an item for a missing chat (a foreign key
error in SQLite, not found in Postgres), an alt text that goes from NULL to empty
(moves the version in Postgres only), an explicit `updated_at` with a fraction of a
millisecond, and an ID freed by one account and used by another.

Documents are under `docs/agent-layer/`.

## Proofs

Each theorem holds for every value of the constants that the assumptions allow. The
proof of a safety property is the same everywhere: an inductive invariant `IInv` that
contains or implies it, `Init => IInv`, one step per action for
`IInv /\ [Next]_vars => IInv'`, and a last temporal step.

`SyncSessionProofs` proves, for every set of processes, hosts, and every bound,
`TypeOK`, `MutualExclusion`, `HolderOwnsLockFile`, `WindowIsCurrent` and
`CursorMonotone`. Mutual exclusion is not inductive: nothing in it says that the
process about to remove a stale lock has seen the file that is still there. `IInv`
adds that the guard is held by the one process inside
`AcquireFileLock` (`GuardInv`); that the file about to be written is the empty one
just created (`WritingInv`); that what a recoverer has read is metadata, that its
owner has ended once the probe says so, and that the file is still the one read when
it is about to be removed (`SeenInv`); that metadata is never from the future of its
process, so that an ended owner stays ended (`IncInv`); and that cursor, window and
clock are in order (`CursorInv`).

`ChatSyncProofs` starts with the order behind conflict resolution: for all timestamps
and all precisions the resolution is the reference order, exchanging the sides mirrors
it, it is transitive, and a version dropped by the cursor filter loses against every
kept one; from these follow the two properties of `resolve`. On it rest `ChatsAgree`, `CloudRowHasObject` and `RawFollowsItems`, for
any number of devices, chats, imports and faults. A sync is correct because rows are only
copied, so that `updated_at` names a version (`OneVersion`); because the listing of a
pass does not go stale while the pass works on it (`ListingCurrent`, `Carried`); and
because what a cursor hides has been settled before: what the pass is through with
agrees (`Settled`), and what does not agree is ahead of the cursor (`CursorReaches`).
`ObjectFirst`, `DeviceRaw` and `CloudRaw` say where the raw source of each version is.

`RecordSyncProofs` has two layers. `RowsInv` is about rows and cursors: dates are in
order, what a pass has listed is no newer than its source (`Carried`), a command's row is newer
than the one it may return to (`Commands`), and what one side has (`IsVersion`: its row, or
the one that a roll back will bring back) and the other has not is ahead of the cursor and,
during a sync, still pending or newer than the sync (`PushCovers`, `PullCovers`). It gives
`CursorCoversLocal` and `NeverOverwritesNewer`, and with one device `CursorCovers`.
On top of it, `FiguresInv` gives `FigureRowsHaveContent`. For a sync, `OpsFit` and
`FiguresFirst` say that a figure's binary is there before its row and goes after it. For
a command, `CommandsFit` says that the row and the file of each asset are a function of what was
there, of the input and of the writes that are left (`RowSoFar`, `FileSoFar`): whatever the
step, and in the roll back too, the writes that are left lead to a row with its file. It holds until
a command is cut short or a pull replaces its record, which is what the property
exempts; and as `KeptFits` and `WroteElsewhere` say, nobody else writes that record's
children meanwhile but a pull.
Hypotheses, each one a choice of constants: `NoOverlap` (syncs of two devices take
turns; every passing run is one of these), and for `CursorCovers` also `OneDevice` and
`NotBusy` (the user waits for the sync); TLC refutes it with two devices.

`RestoreDBProofs` proves `DatabaseSurvives`, `AbortRestoresOld` and
`OneFaultIsRepaired` for any number of payload entries, crashes and failing calls,
where commands do not overlap (`~Overlap`, as in `restore_recovery`). Every command
starts from what the last one left, so the files and the marker must tell how to go
on: `Disk` says for each phase of the marker what every entry is in the live, staging
and backup directories (`Forwardable`, `Undoable`, `Committed`); `Working` what the
running command has done and has still to do at each step; `Cost` that an
interrupted restore has cost a fault and a committing marker without staging
directory two, which is where the guarantee for one fault ends.

`LocalServerProofs` proves `TypeOK`, `NoLostUpdate`, `FigureRowHasFile`,
`PollMissesNothing`, `PagesAreComplete` and `NextToReference`, every invariant that its
passing run checks, for any number of connections, records and commands, and any page limit. A
request that has read a record holds `writeMu`, and what it read is still stored but for the
columns that others may write (`ReadIsCurrent`); the identifier that the command line
makes up is nobody's (`NewIdIsFresh`). `FilesStay` is `FigureRowHasFile` at every step: an add
about to make the figure row has copied the file, an add that rolls back has no row any more
when its files go (or the record is marked), and whoever is about to remove files, a purge or
gc, has deleted the row, since what it has listed stays in the trash or is marked as at risk. Of
`DayOrder` it proves that `KeyBetween` is strictly between its arguments wherever
there is room (`KeyFits`). `compareRecordsForAPI` is a strict total order and the list
holds every record once in that order (`Sorting`, from the rank of each record, so
without induction). `PagesInv` says of a client half-way through the list that it has
each record that nobody touched once, if the cursor is at or beyond it, and never else;
every write marks what it touches (`RecordsChange`). `PlaceInv` says of a reorder about to
write that its key lies between the neighbours of the position on the day it read
(`Planned`), so on that day no other record comes between it and its reference (`Adjacent`).

`RepositoriesProofs` proves `TypeOK`, `ReferencesHold`, `OthersUntouched`,
`EveryChangeIsSeen` and `CloudImplementsContract` for all calls, in any number, in terms
that `RepositoryStores` defines. `Wf` of a store is: rows are typed, the keys
of every table are unique, and every reference resolves; `IInv` is `Wf` of both
stores, and that SQLite's rows are its user's. References alone are not inductive:
a cascade by ID deletes the children of one record only if no other account's record
has that ID, which is the unique key of the table. `Good(s, t, u)` says that a call
of `u` takes a well-formed `s` to a well-formed `t` and leaves the rows of the other
account alone. The kinds of change (add, replace or remove rows of one table, with or
without a cascade) are shown good once; each operation of each backend is
one of them, or a refusal that changes nothing.
`EveryChangeIsSeen` goes the same way. `Told(s, t, u, all)` says that the version of `u`
counts at least every statement that changed what can be read, and that of everybody in
`all` every change of the templates; `Dated(s, t, m, w)` that a row written has the
caller's time `w`, or one from `m` on, never its old one. Each statement with its
triggers has both, they compose, and so has each operation, its cascades, lists and
rollbacks included (a list that writes nothing moves nothing: this needs finite tables,
`FiniteTables`, which joins `IInv` in `SInv`). Two points are not local to one
statement. What a cascade deletes in Postgres is not counted by itself, so what `CascadeTold`
needs is that a deleted record fired its own. And `u`'s version says nothing of
the other account: that what it reads is unchanged comes from `Untouched`.
`CloudImplementsContract` is the refinement, step by step. `Accepts` and `Refuses` are
the steps of the contract, on two stores; `Puts`, `Drops` and their like say what a change of
one table does to the caller's view of it, and `Fits` of each operation that its answer is
one the contract allows, from any store that is `Ready`: well formed, counting, and with
no ID of the caller's that the contract does not know (`Known`, which the induction
adds to `SInv`). That a visible change moved the version is not proved again:
`Tells` follows from `Told`, since the view is a function of what can be read
(`ViewShows`). The other account's step is the contract's `AnotherUser` by `Untouched`, the
templates, which all accounts share, excepted.

`EditRecordProofs` proves `FailedCommandIsUndone`, `SuccessIsExact` and
`NothingIsLost` for any number of assets, commands, failing calls and crashes. While
a command runs, its rows, temporary files and files are at each step a function of
what was there before it and of how far it has come: `Stages` relates the loops to
the mutations recorded so far, `RowsOK`, `TempsOK` and `FilesOK` say what each name
then has, `Remembers` that what the command read is what was there. Undoing a step
leads back along the same functions, so after one failing call everything is as it
was. `OnceOnly` is what makes moving files exact: a content is in its place or aside,
never both, and a command's own number is on nothing older, so removing a temporary
or backup file removes nothing that a crashed command left. With a second failing
call in the same command the functions need not hold any more and only the part that
`NothingIsLost` needs is kept.

`ChatImportProofs` proves `SearchIsComplete`, `OneText` and `ReclaimedIsKept` for any
number of files, sessions, writes, faults and user operations. `IndexIsFull` is the
first, for any list of files: only a run that changed something leaves items to index,
unless bulk mode has ended early, by a crash or a failing call, and then they are in `unindexed`.
`OneText` and `ReclaimedIsKept` are theorems about imports that list each path once:
`IsInjective(Files)` is their hypothesis, and without it both are false (`ChatImport_roots.cfg` is
the shortest way to see it). Under it a flush can only come from a second file of
one session, and what the import goes on with is what it had read (`ResumeFollows`): its file can
only have been written by its agent since. `OneText` needs to know
what every pending operation will write: `WritesOneText` (its items, with those it is
added to, are one text), which is true when it is queued only because the stored items
are those of the managed copy (`RawIsBehind`, `CopiesFollow`), the copy is a prefix of
the file (`FileIsAhead`, `VersionsCount`), and stays true until it is committed only
because no second operation is for the same session (`OneEach`, `OthersAreNewer`,
`MovedAlone`, `IndexKnows`, `NamesAgree`). `ReclaimedIsKept` adds that the file of a
pending operation still has what was copied (`SourceStays`), so the copy that a duplicate
met in this run (`seen`) is covered by a copy in hand, and a reclaimed one by that or by a file that no
operation is about to remove (`SeenIsCopied`, `ReclaimedIsCovered`). A transaction
commits the whole batch: `WriteChatImportBatch` is a fold, whose result `BatchResult`
describes session by session, by induction over the batch from the well-foundedness of
the naturals. Each step of the system is classified by what it may take away (`Loses`).

Assumptions. Each module names its own in an `ASSUME`, which TLC evaluates on its
runs: finite bounds are naturals, the names for "nothing" are none of the values,
`Cloud` is no device, transcript files hold well-formed texts. `RecordSync` and `ChatSync` fix `Milli = 1`: their clock counts
milliseconds, the precision of stored rows; that no two changes fall in one is their
simplification `Fresh`.

Model-checked only:

- Liveness (`StaleLockRecovered`, `MarkerIsResolved`, `Converges`): ENABLED and
  fairness are out of the prover's reach.
- `CloudDataFileHasObject` and `UndisturbedSyncIsLossless`, and `SyncIsLossless` and
  `NoFigureLost` with failing calls, which hold only with one fault, counted along a
  whole history. `ContentLossless` fails (see above).
- Of Repositories: `BackendsAgree` and `LocalImplementsContract` compare two stores.
  A call on an ID of the other account goes to Postgres alone, whose answer stands for
  both, and a chat's ID is the one that Postgres stored: that SQLite's contract allows
  them needs an invariant that relates every row of one store to the other.

## Not modelled

- Reading and writing snapshots, the parsers of the three transcript formats,
  search, notes, IDs and prompts: text processing without shared state.
- Loss of power: a rename that the kernel accepted stays done.
- The web client's hooks and the `_version` object; the SQL isolation of
  overlapping Postgres transactions (each repository call is one step).
- Hard deletion in the cloud, and the union of registries by sync.
- Overlapping syncs of two devices in ChatSync (both pass the identity check, and
  the upsert by source identity merges one chat into the other's ID), and an import
  while its device pulls (the older raw source may be put back).
- `pc import` keeps the snapshot's `updated_at`, which may be behind the cursor; a
  figure file missing on a device stops its later syncs at that record; with
  `--delete-source` a line that the agent appends between copy and removal is lost;
  races of two Postgres transactions for an ID or for the first `sync_version` row
  (ISSUES.md r6e0k3, v3n8d1). The modules say nothing of these.

## Plan

1. Proofs: `BackendsAgree`, from an invariant that relates the rows of both stores, and
   `LocalImplementsContract` from it; `CloudDataFileHasObject` and
   `UndisturbedSyncIsLossless` from `RowsInv` and `FiguresInv`.
2. `CloudVersion` and `UseRecords`: bump after commit, polling, answers out of order.
3. `ImportSnapshot`: import by timestamp, older than the cursor.
4. Overlapping syncs in ChatSync, and deletion in the cloud by gc.
