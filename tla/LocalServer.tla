---------------------------- MODULE LocalServer -----------------------------
(***************************************************************************)
(* pc serve: the local HTTP server, whose handlers run concurrently on one *)
(* SQLite file, next to pc records add, delete, restore and pc gc in other *)
(* processes and to clients that page through the records and poll for     *)
(* changes.                                                                *)
(*                                                                         *)
(* A record is [date, order, notes, project, del, upd, ver]; ver counts    *)
(* its writes.  Each repository call is one step.                          *)
(***************************************************************************)
EXTENDS DayOrder

CONSTANTS Ids,        \* record IDs, naturals: they sort
          Dates,      \* days, naturals too
          Values,
          FirstRecords, \* what the store may hold at the start
          Requests,   \* connections
          PageLimit,
          MaxRequests, MaxCommands, MaxTicks   \* bounds: requests that write, commands, clock ticks

Rec == [date: Dates, order: Nat, notes: Values \cup {0}, project: Values \cup {0}, del: BOOLEAN,
        upd: Nat, ver: Nat]

\* Where a record stands in the order of the list.
Position == [date: Dates, order: Nat, id: Ids]

\* The server starts at instant 0, on records that are not younger.
ASSUME ServerAssumption ==
    /\ IsFiniteSet(Ids) /\ Ids \subseteq Nat /\ Dates \subseteq Nat /\ PageLimit \in Nat \ {0}
    /\ None \notin Rec \cup Position \cup Requests
    /\ FirstRecords \subseteq [Ids -> Rec \cup {None}]
    /\ \A f \in FirstRecords, id \in Ids : f[id] # None => f[id].upd = 0

VARIABLES recs,    \* records: id -> record or None
          used,    \* IDs that were ever given out: pc records add makes a new one
          figs,    \* IDs with a figure row
          dirs,    \* IDs with the figure on disk, in the directory of the record
          mu,      \* writeMu: the request that holds it, or None
          req,     \* requests in progress: connection -> [op, id, arg, at, ...] or None
          cli,     \* the command line: [op, at, ...] or None
          clock, ops, ticks,
          pages,   \* a client that lists records page by page, or None
          poll,    \* a client that polls for changes, or None: one of the two reads
          last,    \* history: what the acknowledged writes say: id -> record or None
          atRisk,  \* history: records that lose their files: restored after a purge or gc
                   \* had listed them, or kept by a roll back that could not delete the row
          placed,  \* history: the reorder just made: [id, kind, ref] or None
          fellBack \* history: a key came from generateKeyFallback

clients == <<pages, poll>>
vars == <<recs, used, figs, dirs, mu, req, cli, clock, ops, ticks, clients, last, atRisk, placed, fellBack>>

Exists(id) == recs[id] # None
Alive(id) == Exists(id) /\ ~recs[id].del

Kinds == {"first", "last", "before", "after"}

Init ==
    /\ recs \in FirstRecords
    /\ used = {id \in Ids : Exists(id)} /\ figs = used /\ dirs = used
    /\ mu = None /\ req = [q \in Requests |-> None] /\ cli = None
    /\ clock = 0 /\ ops = [requests |-> 0, commands |-> 0] /\ ticks = 0
    /\ pages = None
    /\ poll \in {None, [since |-> 0, now |-> None, seen |-> [id \in Ids |-> IF Exists(id) THEN recs[id].ver ELSE 0]]}
    /\ last = recs /\ atRisk = {} /\ placed = None /\ fellBack = FALSE

---------------------------------------------------------------------------
(* Orders *)

\* compareRecordsForAPI: date DESC, day_order ASC, id ASC.
compareRecordsForAPI(a, b) ==
    \/ a.date > b.date
    \/ a.date = b.date /\ a.order < b.order
    \/ a.date = b.date /\ a.order = b.order /\ a.id < b.id

\* Mutant: a page starts at the first record of another position.
IsAfterCursorPosition(r, c) ==
    \/ r.date < c.date
    \/ r.date = c.date /\ r.order > c.order

IsAfterCursor(r, c) ==
    IF r.date # c.date THEN r.date < c.date
    ELSE IF r.order # c.order THEN r.order > c.order
    ELSE r.id > c.id

Key(id) == [date |-> recs[id].date, order |-> recs[id].order, id |-> id]

sortRecordsForAPI(keys) ==
    CHOOSE s \in [1..Cardinality(keys) -> keys] :
        \A i, j \in DOMAIN s : i < j => compareRecordsForAPI(s[i], s[j])

Listed(S) == sortRecordsForAPI({Key(id) : id \in S})

\* The records of a day that a record is placed among, in order.
siblingsOf(date, id) == Listed({x \in Ids \ {id} : Alive(x) /\ recs[x].date = date})

---------------------------------------------------------------------------
(* Writing: a repository call that changes one row, and what it acknowledges. *)

Touched(ids) ==
    pages' = IF pages = None THEN None ELSE [pages EXCEPT !.touched = @ \cup ids]

\* The updated_at trigger fires on every update.
Update(id, row) == [row EXCEPT !.upd = clock, !.ver = recs[id].ver + 1]

SetRow(id, row, ack) ==
    /\ recs' = [recs EXCEPT ![id] = Update(id, row)]
    /\ last' = [last EXCEPT ![id] = ack]
    /\ Touched({id}) /\ UNCHANGED figs

NoWrite == UNCHANGED <<recs, figs, last, pages, placed, fellBack>>

\* A purge or gc that is under way has listed the record.
ListedToPurge(id) ==
    \/ \E q \in Requests : req[q] # None /\ req[q].op = "purge" /\ id \in req[q].ids
    \/ cli # None /\ cli.op = "gc" /\ id \in cli.ids

SoftDeleteRecord(id) ==
    /\ SetRow(id, [recs[id] EXCEPT !.del = TRUE], [last[id] EXCEPT !.del = TRUE])
    /\ placed' = None /\ UNCHANGED <<atRisk, fellBack>>

RestoreRecord(id) ==
    /\ SetRow(id, [recs[id] EXCEPT !.del = FALSE], [last[id] EXCEPT !.del = FALSE])
    /\ atRisk' = IF ListedToPurge(id) THEN atRisk \cup {id} ELSE atRisk
    /\ placed' = None /\ UNCHANGED fellBack

\* ON DELETE CASCADE: the figure rows go with the record.
DeleteRows(ids) ==
    /\ recs' = [id \in Ids |-> IF id \in ids THEN None ELSE recs[id]]
    /\ last' = [id \in Ids |-> IF id \in ids THEN None ELSE last[id]]
    /\ figs' = figs \ ids
    /\ Touched(ids) /\ placed' = None /\ UNCHANGED fellBack

---------------------------------------------------------------------------
(* Requests *)

Request(op, id, arg) == [op |-> op, id |-> id, arg |-> arg, at |-> "begin", row |-> None, ids |-> {}, day |-> <<>>]

Receive(q) ==
    /\ req[q] = None /\ ops.requests < MaxRequests /\ ops' = [ops EXCEPT !.requests = @ + 1]
    /\ \/ \E id \in Ids, field \in {"notes", "project"}, v \in Values :
             req' = [req EXCEPT ![q] = Request("patch", id, [field |-> field, value |-> v])]
       \/ \E id \in Ids, date \in Dates, kind \in Kinds, ref \in Ids :
             /\ ref # id
             /\ kind \in {"first", "last"} => ref = CHOOSE x \in Ids \ {id} : TRUE
             /\ req' = [req EXCEPT ![q] = Request("reorder", id, [date |-> date, kind |-> kind, ref |-> ref, inOrder |-> TRUE])]
       \/ \E id \in Ids, op \in {"delete", "restore"} : req' = [req EXCEPT ![q] = Request(op, id, None)]
       \/ req' = [req EXCEPT ![q] = Request("purge", None, None)]
    /\ UNCHANGED <<recs, used, figs, dirs, mu, cli, clock, ticks, clients, last, atRisk, placed, fellBack>>

In(q, op, at) == req[q] # None /\ req[q].op = op /\ req[q].at = at

At(q, at) == req' = [req EXCEPT ![q].at = at]

Respond(q) == req' = [req EXCEPT ![q] = None]

\* Mutant: the handlers run without the mutex.
noMutex(q) == UNCHANGED mu

lockWriteMu(q) == mu = None /\ mu' = q

Unlock(q) == mu' = IF mu = q THEN None ELSE mu

\* PATCH and reorder: lock, read the record; it must be there and not in the trash.
readForUpdate(q) ==
    /\ In(q, "patch", "begin") \/ In(q, "reorder", "begin")
    /\ lockWriteMu(q)
    /\ req' = [req EXCEPT ![q].at = IF Alive(req[q].id) THEN "write" ELSE "fail",
                          ![q].row = recs[req[q].id]]
    /\ UNCHANGED <<used, dirs, cli, clock, ops, ticks, poll, atRisk>> /\ NoWrite

notFound(q) ==
    /\ In(q, "patch", "fail") \/ In(q, "reorder", "fail")
    /\ Respond(q) /\ Unlock(q)
    /\ UNCHANGED <<used, dirs, cli, clock, ops, ticks, poll, atRisk>> /\ NoWrite

\* UpdateRecord writes every column but deleted_at, from the row that was read.
Merge(id, row) == [row EXCEPT !.del = recs[id].del]

handlePatchRecord(q) ==
    /\ In(q, "patch", "write")
    /\ LET id == req[q].id
           field == req[q].arg.field
           v == req[q].arg.value
       IN  IF Exists(id)
           THEN /\ SetRow(id, [Merge(id, req[q].row) EXCEPT ![field] = v], [last[id] EXCEPT ![field] = v])
                /\ placed' = None /\ UNCHANGED fellBack
           ELSE NoWrite
    /\ Respond(q) /\ Unlock(q)
    /\ UNCHANGED <<used, dirs, cli, clock, ops, ticks, poll, atRisk>>

\* The day is read and the key is made: computeFractionalIndex.
placeRecord(q) ==
    /\ In(q, "reorder", "write")
    /\ LET arg == req[q].arg
           siblings == siblingsOf(arg.date, req[q].id)
           ends == Around(siblings, arg.kind, arg.ref)
       IN  /\ ReferenceFound(siblings, arg.kind, arg.ref) => KeyFits(ends[1], ends[2])
           /\ req' = [req EXCEPT ![q] =
                 IF ReferenceFound(siblings, arg.kind, arg.ref)
                 THEN [@ EXCEPT !.at = "order", !.day = siblings,
                                !.row = [req[q].row EXCEPT !.date = arg.date, !.order = generateKeyBetween(ends[1], ends[2])],
                                !.arg = [arg EXCEPT !.inOrder = KeysInOrder(ends[1], ends[2])]]
                 ELSE [@ EXCEPT !.at = "fail"]]
    /\ UNCHANGED <<used, dirs, mu, cli, clock, ops, ticks, poll, atRisk>> /\ NoWrite

handleReorderRecord(q) ==
    /\ In(q, "reorder", "order")
    /\ LET id == req[q].id
           row == req[q].row
           arg == req[q].arg
       IN  IF Exists(id)
           THEN /\ SetRow(id, Merge(id, row), [last[id] EXCEPT !.date = row.date, !.order = row.order])
                /\ placed' = IF arg.inOrder /\ siblingsOf(row.date, id) = req[q].day
                             THEN [id |-> id, kind |-> arg.kind, ref |-> arg.ref] ELSE None
                /\ fellBack' = (fellBack \/ ~arg.inOrder)
           ELSE NoWrite
    /\ Respond(q) /\ Unlock(q)
    /\ UNCHANGED <<used, dirs, cli, clock, ops, ticks, poll, atRisk>>

\* DELETE and restore take no lock: they check, then write one column.
checkRecord(q) ==
    /\ In(q, "delete", "begin") \/ In(q, "restore", "begin")
    /\ LET id == req[q].id IN
       IF Exists(id) /\ recs[id].del = (req[q].op = "restore") THEN At(q, "write") ELSE Respond(q)
    /\ UNCHANGED <<used, dirs, mu, cli, clock, ops, ticks, poll, atRisk>> /\ NoWrite

handleDeleteRecord(q) ==
    /\ In(q, "delete", "write")
    /\ IF Exists(req[q].id) THEN SoftDeleteRecord(req[q].id) ELSE NoWrite /\ UNCHANGED atRisk
    /\ Respond(q)
    /\ UNCHANGED <<used, dirs, mu, cli, clock, ops, ticks, poll>>

handleRestoreRecord(q) ==
    /\ In(q, "restore", "write")
    /\ IF Exists(req[q].id) THEN RestoreRecord(req[q].id) ELSE NoWrite /\ UNCHANGED atRisk
    /\ Respond(q)
    /\ UNCHANGED <<used, dirs, mu, cli, clock, ops, ticks, poll>>

\* Mutant: every record is listed.
AnyRecord == {id \in Ids : Exists(id)}

Trashed == {id \in Ids : Exists(id) /\ recs[id].del}

\* PurgeDeletedRecords reads the IDs ...
purgedIDs == Trashed

purgeList(q) ==
    /\ In(q, "purge", "begin") /\ lockWriteMu(q)
    /\ req' = [req EXCEPT ![q].ids = purgedIDs, ![q].at = IF purgedIDs = {} THEN "remove" ELSE "delete"]
    /\ UNCHANGED <<used, dirs, cli, clock, ops, ticks, poll, atRisk>> /\ NoWrite

\* ... and deletes what is in the trash by then.
PurgeDeletedRecords(q) ==
    /\ In(q, "purge", "delete")
    /\ DeleteRows(Trashed) /\ At(q, "remove")
    /\ UNCHANGED <<used, dirs, mu, cli, clock, ops, ticks, poll, atRisk>>

\* The directories of the IDs that were read are removed.
handlePurgeTrash(q) ==
    /\ In(q, "purge", "remove")
    /\ dirs' = dirs \ req[q].ids
    /\ Respond(q) /\ Unlock(q)
    /\ UNCHANGED <<used, cli, clock, ops, ticks, poll, atRisk>> /\ NoWrite

---------------------------------------------------------------------------
(* The command line, in other processes *)

Idle == cli = None /\ ops.commands < MaxCommands /\ ops' = [ops EXCEPT !.commands = @ + 1]

cliDelete(id) ==
    /\ Idle /\ Exists(id) /\ SoftDeleteRecord(id)
    /\ UNCHANGED <<used, dirs, mu, req, cli, clock, ticks, poll>>

cliRestore(id) ==
    /\ Idle /\ Exists(id) /\ RestoreRecord(id)
    /\ UNCHANGED <<used, dirs, mu, req, cli, clock, ticks, poll>>

\* pc records add: computeDayOrder lists the day and makes a key; no key, no record.
computeDayOrder(date, kind, ref) ==
    /\ Idle
    /\ \E id \in Ids :
          LET siblings == siblingsOf(date, id)
              ends == Around(siblings, kind, ref)
          IN  /\ id \notin used /\ used' = used \cup {id} /\ ref # id
              /\ ReferenceFound(siblings, kind, ref) /\ KeysInOrder(ends[1], ends[2]) /\ KeyFits(ends[1], ends[2])
              /\ cli' = [op |-> "add", at |-> "row", id |-> id, date |-> date,
                         order |-> KeyBetween(ends[1], ends[2]), ids |-> {}]
    /\ UNCHANGED <<dirs, mu, req, clock, ticks, poll, atRisk>> /\ NoWrite

AddAt(at) == cli # None /\ cli.op = "add" /\ cli.at = at

GoOn(at) == cli' = [cli EXCEPT !.at = at]

\* CreateRecord: the record is there for everybody before any of its files is.
createRecord ==
    /\ AddAt("row") /\ GoOn("copy")
    /\ LET row == [date |-> cli.date, order |-> cli.order, notes |-> 0, project |-> 0, del |-> FALSE,
                   upd |-> clock, ver |-> 1]
       IN  recs' = [recs EXCEPT ![cli.id] = row] /\ last' = [last EXCEPT ![cli.id] = row]
    /\ Touched({cli.id}) /\ placed' = None
    /\ UNCHANGED <<used, figs, dirs, mu, req, clock, ops, ticks, poll, atRisk, fellBack>>

copyFigure ==
    /\ AddAt("copy") /\ GoOn("figure")
    /\ dirs' = dirs \cup {cli.id}
    /\ UNCHANGED <<used, mu, req, clock, ops, ticks, poll, atRisk>> /\ NoWrite

\* Mutant: foreign keys are off.
figureWithoutRecord ==
    /\ AddAt("figure") /\ figs' = figs \cup {cli.id} /\ GoOn("data")
    /\ UNCHANGED <<recs, used, dirs, mu, req, clock, ops, ticks, clients, last, atRisk, placed, fellBack>>

\* The figure row needs its record: somebody may have purged it.
createRecordFigure ==
    /\ AddAt("figure")
    /\ IF Exists(cli.id) THEN figs' = figs \cup {cli.id} /\ GoOn("data")
       ELSE UNCHANGED figs /\ GoOn("undo")
    /\ UNCHANGED <<recs, used, dirs, mu, req, clock, ops, ticks, clients, last, atRisk, placed, fellBack>>

\* The data files go the same way, if there are any; then the command is done.
copyDataFiles ==
    /\ AddAt("data") /\ cli' = None
    /\ UNCHANGED <<used, dirs, mu, req, clock, ops, ticks, poll, atRisk>> /\ NoWrite

\* A copy, a hash or a row fails: the deferred roll back runs.
addFails ==
    /\ AddAt("copy") \/ AddAt("figure") \/ AddAt("data")
    /\ GoOn("undo")
    /\ UNCHANGED <<used, dirs, mu, req, clock, ops, ticks, poll, atRisk>> /\ NoWrite

\* The error of DeleteRecord is dropped, and the files are removed all the same.
rollBackRow ==
    /\ AddAt("undo") /\ GoOn("clean")
    /\ \/ DeleteRows({cli.id}) /\ UNCHANGED atRisk
       \/ NoWrite /\ atRisk' = IF Exists(cli.id) THEN atRisk \cup {cli.id} ELSE atRisk
    /\ UNCHANGED <<used, dirs, mu, req, clock, ops, ticks, poll>>

rollBackFiles ==
    /\ AddAt("clean") /\ cli' = None
    /\ dirs' = dirs \ {cli.id}
    /\ UNCHANGED <<used, mu, req, clock, ops, ticks, poll, atRisk>> /\ NoWrite

\* recordTrashDomain.List: all expired, without a cloud.
listRecordTrash == Trashed

runGCAll ==
    /\ Idle /\ listRecordTrash # {}
    /\ cli' = [op |-> "gc", at |-> "row", ids |-> listRecordTrash]
    /\ UNCHANGED <<used, dirs, mu, req, clock, ticks, poll, atRisk>> /\ NoWrite

\* HardLocal: the row, whatever happened since; gc ends at one that is gone.
gcDeleteRow ==
    /\ cli # None /\ cli.op = "gc" /\ cli.at = "row"
    /\ LET id == Min(cli.ids) IN
       IF Exists(id) THEN DeleteRows({id}) /\ cli' = [cli EXCEPT !.at = "dir"]
       ELSE NoWrite /\ cli' = None
    /\ UNCHANGED <<used, dirs, mu, req, clock, ops, ticks, poll, atRisk>>

\* DeleteRecordDir
gcDeleteDir ==
    /\ cli # None /\ cli.op = "gc" /\ cli.at = "dir"
    /\ LET id == Min(cli.ids) IN
       /\ dirs' = dirs \ {id}
       /\ cli' = IF cli.ids = {id} THEN None ELSE [cli EXCEPT !.at = "row", !.ids = @ \ {id}]
    /\ UNCHANGED <<used, mu, req, clock, ops, ticks, poll, atRisk>> /\ NoWrite

\* The process is killed, or CreateRecord fails: nothing more happens.
cliStops ==
    /\ cli # None /\ cli' = None
    /\ UNCHANGED <<used, dirs, mu, req, clock, ops, ticks, poll, atRisk>> /\ NoWrite

---------------------------------------------------------------------------
(* Clients that read *)

startPages ==
    /\ pages = None /\ poll = None
    /\ pages' = [got |-> <<>>, cursor |-> None, more |-> TRUE, start |-> {id \in Ids : Alive(id)}, touched |-> {}]
    /\ UNCHANGED <<recs, used, figs, dirs, mu, req, cli, clock, ops, ticks, poll, last, atRisk, placed, fellBack>>

\* One page: all matching records, sorted, from the cursor on, cut at the limit.
handleListRecords ==
    /\ pages # None /\ pages.more
    /\ LET rest == Listed({id \in Ids : Alive(id) /\ (pages.cursor = None \/ IsAfterCursor(Key(id), pages.cursor))})
           more == Len(rest) > PageLimit
           page == IF more THEN SubSeq(rest, 1, PageLimit) ELSE rest
       IN  pages' = [pages EXCEPT !.got = @ \o [i \in DOMAIN page |-> page[i].id],
                                  !.more = more,
                                  !.cursor = IF more THEN Last(page) ELSE @]
    /\ UNCHANGED <<recs, used, figs, dirs, mu, req, cli, clock, ops, ticks, poll, last, atRisk, placed, fellBack>>

\* server_now is read before the query.
pollBegin ==
    /\ poll # None /\ poll.now = None
    /\ poll' = [poll EXCEPT !.now = clock]
    /\ UNCHANGED <<recs, used, figs, dirs, mu, req, cli, clock, ops, ticks, pages, last, atRisk, placed, fellBack>>

\* Mutant: the lower end of the window is open.
ChangedAfter(r, since, now) == r.upd > since /\ r.upd <= now

\* UpdatedAfter, UpdatedBefore: both ends included.
ChangedWithin(r, since, now) == r.upd >= since /\ r.upd <= now

handleSyncChanges ==
    /\ poll # None /\ poll.now # None
    /\ poll' = [since |-> poll.now, now |-> None,
                seen |-> [id \in Ids |-> IF Exists(id) /\ ChangedWithin(recs[id], poll.since, poll.now)
                                         THEN recs[id].ver ELSE poll.seen[id]]]
    /\ UNCHANGED <<recs, used, figs, dirs, mu, req, cli, clock, ops, ticks, pages, last, atRisk, placed, fellBack>>

Tick ==
    /\ poll # None /\ ticks < MaxTicks /\ ticks' = ticks + 1 /\ clock' = clock + 1
    /\ UNCHANGED <<recs, used, figs, dirs, mu, req, cli, ops, clients, last, atRisk, placed, fellBack>>

---------------------------------------------------------------------------

Handle(q) == \/ readForUpdate(q) \/ notFound(q) \/ handlePatchRecord(q) \/ placeRecord(q) \/ handleReorderRecord(q)
             \/ checkRecord(q) \/ handleDeleteRecord(q) \/ handleRestoreRecord(q)
             \/ purgeList(q) \/ PurgeDeletedRecords(q) \/ handlePurgeTrash(q)

CommandLine == \/ \E id \in Ids : cliDelete(id) \/ cliRestore(id)
               \/ \E date \in Dates, kind \in Kinds, ref \in Ids : computeDayOrder(date, kind, ref)
               \/ createRecord \/ copyFigure \/ createRecordFigure \/ copyDataFiles
               \/ addFails \/ rollBackRow \/ rollBackFiles
               \/ runGCAll \/ gcDeleteRow \/ gcDeleteDir \/ cliStops

Next == \/ \E q \in Requests : Receive(q) \/ Handle(q)
        \/ CommandLine \/ startPages \/ handleListRecords \/ pollBegin \/ handleSyncChanges \/ Tick

Spec == Init /\ [][Next]_vars

---------------------------------------------------------------------------
(* Properties *)

\* A request in progress has its fields, and those of the handler that runs it.
RequestOK(r) ==
    /\ DOMAIN r = {"op", "id", "arg", "at", "row", "ids", "day"}
    /\ r.ids \subseteq Ids /\ (r.op # "purge" => r.id \in Ids)
    /\ r.op = "patch" => r.arg \in [field: {"notes", "project"}, value: Values]
    /\ r.op = "reorder" => r.arg \in [date: Dates, kind: Kinds, ref: Ids, inOrder: BOOLEAN]

CommandOK ==
    \/ cli = None
    \/ cli \in [op: {"add"}, at: {"row", "copy", "figure", "data", "undo", "clean"}, id: Ids, date: Dates, order: Nat, ids: {{}}]
    \/ cli \in [op: {"gc"}, at: {"row", "dir"}, ids: (SUBSET Ids) \ {{}}]

\* The store, the requests, the command and the poller, and no record is younger
\* than the clock.
ServerOK ==
    /\ recs \in [Ids -> Rec \cup {None}] /\ last \in [Ids -> Rec \cup {None}]
    /\ clock \in Nat /\ \A id \in Ids : Exists(id) => recs[id].upd <= clock
    /\ used \subseteq Ids /\ figs \subseteq Ids /\ dirs \subseteq Ids /\ atRisk \subseteq Ids
    /\ mu \in Requests \cup {None}
    /\ DOMAIN req = Requests /\ \A q \in Requests : req[q] # None => RequestOK(req[q])
    /\ CommandOK
    /\ poll # None => poll \in [since: 0..clock, now: (0..clock) \cup {None}, seen: [Ids -> Nat]]

\* The client that lists records.
PagesOK ==
    pages # None => pages \in [got: Seq(Ids), cursor: Position \cup {None}, more: BOOLEAN,
                               start: SUBSET Ids, touched: SUBSET Ids]

\* Every variable that a handler, the command line or a client works on has its type.
TypeOK ==
    /\ ServerOK /\ PagesOK
    /\ placed # None => placed \in [id: Ids, kind: Kinds, ref: Ids]

\* What was acknowledged holds: whatever PATCH, reorder, delete, restore, purge
\* and the command line do at once, each field has the value of the last write
\* to that field.
NoLostUpdate ==
    \A id \in Ids :
        /\ Exists(id) = (last[id] # None)
        /\ Exists(id) => \A f \in {"date", "order", "notes", "project", "del"} : recs[id][f] = last[id][f]

\* Every figure row, in the trash or not, has its figure on disk: pc records add
\* copies before it makes the row, purge and gc delete the row before the files,
\* whoever comes in between and wherever the command fails or is killed.  Two
\* cases are known to break it, and are left out: a record restored after a purge
\* or a gc had listed it, and a roll back that could not delete the row.
FigureRowHasFile == figs \ atRisk \subseteq dirs

\* The comment of PurgeDeletedRecords: it "returns the IDs of the purged records
\* for filesystem/S3 cleanup by the caller".
OnlyPurgedAreCleanedUp ==
    \A q \in Requests : In(q, "purge", "remove") => \A id \in req[q].ids : ~Exists(id)

\* A client that follows the cursors to the end got every record that nobody
\* touched meanwhile exactly once, however others moved around it.
PagesAreComplete ==
    pages # None /\ ~pages.more =>
        \A id \in pages.start \ pages.touched :
            Cardinality({i \in DOMAIN pages.got : pages.got[i] = id}) = 1

\* A poller that asks with the last server_now has the latest version of every
\* record, or will be told.
PollMissesNothing ==
    poll # None => \A id \in Ids : Exists(id) => poll.seen[id] = recs[id].ver \/ recs[id].upd >= poll.since

\* A reorder puts the record next to its reference, if the keys of the day were
\* in order and nobody else changed the day meanwhile.
NextToReference ==
    placed # None /\ placed.kind \in {"before", "after"} =>
        LET day == Listed({x \in Ids : Alive(x) /\ recs[x].date = recs[placed.id].date})
            i == CHOOSE n \in DOMAIN day : day[n].id = placed.id
            j == CHOOSE n \in DOMAIN day : day[n].id = placed.ref
        IN  Alive(placed.id) => IF placed.kind = "before" THEN j = i + 1 ELSE i = j + 1

\* The comment of generateKeyBetween: its fallback is for inputs "which cannot
\* happen with well-ordered data from the database".
FallbackNeverUsed == ~fellBack

=============================================================================
