------------------------- MODULE PostgresRepository -------------------------
(***************************************************************************)
(* The cloud backend: the operations of the repository interface for the   *)
(* user u of the connection.  Rows of all users share the tables; record   *)
(* and chat IDs are unique across users, projects, devices and sources per *)
(* user, templates belong to everybody.  Timestamps keep their precision.  *)
(***************************************************************************)
EXTENDS RepositoryTables

---------------------------------------------------------------------------
(* Triggers *)

\* bump_sync_version for a row whose owner is found
bumpSyncVersion(s, u, n) == [s EXCEPT !.fired[u] = @ + n]

\* Templates are shared: every user's version moves.
bumpEverybody(s, n) == [s EXCEPT !.fired = [u \in Users |-> @[u] + n]]

Bump(s, u, tab, n) ==
    IF tab = "templates" THEN bumpEverybody(s, n) ELSE bumpSyncVersion(s, u, n)

Watched(tab, row) ==
    IF tab \in {"projects", "devices", "paths"} THEN row ELSE Columns(row)

InsertRow(s, u, tab, row) == Bump([s EXCEPT ![tab] = @ \cup {row}], u, tab, 1)

UpdateRow(s, u, tab, old, new) ==
    Bump([s EXCEPT ![tab] = (@ \ {old}) \cup {new}], u, tab,
         IF Watched(tab, old) # Watched(tab, new) THEN 1 ELSE 0)

\* Mutant: a table without the trigger.
keepUpdatedAt(old, new, t) == new

\* auto_update_updated_at runs before the row is written.
autoUpdateUpdatedAt(old, new, t) == IF new.upd = old.upd THEN [new EXCEPT !.upd = t] ELSE new

UpdateTouched(s, u, tab, old, new, t) ==
    UpdateRow(s, u, tab, old, autoUpdateUpdatedAt(old, new, t))

DeleteRows(s, u, tab, rows) == Bump([s EXCEPT ![tab] = @ \ rows], u, tab, Cardinality(rows))

---------------------------------------------------------------------------
(* Records *)

RecordRefs(s, u, a) == /\ \E p \in s.projects : p.user = u /\ p.id = a.proj
                       /\ \E d \in s.devices : d.user = u /\ d.id = a.dev

\* Mutant: a query without the user_id condition.
AnyRecord(s, u, id) == {r \in s.records : r.id = id}

\* SELECT ... WHERE user_id = u AND id = id
OwnRecord(s, u, id) == {r \in s.records : r.user = u /\ r.id = id}

recordIDExists(s, u, id) == OwnRecord(s, u, id) # {}

recordIDExistsForOtherUserTx(s, u, id) == \E r \in s.records : r.id = id /\ r.user # u

OwnSession(s, u, id) == {c \in s.sessions : c.user = u /\ c.id = id}

chatSessionIDExists(s, u, id) == OwnSession(s, u, id) # {}

recordRow(u, a, t) ==
    [id |-> a.id, user |-> u, proj |-> a.proj, dev |-> a.dev, body |-> a.body,
     upd |-> Coalesce(a.upd, t), del |-> a.del]

\* The primary key is shared with the other users' records.
CreateRecord(s, u, t, a) ==
    IF \/ chatSessionIDExists(s, u, a.id)
       \/ \E r \in s.records : r.id = a.id
    THEN Err(s, "conflict")
    ELSE IF ~RecordRefs(s, u, a) THEN Err(s, "foreign_key")
    ELSE Ok(InsertRow(s, u, "records", recordRow(u, a, t)), a.id)

\* UPDATE of the caller's row by f; no row is ErrNotFound.
updateOwn(s, u, tab, own, f(_), t, v) ==
    IF own = {} THEN Err(s, "not_found")
    ELSE LET old == CHOOSE r \in own : TRUE
         IN  Ok(UpdateTouched(s, u, tab, old, f(old), t), v)

UpdateRecord(s, u, t, a) ==
    LET own == OwnRecord(s, u, a.id)
        f(old) == [old EXCEPT !.proj = a.proj, !.dev = a.dev, !.body = a.body,
                      !.upd = Coalesce(a.upd, @), !.del = IF a.setDel THEN a.del ELSE @]
    IN  IF own # {} /\ ~RecordRefs(s, u, a) THEN Err(s, "foreign_key")
        ELSE updateOwn(s, u, "records", own, f, t, a.id)

\* Mutant: a second delete moves the tombstone.
SoftDeleteAgain(s, u, t, id) ==
    LET f(old) == [old EXCEPT !.del = t]
    IN  updateOwn(s, u, "records", OwnRecord(s, u, id), f, t, id)

SoftDeleteRecord(s, u, t, id) ==
    LET f(old) == [old EXCEPT !.del = Coalesce(@, t)]
    IN  updateOwn(s, u, "records", OwnRecord(s, u, id), f, t, id)

RestoreRecord(s, u, t, id) ==
    LET f(old) == [old EXCEPT !.del = None]
    IN  updateOwn(s, u, "records", OwnRecord(s, u, id), f, t, id)

\* The cascade's triggers no longer find the record, and bump nothing.
DeleteRecordRows(s, u, rows) ==
    LET ids == {r.id : r \in rows}
    IN  [DeleteRows(s, u, "records", rows) EXCEPT
            !.figures = {f \in @ : f.rec \notin ids},
            !.dataFiles = {d \in @ : d.rec \notin ids}]

DeleteRecord(s, u, id) ==
    LET own == OwnRecord(s, u, id)
    IN  IF own = {} THEN Err(s, "not_found") ELSE Ok(DeleteRecordRows(s, u, own), id)

\* DELETE ... RETURNING id
PurgeDeletedRecords(s, u) ==
    LET trash == {r \in s.records : r.user = u /\ r.del # None}
    IN  Ok(DeleteRecordRows(s, u, trash), {r.id : r \in trash})

replaceRecordRowTx(s, u, t, a) ==
    LET row == recordRow(u, a, t)
        f(old) == [old EXCEPT !.proj = a.proj, !.dev = a.dev, !.body = a.body,
                      !.upd = row.upd, !.del = IF a.setDel THEN row.del ELSE @]
    IN  IF recordIDExists(s, u, a.id)
        THEN updateOwn(s, u, "records", OwnRecord(s, u, a.id), f, t, a.id).store
        ELSE InsertRow(s, u, "records", row)

insertChildrenTx(s, u, tab, id, children) ==
    LET rows == {[rec |-> id, name |-> children[i].name, meta |-> children[i].meta]
                    : i \in DOMAIN children}
    IN  Bump([s EXCEPT ![tab] = @ \cup rows], u, tab, Len(children))

ReplaceRecordChildren(s, u, t, a) ==
    LET s1 == replaceRecordRowTx(s, u, t, a)
        s2 == DeleteRows(s1, u, "figures", {f \in s.figures : f.rec = a.id})
        s3 == DeleteRows(s2, u, "dataFiles", {d \in s.dataFiles : d.rec = a.id})
        s4 == insertChildrenTx(s3, u, "figures", a.id, a.figures)
        s5 == insertChildrenTx(s4, u, "dataFiles", a.id, a.dataFiles)
        name(c) == c.name
    IN  IF /\ ~recordIDExists(s, u, a.id)
           /\ recordIDExistsForOtherUserTx(s, u, a.id) \/ chatSessionIDExists(s, u, a.id)
        THEN Err(s, "conflict")
        ELSE IF ~RecordRefs(s, u, a) THEN Err(s, "foreign_key")
        ELSE IF Repeats(Column(a.figures, name)) \/ Repeats(Column(a.dataFiles, name))
             THEN Err(s, "conflict")
        ELSE Ok(s5, a.id)

---------------------------------------------------------------------------
(* Figures and data files: reached through a record of the user. *)

ChildAt(s, u, tab, rec, name) ==
    {c \in s[tab] : c.rec = rec /\ c.name = name /\ recordIDExists(s, u, c.rec)}

\* INSERT ... SELECT FROM the caller's record; no row becomes a foreign key error.
createChild(s, u, tab, a) ==
    IF ~recordIDExists(s, u, a.rec) THEN Err(s, "foreign_key")
    ELSE IF ChildAt(s, u, tab, a.rec, a.name) # {} THEN Err(s, "conflict")
    ELSE Ok(InsertRow(s, u, tab, [rec |-> a.rec, name |-> a.name, meta |-> a.meta]), a.name)

updateChild(s, u, tab, a) ==
    LET found == ChildAt(s, u, tab, a.rec, a.name) IN
    IF found = {} THEN Err(s, "not_found")
    ELSE LET old == CHOOSE c \in found : TRUE
             new == [old EXCEPT !.name = Coalesce(a.newName, @), !.meta = Coalesce(a.newMeta, @)]
         IN  IF \E c \in s[tab] \ {old} : c.rec = new.rec /\ c.name = new.name
             THEN Err(s, "conflict")
             ELSE Ok(UpdateRow(s, u, tab, old, new), new.name)

deleteChild(s, u, tab, a) ==
    LET found == ChildAt(s, u, tab, a.rec, a.name)
    IN  IF found = {} THEN Err(s, "not_found") ELSE Ok(DeleteRows(s, u, tab, found), a.name)

CreateRecordFigure(s, u, a) == createChild(s, u, "figures", a)

UpdateRecordFigure(s, u, a) == updateChild(s, u, "figures", a)

DeleteRecordFigure(s, u, a) == deleteChild(s, u, "figures", a)

CreateRecordDataFile(s, u, a) == createChild(s, u, "dataFiles", a)

UpdateRecordDataFile(s, u, a) == updateChild(s, u, "dataFiles", a)

DeleteRecordDataFile(s, u, a) == deleteChild(s, u, "dataFiles", a)

---------------------------------------------------------------------------
(* Templates and registries *)

CreateTemplate(s, u, t, a) ==
    IF \E x \in s.templates : x.name = a.name THEN Err(s, "conflict")
    ELSE Ok(InsertRow(s, u, "templates",
                [name |-> a.name, html |-> a.html, upd |-> Coalesce(a.upd, t)]), a.name)

UpdateTemplate(s, u, t, a) ==
    LET f(old) == [old EXCEPT !.html = a.html, !.upd = Coalesce(a.upd, @)]
    IN  updateOwn(s, u, "templates", {x \in s.templates : x.name = a.name}, f, t, a.name)

DeleteTemplate(s, u, name) ==
    LET found == {x \in s.templates : x.name = name}
    IN  IF found = {} THEN Err(s, "not_found") ELSE Ok(DeleteRows(s, u, "templates", found), name)

OwnEntry(s, u, tab, id) == {e \in s[tab] : e.user = u /\ e.id = id}

createEntry(s, u, tab, t, a) ==
    IF OwnEntry(s, u, tab, a.id) # {} THEN Err(s, "conflict")
    ELSE Ok(InsertRow(s, u, tab, [id |-> a.id, user |-> u, upd |-> Coalesce(a.upd, t),
                                  arch |-> a.arch]), a.id)

setArchivedAt(s, u, tab, t, id, arch) ==
    LET f(old) == [old EXCEPT !.arch = arch]
    IN  updateOwn(s, u, tab, OwnEntry(s, u, tab, id), f, t, id)

upsertEntryForImport(s, u, tab, t, a) ==
    LET own == OwnEntry(s, u, tab, a.id)
        f(old) == [old EXCEPT !.upd = a.upd, !.arch = a.arch]
    IN  IF own = {} THEN [createEntry(s, u, tab, t, a) EXCEPT !.val = TRUE]
        ELSE IF \A old \in own : a.upd <= old.upd THEN Ok(s, FALSE)
        ELSE updateOwn(s, u, tab, own, f, t, TRUE)

CreateProject(s, u, t, a) == createEntry(s, u, "projects", t, a)

ArchiveProject(s, u, t, id) == setArchivedAt(s, u, "projects", t, id, t)

RestoreProject(s, u, t, id) == setArchivedAt(s, u, "projects", t, id, None)

UpsertProjectForImport(s, u, t, a) == upsertEntryForImport(s, u, "projects", t, a)

CreateDevice(s, u, t, a) == createEntry(s, u, "devices", t, a)

ArchiveDevice(s, u, t, id) == setArchivedAt(s, u, "devices", t, id, t)

RestoreDevice(s, u, t, id) == setArchivedAt(s, u, "devices", t, id, None)

UpsertDeviceForImport(s, u, t, a) == upsertEntryForImport(s, u, "devices", t, a)

UpsertProjectPath(s, u, t, a) ==
    LET row == [user |-> u, proj |-> a.proj, path |-> a.path, dev |-> a.dev,
                upd |-> Coalesce(a.upd, t)]
        known == \E p \in s.paths :
                    p.user = u /\ p.proj = a.proj /\ p.path = a.path /\ p.dev = a.dev
    IN  IF known THEN Ok(s, FALSE)
        ELSE IF ~RecordRefs(s, u, a) THEN Err(s, "foreign_key")
        ELSE Ok(InsertRow(s, u, "paths", row), TRUE)

---------------------------------------------------------------------------
(* Chat sessions and items *)

PathsOf(s, c) == {p \in s.paths : /\ p.user = c.user /\ p.dev = c.dev
                                  /\ InDirectory(p.path, c.cwd)}

longestPathProject(s, c) ==
    (CHOOSE p \in PathsOf(s, c) : \A q \in PathsOf(s, c) :
        \/ Len(p.path) > Len(q.path)
        \/ Len(p.path) = Len(q.path) /\ p.proj <= q.proj).proj

BackfillChatProjects(s, u, t) ==
    LET open == {c \in s.sessions : c.user = u /\ c.proj = None /\ PathsOf(s, c) # {}}
        filled(c) == [c EXCEPT !.proj = longestPathProject(s, c), !.upd = t]
    IN  Ok(bumpSyncVersion([s EXCEPT !.sessions = (@ \ open) \cup {filled(c) : c \in open}],
                           u, Cardinality(open)),
           Cardinality(open))

SessionRefs(s, u, a) == /\ a.proj # None => \E p \in s.projects : p.user = u /\ p.id = a.proj
                        /\ \E d \in s.devices : d.user = u /\ d.id = a.dev

sessionRow(u, a, t) ==
    [id |-> a.id, user |-> u, src |-> a.src, dev |-> a.dev, proj |-> a.proj,
     cwd |-> a.cwd, title |-> a.title, start |-> a.start, last |-> a.last,
     orig |-> a.orig, upd |-> Coalesce(a.upd, t), del |-> a.del]

\* INSERT ... ON CONFLICT (user_id, source, source_session_id) DO UPDATE
upsertChatSession(s, u, t, a) ==
    LET same == {c \in s.sessions : c.user = u /\ c.src = a.src}
        row  == sessionRow(u, a, t)
        f(old) == [old EXCEPT !.dev = row.dev, !.proj = Coalesce(row.proj, @),
                      !.cwd = Coalesce(row.cwd, @), !.title = Coalesce(row.title, @),
                      !.start = Lesser(@, row.start), !.last = Greater(@, row.last),
                      !.orig = row.orig, !.upd = row.upd,
                      !.del = IF a.clearDel THEN None ELSE row.del]
    IN  IF same = {} /\ recordIDExists(s, u, a.id) THEN Err(s, "conflict")
        ELSE IF same = {} /\ \E c \in s.sessions : c.id = a.id THEN Err(s, "conflict")
        ELSE IF ~SessionRefs(s, u, a) THEN Err(s, "foreign_key")
        ELSE IF same = {} THEN Ok(InsertRow(s, u, "sessions", row), [id |-> a.id, created |-> TRUE])
        ELSE updateOwn(s, u, "sessions", same, f, t,
                       [id |-> (CHOOSE c \in same : TRUE).id, created |-> FALSE])

UpsertChatSession(s, u, t, a) == upsertChatSession(s, u, t, a)

ItemsOf(s, id) == {i \in s.items : i.sess = id}

insertChatItemsTx(s, u, id, items) ==
    LET rows == {[sess |-> id, ord |-> items[i].ord, text |-> items[i].text] : i \in DOMAIN items}
        ord(i) == i.ord
    IN  IF \/ Repeats(Column(items, ord))
           \/ \E i \in rows, j \in ItemsOf(s, id) : i.ord = j.ord
        THEN Err(s, "conflict")
        ELSE Ok(bumpSyncVersion([s EXCEPT !.items = @ \cup rows], u, Len(items)), id)

Rollback(s, r) == IF r.err = None THEN r ELSE Err(s, r.err)

UpsertChatSessionWithItems(s, u, t, a) ==
    LET up  == upsertChatSession(s, u, t, a)
        del == DeleteRows(up.store, u, "items", ItemsOf(s, up.val.id))
        ins == insertChatItemsTx(del, u, up.val.id, a.items)
    IN  IF up.err # None THEN up
        ELSE Rollback(s, [ins EXCEPT !.val = up.val])

SoftDeleteChatSession(s, u, t, id) ==
    LET f(old) == [old EXCEPT !.del = Coalesce(@, t)]
    IN  updateOwn(s, u, "sessions", OwnSession(s, u, id), f, t, id)

\* Mutant: the statement does not ask for deleted_at IS NOT NULL.
RestoreAnyChat(s, u, t, id) ==
    LET f(old) == [old EXCEPT !.del = None]
    IN  updateOwn(s, u, "sessions", OwnSession(s, u, id), f, t, id)

RestoreChatSession(s, u, t, id) ==
    LET f(old) == [old EXCEPT !.del = None]
    IN  updateOwn(s, u, "sessions", {c \in OwnSession(s, u, id) : c.del # None}, f, t, id)

\* The cascade's triggers no longer find the session.
DeleteChatSession(s, u, id) ==
    LET own == OwnSession(s, u, id)
    IN  IF own = {} THEN Err(s, "not_found")
        ELSE Ok([DeleteRows(s, u, "sessions", own) EXCEPT !.items = @ \ ItemsOf(s, id)], id)

\* INSERT ... WHERE EXISTS the session: no row is ErrNotFound.
CreateChatItem(s, u, a) ==
    IF ~chatSessionIDExists(s, u, a.id) THEN Err(s, "not_found")
    ELSE insertChatItemsTx(s, u, a.id, a.items)

AppendChatItems(s, u, a) ==
    IF ~chatSessionIDExists(s, u, a.id) THEN Err(s, "not_found")
    ELSE insertChatItemsTx(s, u, a.id, a.items)

ReplaceChatItems(s, u, a) ==
    IF ~chatSessionIDExists(s, u, a.id) THEN Err(s, "not_found")
    ELSE Rollback(s, insertChatItemsTx(DeleteRows(s, u, "items", ItemsOf(s, a.id)),
                                       u, a.id, a.items))

MaxChatItemOrdinal(s, u, id) ==
    LET ords == {i.ord : i \in {j \in ItemsOf(s, id) : chatSessionIDExists(s, u, id)}}
    IN  IF ords = {} THEN None ELSE CHOOSE o \in ords : \A p \in ords : p <= o

---------------------------------------------------------------------------
(* Queries *)

listRecordsPredicate(s, u, r, f) ==
    /\ r.user = u
    /\ CASE f.del = "only"    -> r.del # None
         [] f.del = "include" -> TRUE
         [] f.del = "exclude" -> r.del = None
    /\ f.proj = None \/ r.proj = f.proj
    /\ ~f.body \/ r.body # None
    /\ ~f.data \/ \E d \in s.dataFiles : d.rec = r.id
    /\ f.after = None \/ r.upd >= f.after
    /\ f.before = None \/ r.upd <= f.before

ListRecords(s, u, f) == {r \in s.records : listRecordsPredicate(s, u, r, f)}

CountRecords(s, u, f) == Cardinality(ListRecords(s, u, f))

CountRecordChildren(s, u, ids) ==
    LET own(tab, i) == {x \in s[tab] : x.rec = i /\ recordIDExists(s, u, i)}
    IN  [i \in ids |-> [figures |-> Cardinality(own("figures", i)),
                        dataFiles |-> Cardinality(own("dataFiles", i))]]

CountActiveRecords(s, u) == Cardinality({r \in s.records : r.user = u /\ r.del = None})

CountTrashedRecords(s, u) == Cardinality({r \in s.records : r.user = u /\ r.del # None})

ListRecordFigures(s, u, id) == {f \in s.figures : f.rec = id /\ recordIDExists(s, u, id)}

ListRecordDataFiles(s, u, id) == {d \in s.dataFiles : d.rec = id /\ recordIDExists(s, u, id)}

ListTemplates(s) == s.templates

ListProjects(s, u, archived) == {p \in s.projects : p.user = u /\ (archived \/ p.arch = None)}

ListDevices(s, u, archived) == {d \in s.devices : d.user = u /\ (archived \/ d.arch = None)}

ListProjectPaths(s, u, proj) == {p \in s.paths : p.user = u /\ (proj = None \/ p.proj = proj)}

chatSessionPredicate(c, u, f) ==
    /\ c.user = u
    /\ CASE f.del = "only"    -> c.del # None
         [] f.del = "include" -> TRUE
         [] f.del = "exclude" -> c.del = None
    /\ f.proj = None \/ c.proj = f.proj
    /\ ~f.unassigned \/ c.proj = None
    /\ f.dev = None \/ c.dev = f.dev
    /\ f.from = None \/ c.last >= f.from
    /\ f.to = None \/ c.last <= f.to
    /\ f.after = None \/ c.upd >= f.after

ListChatSessions(s, u, f) == {c \in s.sessions : chatSessionPredicate(c, u, f)}

CountChatSessions(s, u, f) == Cardinality(ListChatSessions(s, u, f))

ListChatItems(s, u, id) == {i \in ItemsOf(s, id) : chatSessionIDExists(s, u, id)}

CountChatItems(s, u, includeDeleted) ==
    Cardinality({i \in s.items : \E c \in s.sessions :
        /\ c.id = i.sess /\ c.user = u
        /\ includeDeleted \/ c.del = None})

SearchChatItems(s, u, q) ==
    {i \in s.items : /\ i.text = q.text
                     /\ \E c \in s.sessions :
                          /\ c.id = i.sess /\ c.user = u
                          /\ q.deleted \/ c.del = None
                          /\ q.proj = None \/ c.proj = q.proj}

CountSearchChatItems(s, u, q) == Cardinality(SearchChatItems(s, u, q))

searchRecords(s, u, q) ==
    {r \in s.records : /\ r.user = u /\ r.body = q.text
                       /\ q.deleted \/ r.del = None
                       /\ q.proj = None \/ r.proj = q.proj}

=============================================================================
