-------------------------- MODULE SQLiteRepository --------------------------
(***************************************************************************)
(* The local backend: every operation of the repository interface as a     *)
(* function from a store, the time and its input to a store, an error and  *)
(* a value.  One user; timestamps are text with milliseconds; cascades     *)
(* fire the triggers of the child tables.                                  *)
(***************************************************************************)
EXTENDS RepositoryTables

CONSTANT Me      \* the owner of the local database

---------------------------------------------------------------------------
(* Triggers *)

SyncBump(s, n) == [s EXCEPT !.fired[Me] = @ + n]

\* The registry tables count their timestamps as content.
Watched(tab, row) ==
    IF tab \in {"projects", "devices", "paths"} THEN row ELSE Columns(row)

InsertRow(s, tab, row) == SyncBump([s EXCEPT ![tab] = @ \cup {row}], 1)

UpdateRow(s, tab, old, new) ==
    SyncBump([s EXCEPT ![tab] = (@ \ {old}) \cup {new}],
             IF Watched(tab, old) # Watched(tab, new) THEN 1 ELSE 0)

\* An UPDATE that leaves updated_at alone is followed by one that sets it.
UpdateTouched(s, tab, old, new, t) ==
    LET stamped == [new EXCEPT !.upd = FormatUTCMillis(t)]
        first   == UpdateRow(s, tab, old, new)
    IN  IF new.upd = old.upd THEN UpdateRow(first, tab, new, stamped) ELSE first

DeleteRows(s, tab, rows) ==
    SyncBump([s EXCEPT ![tab] = @ \ rows], Cardinality(rows))

---------------------------------------------------------------------------
(* Records *)

RecordRefs(s, a) == /\ \E p \in s.projects : p.id = a.proj
                    /\ \E d \in s.devices : d.id = a.dev

recordIDExists(s, id) == \E r \in s.records : r.id = id

chatSessionIDExists(s, id) == \E c \in s.sessions : c.id = id

RecordById(s, id) == CHOOSE r \in s.records : r.id = id

recordRow(a, t) ==
    [id |-> a.id, user |-> Me, proj |-> a.proj, dev |-> a.dev, body |-> a.body,
     upd |-> FormatUTCMillis(Coalesce(a.upd, t)), del |-> FormatUTCMillis(a.del)]

CreateRecord(s, t, a) ==
    IF chatSessionIDExists(s, a.id) \/ recordIDExists(s, a.id) THEN Err(s, "conflict")
    ELSE IF ~RecordRefs(s, a) THEN Err(s, "foreign_key")
    ELSE Ok(InsertRow(s, "records", recordRow(a, t)), a.id)

UpdateRecord(s, t, a) ==
    IF ~recordIDExists(s, a.id) THEN Err(s, "not_found")
    ELSE IF ~RecordRefs(s, a) THEN Err(s, "foreign_key")
    ELSE LET old == RecordById(s, a.id)
             new == [old EXCEPT !.proj = a.proj, !.dev = a.dev, !.body = a.body,
                        !.upd = Coalesce(FormatUTCMillis(a.upd), @),
                        !.del = IF a.setDel THEN FormatUTCMillis(a.del) ELSE @]
         IN  Ok(UpdateTouched(s, "records", old, new, t), a.id)

SoftDeleteRecord(s, t, id) ==
    IF ~recordIDExists(s, id) THEN Err(s, "not_found")
    ELSE LET old == RecordById(s, id)
             new == [old EXCEPT !.del = Coalesce(@, FormatUTCMillis(t))]
         IN  Ok(UpdateTouched(s, "records", old, new, t), id)

RestoreRecord(s, t, id) ==
    IF ~recordIDExists(s, id) THEN Err(s, "not_found")
    ELSE LET old == RecordById(s, id)
         IN  Ok(UpdateTouched(s, "records", old, [old EXCEPT !.del = None], t), id)

\* Mutant: a database opened without foreign keys does not cascade.
DeleteRowsOnly(s, rows) == DeleteRows(s, "records", rows)

\* ON DELETE CASCADE, which fires the triggers of the child tables.
DeleteRecordRows(s, rows) ==
    LET ids == {r.id : r \in rows}
        s1 == DeleteRows(s, "records", rows)
        s2 == DeleteRows(s1, "figures", {f \in s.figures : f.rec \in ids})
    IN  DeleteRows(s2, "dataFiles", {d \in s.dataFiles : d.rec \in ids})

DeleteRecord(s, id) ==
    IF ~recordIDExists(s, id) THEN Err(s, "not_found")
    ELSE Ok(DeleteRecordRows(s, {RecordById(s, id)}), id)

PurgeDeletedRecords(s) ==
    LET trash == {r \in s.records : r.del # None}
    IN  Ok(DeleteRecordRows(s, trash), {r.id : r \in trash})

\* The upsert of the row: an absent updated_at is the time of the call.
replaceRecordRowTx(s, t, a) ==
    LET row == recordRow(a, t) IN
    IF ~recordIDExists(s, a.id) THEN InsertRow(s, "records", row)
    ELSE LET old == RecordById(s, a.id)
             new == [old EXCEPT !.proj = a.proj, !.dev = a.dev, !.body = a.body,
                        !.upd = row.upd, !.del = IF a.setDel THEN row.del ELSE @]
         IN  UpdateTouched(s, "records", old, new, t)

insertChildrenTx(s, tab, id, children) ==
    LET rows == {[rec |-> id, name |-> children[i].name, meta |-> children[i].meta]
                    : i \in DOMAIN children}
    IN  SyncBump([s EXCEPT ![tab] = @ \cup rows], Len(children))

ReplaceRecordChildren(s, t, a) ==
    LET s1 == replaceRecordRowTx(s, t, a)
        s2 == DeleteRows(s1, "figures", {f \in s.figures : f.rec = a.id})
        s3 == DeleteRows(s2, "dataFiles", {d \in s.dataFiles : d.rec = a.id})
        s4 == insertChildrenTx(s3, "figures", a.id, a.figures)
        s5 == insertChildrenTx(s4, "dataFiles", a.id, a.dataFiles)
        name(c) == c.name
    IN  IF ~recordIDExists(s, a.id) /\ chatSessionIDExists(s, a.id) THEN Err(s, "conflict")
        ELSE IF ~RecordRefs(s, a) THEN Err(s, "foreign_key")
        ELSE IF Repeats(Column(a.figures, name)) \/ Repeats(Column(a.dataFiles, name))
             THEN Err(s, "conflict")
        ELSE Ok(s5, a.id)

---------------------------------------------------------------------------
(* Figures and data files: two tables with the same operations. *)

ChildAt(s, tab, rec, name) == {c \in s[tab] : c.rec = rec /\ c.name = name}

createChild(s, tab, a) ==
    IF ~recordIDExists(s, a.rec) THEN Err(s, "foreign_key")
    ELSE IF ChildAt(s, tab, a.rec, a.name) # {} THEN Err(s, "conflict")
    ELSE Ok(InsertRow(s, tab, [rec |-> a.rec, name |-> a.name, meta |-> a.meta]), a.name)

\* An absent name or metadata leaves the stored value.
updateChild(s, tab, a) ==
    LET found == ChildAt(s, tab, a.rec, a.name) IN
    IF found = {} THEN Err(s, "not_found")
    ELSE LET old == CHOOSE c \in found : TRUE
             new == [old EXCEPT !.name = Coalesce(a.newName, @), !.meta = Coalesce(a.newMeta, @)]
         IN  IF \E c \in s[tab] \ {old} : c.rec = new.rec /\ c.name = new.name
             THEN Err(s, "conflict")
             ELSE Ok(UpdateRow(s, tab, old, new), new.name)

deleteChild(s, tab, a) ==
    LET found == ChildAt(s, tab, a.rec, a.name)
    IN  IF found = {} THEN Err(s, "not_found") ELSE Ok(DeleteRows(s, tab, found), a.name)

CreateRecordFigure(s, a) == createChild(s, "figures", a)

UpdateRecordFigure(s, a) == updateChild(s, "figures", a)

DeleteRecordFigure(s, a) == deleteChild(s, "figures", a)

CreateRecordDataFile(s, a) == createChild(s, "dataFiles", a)

UpdateRecordDataFile(s, a) == updateChild(s, "dataFiles", a)

DeleteRecordDataFile(s, a) == deleteChild(s, "dataFiles", a)

---------------------------------------------------------------------------
(* Templates and registries *)

CreateTemplate(s, t, a) ==
    IF \E x \in s.templates : x.name = a.name THEN Err(s, "conflict")
    ELSE Ok(InsertRow(s, "templates",
                [name |-> a.name, html |-> a.html, upd |-> FormatUTCMillis(Coalesce(a.upd, t))]),
            a.name)

UpdateTemplate(s, t, a) ==
    LET found == {x \in s.templates : x.name = a.name} IN
    IF found = {} THEN Err(s, "not_found")
    ELSE LET old == CHOOSE x \in found : TRUE
             new == [old EXCEPT !.html = a.html, !.upd = Coalesce(FormatUTCMillis(a.upd), @)]
         IN  Ok(UpdateTouched(s, "templates", old, new, t), a.name)

DeleteTemplate(s, name) ==
    LET found == {x \in s.templates : x.name = name}
    IN  IF found = {} THEN Err(s, "not_found") ELSE Ok(DeleteRows(s, "templates", found), name)

createEntry(s, tab, t, a) ==
    IF \E e \in s[tab] : e.id = a.id THEN Err(s, "conflict")
    ELSE Ok(InsertRow(s, tab, [id |-> a.id, user |-> Me, upd |-> FormatUTCMillis(Coalesce(a.upd, t)),
                               arch |-> FormatUTCMillis(a.arch)]), a.id)

setArchivedAt(s, tab, t, id, arch) ==
    LET found == {e \in s[tab] : e.id = id} IN
    IF found = {} THEN Err(s, "not_found")
    ELSE LET old == CHOOSE e \in found : TRUE
         IN  Ok(UpdateTouched(s, tab, old, [old EXCEPT !.arch = FormatUTCMillis(arch)], t), id)

\* Only a strictly newer import replaces an entry.
upsertEntryForImport(s, tab, t, a) ==
    LET found == {e \in s[tab] : e.id = a.id} IN
    IF found = {} THEN [createEntry(s, tab, t, a) EXCEPT !.val = TRUE]
    ELSE LET old == CHOOSE e \in found : TRUE
             new == [old EXCEPT !.upd = FormatUTCMillis(a.upd), !.arch = FormatUTCMillis(a.arch)]
         IN  IF a.upd <= old.upd THEN Ok(s, FALSE)
             ELSE Ok(UpdateTouched(s, tab, old, new, t), TRUE)

CreateProject(s, t, a) == createEntry(s, "projects", t, a)

ArchiveProject(s, t, id) == setArchivedAt(s, "projects", t, id, t)

RestoreProject(s, t, id) == setArchivedAt(s, "projects", t, id, None)

UpsertProjectForImport(s, t, a) == upsertEntryForImport(s, "projects", t, a)

CreateDevice(s, t, a) == createEntry(s, "devices", t, a)

ArchiveDevice(s, t, id) == setArchivedAt(s, "devices", t, id, t)

RestoreDevice(s, t, id) == setArchivedAt(s, "devices", t, id, None)

UpsertDeviceForImport(s, t, a) == upsertEntryForImport(s, "devices", t, a)

UpsertProjectPath(s, t, a) ==
    LET row == [user |-> Me, proj |-> a.proj, path |-> a.path, dev |-> a.dev,
                upd |-> FormatUTCMillis(Coalesce(a.upd, t))]
        known == \E p \in s.paths : p.proj = a.proj /\ p.path = a.path /\ p.dev = a.dev
    IN  IF known THEN Ok(s, FALSE)
        ELSE IF ~RecordRefs(s, a) THEN Err(s, "foreign_key")
        ELSE Ok(InsertRow(s, "paths", row), TRUE)

---------------------------------------------------------------------------
(* Chat sessions and items *)

PathsOf(s, c) == {p \in s.paths : p.dev = c.dev /\ InDirectory(p.path, c.cwd)}

\* ORDER BY length(path) DESC, project_id LIMIT 1
longestPathProject(s, c) ==
    (CHOOSE p \in PathsOf(s, c) : \A q \in PathsOf(s, c) :
        \/ Len(p.path) > Len(q.path)
        \/ Len(p.path) = Len(q.path) /\ p.proj <= q.proj).proj

BackfillChatProjects(s, t) ==
    LET open == {c \in s.sessions : c.proj = None /\ PathsOf(s, c) # {}}
        filled(c) == [c EXCEPT !.proj = longestPathProject(s, c), !.upd = FormatUTCMillis(t)]
    IN  Ok(SyncBump([s EXCEPT !.sessions = (@ \ open) \cup {filled(c) : c \in open}],
                    Cardinality(open)),
           Cardinality(open))

SessionRefs(s, a) == /\ a.proj # None => \E p \in s.projects : p.id = a.proj
                     /\ \E d \in s.devices : d.id = a.dev

sessionRow(a, t) ==
    [id |-> a.id, user |-> Me, src |-> a.src, dev |-> a.dev, proj |-> a.proj,
     cwd |-> a.cwd, title |-> a.title, start |-> FormatUTCMillis(a.start),
     last |-> FormatUTCMillis(a.last), orig |-> a.orig,
     upd |-> FormatUTCMillis(Coalesce(a.upd, t)), del |-> FormatUTCMillis(a.del)]

\* INSERT ... ON CONFLICT (source, source_session_id) DO UPDATE
upsertChatSessionTx(s, t, a) ==
    LET same == {c \in s.sessions : c.src = a.src}
        row  == sessionRow(a, t)
    IN  IF same = {} /\ recordIDExists(s, a.id) THEN Err(s, "conflict")
        ELSE IF same = {} /\ chatSessionIDExists(s, a.id) THEN Err(s, "conflict")
        ELSE IF ~SessionRefs(s, a) THEN Err(s, "foreign_key")
        ELSE IF same = {} THEN Ok(InsertRow(s, "sessions", row), [id |-> a.id, created |-> TRUE])
        ELSE LET old == CHOOSE c \in same : TRUE
                 new == [old EXCEPT !.dev = row.dev, !.proj = Coalesce(row.proj, @),
                            !.cwd = Coalesce(row.cwd, @), !.title = Coalesce(row.title, @),
                            !.start = Lesser(@, row.start), !.last = Greater(@, row.last),
                            !.orig = row.orig, !.upd = row.upd,
                            !.del = IF a.clearDel THEN None ELSE row.del]
             IN  Ok(UpdateTouched(s, "sessions", old, new, t), [id |-> old.id, created |-> FALSE])

UpsertChatSession(s, t, a) == upsertChatSessionTx(s, t, a)

ItemsOf(s, id) == {i \in s.items : i.sess = id}

\* A repeated or stored ordinal fails the whole transaction.
insertChatItemsTx(s, id, items) ==
    LET rows == {[sess |-> id, ord |-> items[i].ord, text |-> items[i].text] : i \in DOMAIN items}
        ord(i) == i.ord
    IN  IF \/ Repeats(Column(items, ord))
           \/ \E i \in rows, j \in ItemsOf(s, id) : i.ord = j.ord
        THEN Err(s, "conflict")
        ELSE Ok(SyncBump([s EXCEPT !.items = @ \cup rows], Len(items)), id)

\* Mutant: the statements run outside a transaction.
NoRollback(s, r) == r

\* In a transaction an error leaves the store as it was.
Rollback(s, r) == IF r.err = None THEN r ELSE Err(s, r.err)

UpsertChatSessionWithItems(s, t, a) ==
    LET up  == upsertChatSessionTx(s, t, a)
        del == DeleteRows(up.store, "items", ItemsOf(s, up.val.id))
        ins == insertChatItemsTx(del, up.val.id, a.items)
    IN  IF up.err # None THEN up
        ELSE Rollback(s, [ins EXCEPT !.val = up.val])

SoftDeleteChatSession(s, t, id) ==
    IF ~chatSessionIDExists(s, id) THEN Err(s, "not_found")
    ELSE LET old == CHOOSE c \in s.sessions : c.id = id
             new == [old EXCEPT !.del = Coalesce(@, FormatUTCMillis(t))]
         IN  Ok(UpdateTouched(s, "sessions", old, new, t), id)

RestoreChatSession(s, t, id) ==
    LET found == {c \in s.sessions : c.id = id /\ c.del # None} IN
    IF found = {} THEN Err(s, "not_found")
    ELSE LET old == CHOOSE c \in found : TRUE
         IN  Ok(UpdateTouched(s, "sessions", old, [old EXCEPT !.del = None], t), id)

DeleteChatSession(s, id) ==
    LET found == {c \in s.sessions : c.id = id}
    IN  IF found = {} THEN Err(s, "not_found")
        ELSE Ok(DeleteRows(DeleteRows(s, "sessions", found), "items", ItemsOf(s, id)), id)

CreateChatItem(s, a) ==
    IF ~chatSessionIDExists(s, a.id) THEN Err(s, "foreign_key")
    ELSE insertChatItemsTx(s, a.id, a.items)

AppendChatItems(s, a) ==
    IF ~chatSessionIDExists(s, a.id) THEN Err(s, "not_found")
    ELSE insertChatItemsTx(s, a.id, a.items)

ReplaceChatItems(s, a) ==
    IF ~chatSessionIDExists(s, a.id) THEN Err(s, "not_found")
    ELSE Rollback(s, insertChatItemsTx(DeleteRows(s, "items", ItemsOf(s, a.id)), a.id, a.items))

MaxChatItemOrdinal(s, id) ==
    LET ords == {i.ord : i \in ItemsOf(s, id)}
    IN  IF ords = {} THEN None ELSE CHOOSE o \in ords : \A p \in ords : p <= o

---------------------------------------------------------------------------
(* Queries.  A filter is [del, proj, body, data, after, before]. *)

listRecordsPredicate(s, r, f) ==
    /\ CASE f.del = "only"    -> r.del # None
         [] f.del = "include" -> TRUE
         [] f.del = "exclude" -> r.del = None
    /\ f.proj = None \/ r.proj = f.proj
    /\ ~f.body \/ r.body # None
    /\ ~f.data \/ \E d \in s.dataFiles : d.rec = r.id
    /\ f.after = None \/ r.upd >= FormatUTCMillis(f.after)
    /\ f.before = None \/ r.upd <= FormatUTCMillis(f.before)

ListRecords(s, f) == {r \in s.records : listRecordsPredicate(s, r, f)}

CountRecords(s, f) == Cardinality(ListRecords(s, f))

CountRecordChildren(s, ids) ==
    [i \in ids |-> [figures |-> Cardinality({x \in s.figures : x.rec = i}),
                    dataFiles |-> Cardinality({x \in s.dataFiles : x.rec = i})]]

CountActiveRecords(s) == Cardinality({r \in s.records : r.del = None})

CountTrashedRecords(s) == Cardinality({r \in s.records : r.del # None})

ListRecordFigures(s, id) == {f \in s.figures : f.rec = id}

ListRecordDataFiles(s, id) == {d \in s.dataFiles : d.rec = id}

ListTemplates(s) == s.templates

ListProjects(s, archived) == {p \in s.projects : archived \/ p.arch = None}

ListDevices(s, archived) == {d \in s.devices : archived \/ d.arch = None}

ListProjectPaths(s, proj) == {p \in s.paths : proj = None \/ p.proj = proj}

\* Filter fields: del, proj (None: any), unassigned, dev, from, to, after.
chatSessionPredicate(c, f) ==
    /\ CASE f.del = "only"    -> c.del # None
         [] f.del = "include" -> TRUE
         [] f.del = "exclude" -> c.del = None
    /\ f.proj = None \/ c.proj = f.proj
    /\ ~f.unassigned \/ c.proj = None
    /\ f.dev = None \/ c.dev = f.dev
    /\ f.from = None \/ c.last >= FormatUTCMillis(f.from)
    /\ f.to = None \/ c.last <= FormatUTCMillis(f.to)
    /\ f.after = None \/ c.upd >= FormatUTCMillis(f.after)

ListChatSessions(s, f) == {c \in s.sessions : chatSessionPredicate(c, f)}

CountChatSessions(s, f) == Cardinality(ListChatSessions(s, f))

ListChatItems(s, id) == ItemsOf(s, id)

CountChatItems(s, includeDeleted) ==
    Cardinality({i \in s.items :
        includeDeleted \/ \E c \in s.sessions : c.id = i.sess /\ c.del = None})

\* Items whose text holds the query; the index is kept by triggers.
SearchChatItems(s, q) ==
    {i \in s.items : /\ i.text = q.text
                     /\ \E c \in s.sessions :
                          /\ c.id = i.sess
                          /\ q.deleted \/ c.del = None
                          /\ q.proj = None \/ c.proj = q.proj}

CountSearchChatItems(s, q) == Cardinality(SearchChatItems(s, q))

searchRecords(s, q) ==
    {r \in s.records : /\ r.body = q.text
                       /\ q.deleted \/ r.del = None
                       /\ q.proj = None \/ r.proj = q.proj}

=============================================================================
