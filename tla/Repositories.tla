---------------------------- MODULE Repositories ----------------------------
(***************************************************************************)
(* The two backends side by side.  A caller (a command, sync, the snapshot *)
(* import) makes the same call of the repository interface on the local    *)
(* SQLite store and on its account of the Postgres store, as the contract  *)
(* suite does; another account works in the same Postgres database.        *)
(* Calls that name an ID of the other account go to Postgres only.         *)
(*                                                                         *)
(* A behaviour picks one workload: a family of calls over a store that is  *)
(* prepared for it.  MaxCalls bounds its length.                           *)
(***************************************************************************)
EXTENDS RepositoryTables

CONSTANTS Me, Other,       \* the two accounts
          Workloads,       \* families of calls to explore
          MaxCalls

VARIABLES sq,              \* the SQLite store
          pg,              \* the Postgres store
          call,            \* the last call: [op, id, stamp]; stamp: it gave no updated_at
          reply,           \* what each backend answered: [sq, pg]
          now,             \* clock, TicksPerMilli readings per millisecond
          workload, calls

vars == <<sq, pg, call, reply, now, workload, calls>>

SQ == INSTANCE SQLiteRepository
PG == INSTANCE PostgresRepository

ASSUME AccountsAssumption == Users = {Me, Other} /\ Me # Other

ASSUME CallsAssumption == MaxCalls \in Nat

---------------------------------------------------------------------------
(* Names.  r1, r2: records of the caller; c1, c2: chats; x, y: a record and *)
(* a chat of the other account.  Projects and devices are numbers; 1 is     *)
(* registered, 2 is not.                                                    *)

Mine    == {"r1", "r2", "c1", "c2"}
Foreign == {"x", "y"}
Ids     == Mine \cup Foreign

Row(id, user) == [id |-> id, user |-> user, proj |-> 1, dev |-> 1, body |-> "b",
                  upd |-> 0, del |-> None]

Session(id, user, src) ==
    [id |-> id, user |-> user, src |-> src, dev |-> 1, proj |-> None,
     cwd |-> <<1, 2>>, title |-> None, start |-> 2, last |-> 2, orig |-> "o",
     upd |-> 0, del |-> None]

Entry(id, user) == [id |-> id, user |-> user, upd |-> 0, arch |-> None]

\* A store in which the caller has a record with a figure and a chat.
Prepared(user, rec, chat, src) ==
    [EmptyStore EXCEPT
        !.records = {Row(rec, user)}, !.figures = {[rec |-> rec, name |-> "a", meta |-> "m"]},
        !.sessions = {Session(chat, user, src)},
        !.items = {[sess |-> chat, ord |-> 0, text |-> "b"]},
        !.projects = {Entry(1, user)}, !.devices = {Entry(1, user)}]

\* The rows of two accounts in one database.
Merge(s, t) == [k \in DOMAIN s |-> IF k = "fired" THEN s[k] ELSE s[k] \cup t[k]]

\* No call of the caller was answered.
NoReply == [err |-> None, val |-> None]

Init == /\ sq = Prepared(Me, "r1", "c1", "s1")
        /\ pg = Merge(Prepared(Me, "r1", "c1", "s1"), Prepared(Other, "x", "y", "s1"))
        /\ call = [op |-> None, id |-> None, stamp |-> TRUE]
        /\ reply = [sq |-> NoReply, pg |-> NoReply]
        /\ now = TicksPerMilli + 1
        /\ workload \in Workloads
        /\ calls = 0

---------------------------------------------------------------------------
(* Calls *)

\* The stores as a call finds them: its own trigger firings are not yet there.
Unfired(s) == [s EXCEPT !.fired = [u \in Users |-> 0]]

Answer(r) == [err |-> r.err, val |-> r.val]

\* IDs are random: an account meets one of the other's only while that holds it.
Held(id, user) == \E row \in pg.records \cup pg.sessions : row.id = id /\ row.user = user

\* A call on both stores, or on Postgres only when it names a foreign ID.
CallAt(op, id, upd, onSQ, onPG) ==
    /\ calls < MaxCalls /\ calls' = calls + 1
    /\ id \in Foreign => Held(id, Other)
    /\ pg' = onPG.store
    /\ sq' = IF id \in Foreign THEN Unfired(sq) ELSE onSQ.store
    /\ reply' = [sq |-> IF id \in Foreign THEN Answer(onPG) ELSE Answer(onSQ),
                 pg |-> Answer(onPG)]
    /\ call' = [op |-> op, id |-> id, stamp |-> upd = None]
    /\ now' = now + 1
    /\ UNCHANGED workload

Call(op, id, onSQ, onPG) == CallAt(op, id, None, onSQ, onPG)

\* Inputs of a record: timestamps absent (a command), old or current (sync),
\* a tombstone set or cleared or left, an unregistered project.
RecordInputs(ids) ==
    LET tombs == {<<FALSE, None>>, <<TRUE, None>>, <<TRUE, 1>>}
        good == {[id |-> i, proj |-> 1, dev |-> 1, body |-> b, upd |-> u,
                  setDel |-> d[1], del |-> d[2]] :
                    i \in ids, b \in {"k", None}, u \in {None, 1}, d \in tombs}
        bad == {[id |-> i, proj |-> 2, dev |-> 1, body |-> "b", upd |-> None,
                 setDel |-> FALSE, del |-> None] : i \in ids}
    IN  good \cup bad

Records ==
    /\ workload = "records"
    /\ LET S == Unfired(sq)  G == Unfired(pg) IN
       \/ \E a \in RecordInputs({"r2", "c1", "x"}) :
             CallAt("CreateRecord", a.id, a.upd, SQ!CreateRecord(S, now, a), PG!CreateRecord(G, Me, now, a))
       \/ \E a \in RecordInputs({"r1", "r2", "x"}) :
             CallAt("UpdateRecord", a.id, a.upd, SQ!UpdateRecord(S, now, a), PG!UpdateRecord(G, Me, now, a))
       \/ \E i \in {"r1", "r2", "x"} :
             \/ Call("SoftDeleteRecord", i, SQ!SoftDeleteRecord(S, now, i),
                     PG!SoftDeleteRecord(G, Me, now, i))
             \/ Call("RestoreRecord", i, SQ!RestoreRecord(S, now, i),
                     PG!RestoreRecord(G, Me, now, i))
             \/ Call("DeleteRecord", i, SQ!DeleteRecord(S, i), PG!DeleteRecord(G, Me, i))
       \/ Call("PurgeDeletedRecords", None, SQ!PurgeDeletedRecords(S),
               PG!PurgeDeletedRecords(G, Me))

\* Inputs of a child: its name, an optional new name and new metadata.
ChildInputs(recs) ==
    {[rec |-> r, name |-> n, meta |-> "m", newName |-> w, newMeta |-> k] :
        r \in recs, n \in {"a", "b"}, w \in {None, "b"}, k \in {None, "k"}}

\* Replacement sets: none, one, two, and a repeated name that must fail late.
Replacements ==
    LET child(n) == [name |-> n, meta |-> "k"]
        row(i, p, u, d, f, g) ==
            [id |-> i, proj |-> p, dev |-> 1, body |-> None, upd |-> u, setDel |-> d,
             del |-> None, figures |-> f, dataFiles |-> g]
        lists == {<<<<>>, <<child("a")>>>>, <<<<child("b"), child("a")>>, <<>>>>,
                  <<<<child("b")>>, <<child("b"), child("b")>>>>}
    IN  {row(i, 1, u, d, l[1], l[2]) :
            i \in {"r1", "r2", "c1", "x"}, u \in {None, 1}, d \in BOOLEAN, l \in lists}
        \cup {row("r1", 2, None, TRUE, <<>>, <<>>)}

Children ==
    /\ workload = "children"
    /\ LET S == Unfired(sq)  G == Unfired(pg) IN
       \/ \E a \in ChildInputs({"r1", "r2", "x"}) :
             \/ Call("UpdateRecordFigure", a.rec, SQ!UpdateRecordFigure(S, a), PG!UpdateRecordFigure(G, Me, a))
             \/ Call("UpdateRecordDataFile", a.rec, SQ!UpdateRecordDataFile(S, a), PG!UpdateRecordDataFile(G, Me, a))
             \/ /\ a.newName = None /\ a.newMeta = None   \* read by updates only
                /\ \/ Call("CreateRecordFigure", a.rec, SQ!CreateRecordFigure(S, a), PG!CreateRecordFigure(G, Me, a))
                   \/ Call("DeleteRecordFigure", a.rec, SQ!DeleteRecordFigure(S, a), PG!DeleteRecordFigure(G, Me, a))
                   \/ Call("CreateRecordDataFile", a.rec, SQ!CreateRecordDataFile(S, a), PG!CreateRecordDataFile(G, Me, a))
                   \/ Call("DeleteRecordDataFile", a.rec, SQ!DeleteRecordDataFile(S, a), PG!DeleteRecordDataFile(G, Me, a))
       \/ \E a \in Replacements :
             CallAt("ReplaceRecordChildren", a.id, a.upd, SQ!ReplaceRecordChildren(S, now, a),
                  PG!ReplaceRecordChildren(G, Me, now, a))
       \/ Call("DeleteRecord", "r1", SQ!DeleteRecord(S, "r1"), PG!DeleteRecord(G, Me, "r1"))

\* Inputs of a chat.  Callers pass the stored ID of a known source or a new one.
ChatInput(i, c, p, k, u, d, its) ==
    [id |-> i, src |-> c, dev |-> 1, proj |-> p, cwd |-> None, title |-> k, start |-> 1,
     last |-> 3, orig |-> None, upd |-> u, del |-> d, clearDel |-> d = None, items |-> its]

ChatIds == {"c1", "c2", "r1", "y"}

\* Every two of project, updated_at and tombstone are set and left out together.
ChatInputs ==
    {ChatInput(i, c, v[1], "k", v[2], v[3], <<>>) :
        i \in ChatIds, c \in {"s1", "s2"},
        v \in {<<None, None, None>>, <<1, None, 1>>, <<None, 1, 1>>, <<1, 1, None>>}}
    \cup {ChatInput("c1", "s1", 2, None, None, None, <<>>)}

\* Item lists: none, two, and a repeated ordinal that must fail late.
ChatWithItemsInputs ==
    LET two == <<[ord |-> 0, text |-> "k"], [ord |-> 1, text |-> "b"]>>
        repeated == <<[ord |-> 1, text |-> "k"], [ord |-> 1, text |-> "k"]>>
    IN  {ChatInput(i, c, None, None, None, v[1], v[2]) :
            i \in ChatIds, c \in {"s1", "s2"},
            v \in {<<None, <<>>>>, <<None, repeated>>, <<None, two>>, <<1, two>>}}

IdFits(s, a) == \A c \in s.sessions : c.id = a.id => c.src = a.src

ItemInputs ==
    {[id |-> i, items |-> its] : i \in {"c1", "c2", "y"},
        its \in {<<[ord |-> 0, text |-> "k"]>>, <<[ord |-> 1, text |-> "k"]>>,
                 <<[ord |-> 1, text |-> "b"], [ord |-> 2, text |-> "k"]>>}}

\* The ID under which an upsert stored the chat, or the one it was refused for.
StoredId(r, a) == IF r.err = None THEN r.val.id ELSE a.id

Chats ==
    /\ workload = "chats"
    /\ LET S == Unfired(sq)  G == Unfired(pg) IN
       \/ \E a \in {b \in ChatInputs : IdFits(sq, b)} :
             CallAt("UpsertChatSession", StoredId(PG!UpsertChatSession(G, Me, now, a), a), a.upd,
                     SQ!UpsertChatSession(S, now, a), PG!UpsertChatSession(G, Me, now, a))
       \/ \E a \in {b \in ChatWithItemsInputs : IdFits(sq, b)} :
             CallAt("UpsertChatSessionWithItems",
                       StoredId(PG!UpsertChatSessionWithItems(G, Me, now, a), a), a.upd,
                     SQ!UpsertChatSessionWithItems(S, now, a), PG!UpsertChatSessionWithItems(G, Me, now, a))
       \/ \E i \in {"c1", "c2", "y"} :
             \/ Call("SoftDeleteChatSession", i, SQ!SoftDeleteChatSession(S, now, i), PG!SoftDeleteChatSession(G, Me, now, i))
             \/ Call("RestoreChatSession", i, SQ!RestoreChatSession(S, now, i), PG!RestoreChatSession(G, Me, now, i))
             \/ Call("DeleteChatSession", i, SQ!DeleteChatSession(S, i), PG!DeleteChatSession(G, Me, i))
       \/ \E a \in ItemInputs :
             \/ Call("CreateChatItem", a.id, SQ!CreateChatItem(S, [a EXCEPT !.items = <<@[1]>>]),
                     PG!CreateChatItem(G, Me, [a EXCEPT !.items = <<@[1]>>]))
             \/ Call("AppendChatItems", a.id, SQ!AppendChatItems(S, a), PG!AppendChatItems(G, Me, a))
             \/ Call("ReplaceChatItems", a.id, SQ!ReplaceChatItems(S, a), PG!ReplaceChatItems(G, Me, a))

\* Imports carry the timestamps of a snapshot, which have milliseconds.
EntryInputs == {[id |-> i, upd |-> u, arch |-> r] :
                  i \in {1, 2}, u \in {0, FormatUTCMillis(now)}, r \in {None, 0}}

TemplateInputs == {[name |-> 1, html |-> h, upd |-> u] : h \in {"b", "k"}, u \in {None, 1}}

PathInputs == {[proj |-> p, path |-> d, dev |-> v, upd |-> None] :
                 p \in {1, 2}, d \in {<<1>>, <<1, 2>>, <<2>>}, v \in {1, 2}}

Registry ==
    /\ workload = "registry"
    /\ LET S == Unfired(sq)  G == Unfired(pg) IN
       \/ \E a \in EntryInputs :
             \/ Call("CreateEntry", None, SQ!CreateProject(S, now, a), PG!CreateProject(G, Me, now, a))
             \/ Call("CreateEntry", None, SQ!CreateDevice(S, now, a), PG!CreateDevice(G, Me, now, a))
             \/ Call("ImportEntry", None, SQ!UpsertProjectForImport(S, now, a), PG!UpsertProjectForImport(G, Me, now, a))
             \/ Call("ImportEntry", None, SQ!UpsertDeviceForImport(S, now, a), PG!UpsertDeviceForImport(G, Me, now, a))
       \/ \E i \in {1, 2} :
             \/ Call("ArchiveEntry", None, SQ!ArchiveProject(S, now, i), PG!ArchiveProject(G, Me, now, i))
             \/ Call("ArchiveEntry", None, SQ!RestoreProject(S, now, i), PG!RestoreProject(G, Me, now, i))
             \/ Call("ArchiveEntry", None, SQ!ArchiveDevice(S, now, i), PG!ArchiveDevice(G, Me, now, i))
             \/ Call("ArchiveEntry", None, SQ!RestoreDevice(S, now, i), PG!RestoreDevice(G, Me, now, i))
       \/ \E a \in PathInputs :
             Call("UpsertProjectPath", None, SQ!UpsertProjectPath(S, now, a), PG!UpsertProjectPath(G, Me, now, a))
       \/ Call("BackfillChatProjects", None, SQ!BackfillChatProjects(S, now), PG!BackfillChatProjects(G, Me, now))
       \/ \E a \in TemplateInputs :
             \/ Call("CreateTemplate", None, SQ!CreateTemplate(S, now, a), PG!CreateTemplate(G, Me, now, a))
             \/ Call("UpdateTemplate", None, SQ!UpdateTemplate(S, now, a), PG!UpdateTemplate(G, Me, now, a))
             \/ Call("DeleteTemplate", None, SQ!DeleteTemplate(S, a.name), PG!DeleteTemplate(G, Me, a.name))

---------------------------------------------------------------------------
(* The other account, naming its own rows and the caller's. *)

ForeignWrites(G) ==
    LET rec(i) == [id |-> i, proj |-> 1, dev |-> 1, body |-> None, upd |-> None,
                   setDel |-> TRUE, del |-> 1, figures |-> <<>>, dataFiles |-> <<>>]
        chat(i) == [id |-> i, src |-> "s1", dev |-> 1, proj |-> 1, cwd |-> None, title |-> "k",
                    start |-> 1, last |-> 3, orig |-> None, upd |-> None, del |-> 1,
                    clearDel |-> FALSE, items |-> <<>>]
        child(i) == [rec |-> i, name |-> "a", meta |-> "k", newName |-> "b", newMeta |-> "k"]
        onRecord(i) == {PG!CreateRecord(G, Other, now, rec(i)).store,
                        PG!UpdateRecord(G, Other, now, rec(i)).store,
                        PG!ReplaceRecordChildren(G, Other, now, rec(i)).store,
                        PG!DeleteRecord(G, Other, i).store,
                        PG!UpdateRecordFigure(G, Other, child(i)).store,
                        PG!CreateRecordFigure(G, Other, child(i)).store}
        onChat(i) == {PG!UpsertChatSessionWithItems(G, Other, now, chat(i)).store,
                      PG!DeleteChatSession(G, Other, i).store,
                      PG!ReplaceChatItems(G, Other, [id |-> i, items |-> <<>>]).store}
        records == {k \in {"r1", "x"} : k = "r1" => Held(k, Me)}
        chats == {k \in {"c1", "y"} : k = "c1" => Held(k, Me)}
    IN  (UNION {onRecord(i) : i \in records}) \cup (UNION {onChat(i) : i \in chats})
        \cup {PG!PurgeDeletedRecords(G, Other).store, PG!BackfillChatProjects(G, Other, now).store,
              PG!ArchiveProject(G, Other, now, 1).store,
              PG!CreateTemplate(G, Other, now, [name |-> 2, html |-> "b", upd |-> None]).store}

AnotherUser ==
    /\ calls < MaxCalls /\ calls' = calls + 1
    /\ pg' \in ForeignWrites(Unfired(pg))
    /\ sq' = Unfired(sq)
    /\ call' = [op |-> "AnotherUser", id |-> None, stamp |-> TRUE]
    /\ reply' = [sq |-> NoReply, pg |-> NoReply]
    /\ now' = now + 1
    /\ UNCHANGED workload

Next == Records \/ Children \/ Chats \/ Registry \/ AnotherUser

Spec == Init /\ [][Next]_vars

---------------------------------------------------------------------------
(* What the caller sees of each store, at the precision both can hold. *)

\* A row without its owner and updated_at, times in milliseconds.
Seen(row) ==
    [k \in DOMAIN row \ {"user", "upd"} |->
        IF k \in {"del", "arch", "start", "last"} THEN FormatUTCMillis(row[k]) ELSE row[k]]

SeenAll(rows) == {Seen(r) : r \in rows}

RecordFilters ==
    {[del |-> d, proj |-> p, body |-> b, data |-> g, after |-> None, before |-> None] :
        d \in {"only", "include", "exclude"}, p \in {None, 1}, b \in BOOLEAN, g \in BOOLEAN}

ChatFilters ==
    {[del |-> d, proj |-> p, unassigned |-> n, dev |-> 1, from |-> 2, to |-> None, after |-> None] :
        d \in {"only", "include", "exclude"}, p \in {None, 1}, n \in BOOLEAN}

Queries == {[text |-> "k", deleted |-> d, proj |-> None] : d \in BOOLEAN}

OthersTemplates == {2}

\* Every query of the interface gives the caller the same answer on both.
SameAnswers ==
    /\ \A f \in RecordFilters :
          /\ SeenAll(SQ!ListRecords(sq, f)) = SeenAll(PG!ListRecords(pg, Me, f))
          /\ SQ!CountRecords(sq, f) = PG!CountRecords(pg, Me, f)
    /\ SQ!CountRecordChildren(sq, Mine) = PG!CountRecordChildren(pg, Me, Mine)
    /\ SQ!CountActiveRecords(sq) = PG!CountActiveRecords(pg, Me)
    /\ SQ!CountTrashedRecords(sq) = PG!CountTrashedRecords(pg, Me)
    /\ \A i \in Mine :
          /\ SeenAll(SQ!ListRecordFigures(sq, i)) = SeenAll(PG!ListRecordFigures(pg, Me, i))
          /\ SeenAll(SQ!ListRecordDataFiles(sq, i)) = SeenAll(PG!ListRecordDataFiles(pg, Me, i))
          /\ SQ!ListChatItems(sq, i) = PG!ListChatItems(pg, Me, i)
          /\ SQ!MaxChatItemOrdinal(sq, i) = PG!MaxChatItemOrdinal(pg, Me, i)
    /\ \A b \in BOOLEAN :
          /\ SeenAll(SQ!ListProjects(sq, b)) = SeenAll(PG!ListProjects(pg, Me, b))
          /\ SeenAll(SQ!ListDevices(sq, b)) = SeenAll(PG!ListDevices(pg, Me, b))
          /\ SQ!CountChatItems(sq, b) = PG!CountChatItems(pg, Me, b)
    /\ SeenAll(SQ!ListProjectPaths(sq, None)) = SeenAll(PG!ListProjectPaths(pg, Me, None))
    /\ SeenAll(SQ!ListTemplates(sq)) =
          SeenAll({x \in PG!ListTemplates(pg) : x.name \notin OthersTemplates})
    /\ \A f \in ChatFilters :
          /\ SeenAll(SQ!ListChatSessions(sq, f)) = SeenAll(PG!ListChatSessions(pg, Me, f))
          /\ SQ!CountChatSessions(sq, f) = PG!CountChatSessions(pg, Me, f)
    /\ \A q \in Queries :
          /\ SQ!SearchChatItems(sq, q) = PG!SearchChatItems(pg, Me, q)
          /\ SQ!CountSearchChatItems(sq, q) = PG!CountSearchChatItems(pg, Me, q)
          /\ SeenAll(SQ!searchRecords(sq, q)) = SeenAll(PG!searchRecords(pg, Me, q))

---------------------------------------------------------------------------
(* Properties *)

\* Every reachable value is well formed: identities are unique and calls bounded.
TypeOK ==
    /\ workload \in Workloads /\ calls \in 0..MaxCalls /\ now \in Nat
    /\ \A s \in {sq, pg} :
          /\ DOMAIN s = DOMAIN EmptyStore
          /\ \A r, q \in s.records : r.id = q.id => r = q
          /\ \A c, d \in s.sessions : c.id = d.id => c = d
          /\ \A c, d \in s.sessions : c.src = d.src /\ c.user = d.user => c = d
          /\ \A tab \in {"figures", "dataFiles"} : \A f, g \in s[tab] :
                f.rec = g.rec /\ f.name = g.name => f = g
          /\ \A i, j \in s.items : i.sess = j.sess /\ i.ord = j.ord => i = j

\* The two backends are interchangeable: whatever was called before, they
\* answer a call alike and every query returns the same rows.  The one known
\* exception is the error of CreateChatItem for a missing session (a foreign
\* key error in SQLite, not found in Postgres).
BackendsAgree ==
    /\ SameAnswers
    /\ (reply.sq # reply.pg) =>
          /\ call.op = "CreateChatItem"
          /\ reply.sq.err = "foreign_key" /\ reply.pg.err = "not_found"

\* The project, the device that a row names is registered by the row's owner.
ProjectExists(s, row) == \E p \in s.projects : p.user = row.user /\ p.id = row.proj

DeviceExists(s, row) == \E d \in s.devices : d.user = row.user /\ d.id = row.dev

\* No sequence of calls, by either account, leaves a child, item, path, record
\* or chat whose parent is gone, or one ID that is both a record and a chat.
ReferencesHold ==
    \A s \in {sq, pg} :
        /\ \A f \in s.figures \cup s.dataFiles : \E r \in s.records : r.id = f.rec
        /\ \A i \in s.items : \E c \in s.sessions : c.id = i.sess
        /\ \A row \in s.records \cup s.paths : ProjectExists(s, row)
        /\ \A c \in s.sessions : c.proj # None => ProjectExists(s, c)
        /\ \A row \in s.records \cup s.sessions \cup s.paths : DeviceExists(s, row)
        /\ \A r \in s.records, c \in s.sessions : r.user = c.user => r.id # c.id

\* The rows of one account, as another device would fetch them.
RowsOf(s, u) ==
    LET recs == {r \in s.records : r.user = u}
        sess == {c \in s.sessions : c.user = u}
    IN  [records |-> {Columns(r) : r \in recs}, sessions |-> {Columns(c) : c \in sess},
         children |-> {f \in s.figures \cup s.dataFiles : \E r \in recs : r.id = f.rec},
         items |-> {i \in s.items : \E c \in sess : c.id = i.sess},
         entries |-> {Columns(e) : e \in {x \in s.projects \cup s.devices \cup s.paths : x.user = u}},
         templates |-> {Columns(x) : x \in s.templates}]

\* Polling: whatever changes what an account can read also moves its sync
\* version in the same call, for both backends and for both accounts, so a
\* client that compares versions misses nothing.
VersionMoves ==
    [][/\ RowsOf(sq, Me)' # RowsOf(sq, Me) => sq'.fired[Me] > 0
       /\ \A u \in Users : RowsOf(pg, u)' # RowsOf(pg, u) => pg'.fired[u] > 0]_vars

\* The rows of tab that a call changed or added, apart from updated_at.
Changed(s, t, tab) == {r \in t[tab] : Columns(r) \notin {Columns(q) : q \in s[tab]}}

After(t) == [del |-> "include", proj |-> None, body |-> FALSE, data |-> FALSE,
             after |-> t, before |-> None, unassigned |-> FALSE, dev |-> None,
             from |-> None, to |-> None]

\* Sync's window: a change made without an explicit updated_at is listed by a
\* query from the time just before it; and a changed row never keeps its old
\* updated_at unless that is the time of the call, so no two versions of a row
\* tie in conflict resolution.
ChangesAreListed ==
    [][/\ call'.stamp =>
            /\ Changed(sq, sq', "records") \subseteq SQ!ListRecords(sq', After(now))
            /\ Changed(sq, sq', "sessions") \subseteq SQ!ListChatSessions(sq', After(now))
            /\ \A r \in Changed(pg, pg', "records") : r \in PG!ListRecords(pg', r.user, After(now))
            /\ \A c \in Changed(pg, pg', "sessions") : c \in PG!ListChatSessions(pg', c.user, After(now))
       /\ \A tab \in {"records", "sessions"} :
            /\ \A r \in Changed(sq, sq', tab), q \in sq[tab] :
                  r.id = q.id /\ r.upd = q.upd => r.upd = FormatUTCMillis(now)
            /\ \A r \in Changed(pg, pg', tab), q \in pg[tab] :
                  r.id = q.id /\ r.upd = q.upd => r.upd = now]_vars

\* What a client that polls or syncs relies on: every change moves the version
\* that tells it to ask, and is in the answer when it asks.
EveryChangeIsSeen == VersionMoves /\ ChangesAreListed

\* Nothing the caller does, naming whatever ID, touches the other account.
OthersUntouched ==
    [][call'.op # "AnotherUser" =>
        [RowsOf(pg, Other) EXCEPT !.templates = {}]' = [RowsOf(pg, Other) EXCEPT !.templates = {}]]_vars

---------------------------------------------------------------------------
(* Both backends implement the contract. *)

StatusOf(rows, i) ==
    IF \A r \in rows : r.id # i THEN "absent"
    ELSE IF \E r \in rows : r.id = i /\ r.del = None THEN "live" ELSE "trashed"

OwnRows(s, tab) == {r \in s[tab] : r.user = Me}

ChildNames(s) ==
    UNION {{[tab |-> tab, rec |-> c.rec, name |-> c.name] :
              c \in {d \in s[tab] : \E r \in OwnRows(s, "records") : r.id = d.rec}}
           : tab \in {"figures", "dataFiles"}}

ItemNames(s) == {[sess |-> i.sess, ord |-> i.ord] :
                   i \in {j \in s.items : \E c \in OwnRows(s, "sessions") : c.id = j.sess}}

EntryName(tab, id, path, dev) == [tab |-> tab, id |-> id, path |-> path, dev |-> dev]

EntryNames(s) ==
    (UNION {{EntryName(tab, e.id, <<>>, 0) : e \in OwnRows(s, tab)} : tab \in {"projects", "devices"}})
    \cup {EntryName("paths", p.proj, p.path, p.dev) : p \in OwnRows(s, "paths")}
    \cup {EntryName("templates", x.name, <<>>, 0) : x \in s.templates}

Refused(r) == r.err # None

LocalContract == INSTANCE RepositoryContract WITH
    refused <- Refused(reply.sq), records <- [i \in Ids |-> StatusOf(OwnRows(sq, "records"), i)],
    chats <- [i \in Ids |-> StatusOf(OwnRows(sq, "sessions"), i)],
    children <- ChildNames(sq), items <- ItemNames(sq), entries <- EntryNames(sq),
    moved <- sq.fired[Me] > 0

CloudContract == INSTANCE RepositoryContract WITH
    refused <- Refused(reply.pg), records <- [i \in Ids |-> StatusOf(OwnRows(pg, "records"), i)],
    chats <- [i \in Ids |-> StatusOf(OwnRows(pg, "sessions"), i)],
    children <- ChildNames(pg), items <- ItemNames(pg), entries <- EntryNames(pg),
    moved <- pg.fired[Me] > 0

\* SQLite implements the contract: a refused call changes nothing, an accepted
\* one exactly what it names.
LocalImplementsContract == LocalContract!Spec

\* So does Postgres, for one account, while another one writes to it.
CloudImplementsContract == CloudContract!Spec

=============================================================================
