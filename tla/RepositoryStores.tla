------------------------- MODULE RepositoryStores -------------------------
(* The vocabulary in which RepositoriesProofs speaks of stores: when one is *)
(* well formed, what a change makes of it, what of it can be read, what     *)
(* moves its versions, and what the contract sees of it.                   *)
EXTENDS Repositories, FiniteSets

---------------------------------------------------------------------------
(* Well-formed stores *)

\* Tables whose rows name their owner, and all tables.
OwnedTables == {"records", "sessions", "projects", "devices", "paths"}

ChildTables == {"figures", "dataFiles"}

Tables == OwnedTables \cup ChildTables \cup {"items", "templates"}

RecordCols == {"id", "user", "proj", "dev", "body", "upd", "del"}

SessionCols == {"id", "user", "src", "dev", "proj", "cwd", "title", "start", "last",
                "orig", "upd", "del"}

EntryCols == {"id", "user", "upd", "arch"}

ChildCols == {"rec", "name", "meta"}

TemplateCols == {"name", "html", "upd"}

PathCols == {"user", "proj", "path", "dev", "upd"}

\* Rows have the columns that an UPDATE assigns; directories can be compared.
RowsTyped(s) ==
    /\ \A r \in s.records : DOMAIN r = RecordCols
    /\ \A c \in s.sessions : DOMAIN c = SessionCols
    /\ \A e \in s.projects : DOMAIN e = EntryCols
    /\ \A e \in s.devices : DOMAIN e = EntryCols
    /\ \A f \in s.figures : DOMAIN f = ChildCols
    /\ \A f \in s.dataFiles : DOMAIN f = ChildCols
    /\ \A x \in s.templates : DOMAIN x = TemplateCols
    /\ \A p \in s.paths : DOMAIN p = PathCols /\ p.path \in Seq(Nat) /\ p.proj \in Nat
    /\ \A c \in s.sessions : c.cwd = None \/ c.cwd \in Seq(Nat)

\* Primary keys and unique indexes.
RecordsUnique(s) == \A r, q \in s.records : r.id = q.id => r = q

SessionsUnique(s) ==
    /\ \A c, d \in s.sessions : c.id = d.id => c = d
    /\ \A c, d \in s.sessions : c.src = d.src /\ c.user = d.user => c = d

NamesUnique(rows) == \A f, g \in rows : f.rec = g.rec /\ f.name = g.name => f = g

OrdinalsUnique(rows) == \A i, j \in rows : i.sess = j.sess /\ i.ord = j.ord => i = j

Unique(s) ==
    /\ RecordsUnique(s) /\ SessionsUnique(s)
    /\ NamesUnique(s.figures) /\ NamesUnique(s.dataFiles) /\ OrdinalsUnique(s.items)

\* The parts of ReferencesHold, of one store.
ChildRefs(s, rows) == \A f \in rows : \E r \in s.records : r.id = f.rec

ItemRefs(s) == \A i \in s.items : \E c \in s.sessions : c.id = i.sess

RecordRefsHold(s) == \A r \in s.records : ProjectExists(s, r) /\ DeviceExists(s, r)

PathRefs(s) == \A p \in s.paths : ProjectExists(s, p) /\ DeviceExists(s, p)

SessionRefsHold(s) ==
    \A c \in s.sessions : (c.proj # None => ProjectExists(s, c)) /\ DeviceExists(s, c)

Apart(s) == \A r \in s.records, c \in s.sessions : r.user = c.user => r.id # c.id

Refs(s) ==
    /\ ChildRefs(s, s.figures) /\ ChildRefs(s, s.dataFiles) /\ ItemRefs(s)
    /\ RecordRefsHold(s) /\ PathRefs(s) /\ SessionRefsHold(s) /\ Apart(s)

IsStore(s) == DOMAIN s = DOMAIN EmptyStore

Wf(s) == IsStore(s) /\ RowsTyped(s) /\ Unique(s) /\ Refs(s)

\* What an account v reads of the tables that name no owner.
ChildrenOf(s, tab, v) == {f \in s[tab] : \E r \in s.records : r.user = v /\ r.id = f.rec}

ItemsSeenBy(s, v) == {i \in s.items : \E c \in s.sessions : c.user = v /\ c.id = i.sess}

UserRows(s, tab, v) == {r \in s[tab] : r.user = v}

\* From s to t nothing changed for any account but u.
Untouched(s, t, u) ==
    \A v : v # u =>
        /\ \A tab \in OwnedTables : UserRows(t, tab, v) = UserRows(s, tab, v)
        /\ \A tab \in ChildTables : ChildrenOf(t, tab, v) = ChildrenOf(s, tab, v)
        /\ ItemsSeenBy(t, v) = ItemsSeenBy(s, v)

\* What every call of u makes of a well-formed store.
Good(s, t, u) == Wf(t) /\ Untouched(s, t, u)

---------------------------------------------------------------------------
(* Kinds of change of one table *)

\* t is a store that differs from s in the tables tabs at most.
Alters(s, t, tabs) == IsStore(t) /\ \A k \in Tables \ tabs : t[k] = s[k]

Inserts(s, t, tab, rows) == Alters(s, t, {tab}) /\ t[tab] = s[tab] \cup rows

Removes(s, t, tab, rows) == Alters(s, t, {tab}) /\ t[tab] = s[tab] \ rows

Swaps(s, t, tab, old, new) == Alters(s, t, {tab}) /\ t[tab] = (s[tab] \ {old}) \cup {new}

\* The row that stands for old after an UPDATE: new, possibly stamped.
Stamped(new, x) == x = new \/ \E m : x = [new EXCEPT !.upd = m]

\* An UPDATE with the trigger of updated_at, which SQLite runs as a second one.
Updates(s, t, tab, old, new) ==
    /\ Alters(s, t, {tab})
    /\ \E x, gone : /\ Stamped(new, x) /\ old \in gone /\ gone \subseteq {old, new}
                    /\ t[tab] = (s[tab] \ gone) \cup {x}

\* All rows of a store are u's, as in a local database.
OwnedBy(s, u) == \A tab \in OwnedTables : \A r \in s[tab] : r.user = u

ChildRows(id, children) ==
    {[rec |-> id, name |-> children[i].name, meta |-> children[i].meta] : i \in DOMAIN children}

DistinctNames(children) ==
    \A i, j \in DOMAIN children : i # j => children[i].name # children[j].name

\* The items of a list, and their ordinals.
ItemRows(id, items) ==
    {[sess |-> id, ord |-> items[i].ord, text |-> items[i].text] : i \in DOMAIN items}

DistinctOrds(items) == \A i, j \in DOMAIN items : i # j => items[i].ord # items[j].ord

\* What an upsert of a session returns: an error, or the session that is there.
Upserted(s, q, u) ==
    /\ Good(s, q.store, u) /\ Alters(s, q.store, {"sessions"})
    /\ q.err = None => \E c \in q.store.sessions : c.id = q.val.id /\ c.user = u

---------------------------------------------------------------------------
(* The inductive invariant of the specification *)

Counted == workload \in Workloads /\ calls \in 0..MaxCalls /\ now \in Nat

\* The inductive invariant: both stores are well formed, and every row of the
\* local one is the caller's, which its queries take for granted.
IInv == Counted /\ Wf(sq) /\ OwnedBy(sq, Me) /\ Wf(pg)

\* What every call of the caller keeps.
Kept == IInv' /\ Untouched(pg, pg', Me)

---------------------------------------------------------------------------
(* What can be read of a store, what moves its versions and dates its rows *)

\* An account's rows by table, and the same without the templates.
AllRows(recs, sess, kids, items, ents, tpls) ==
    [records |-> recs, sessions |-> sess, children |-> kids, items |-> items,
     entries |-> ents, templates |-> tpls]

\* What RowsOf shows of v, with the templates given.
ReadBy(s, v, tpls) ==
    AllRows({Columns(r) : r \in UserRows(s, "records", v)},
            {Columns(c) : c \in UserRows(s, "sessions", v)},
            ChildrenOf(s, "figures", v) \cup ChildrenOf(s, "dataFiles", v), ItemsSeenBy(s, v),
            {Columns(e) : e \in UserRows(s, "projects", v) \cup UserRows(s, "devices", v)
                                  \cup UserRows(s, "paths", v)}, tpls)

FiniteTables(s) == \A tab \in Tables : IsFiniteSet(s[tab])

\* A store whose triggers can be counted.
Counting(s) == IsStore(s) /\ FiniteTables(s) /\ s.fired \in [Users -> Nat]

\* What can be read of a table: RowsOf shows items whole.
ViewOf(tab, rows) == IF tab = "items" THEN rows ELSE {Columns(r) : r \in rows}

SameView(s, t) == \A tab \in Tables : ViewOf(tab, t[tab]) = ViewOf(tab, s[tab])

\* A call of u that changes what can be read moves u's version, and one that
\* changes the templates the version of everybody in all.
Told(s, t, u, all) ==
    /\ Counting(t) /\ \A v \in Users : t.fired[v] >= s.fired[v]
    /\ t.fired[u] = s.fired[u] => SameView(s, t)
    /\ \A v \in all : t.fired[v] = s.fired[v] =>
          ViewOf("templates", t.templates) = ViewOf("templates", s.templates)

\* The tables that sync lists by updated_at.
SyncTables == {"records", "sessions"}

\* A row written at m: not older than m if the caller gave no time (w is None),
\* and never with the time of the row it replaces, m excepted.
Fresh(rows, x, m, w) ==
    /\ w = None => x.upd >= m
    /\ \A q \in rows : q.id = x.id /\ q.upd = x.upd => x.upd = m

Dated(s, t, m, w) ==
    \A tab \in SyncTables : \A r \in t[tab] :
        Columns(r) \in ViewOf(tab, s[tab]) \/ Fresh(s[tab], r, m, w)

Aside(s, t) == \A tab \in SyncTables : t[tab] = s[tab]

SQTold(s, t) == Told(s, t, Me, {Me})

PGTold(s, t, u) == Told(s, t, u, Users)

SQSeen(s, t, k, w) == SQTold(s, t) /\ Dated(s, t, FormatUTCMillis(k), w)

PGSeen(s, t, u, k, w) == PGTold(s, t, u) /\ Dated(s, t, k, w)

OnlyTable(s, t, tab) == \A k \in Tables \ {tab} : t[k] = s[k]

\* A row inserted, and a row that an UPDATE assigns.
New(rows, x, m, w) == (w = None => x.upd >= m) /\ \A q \in rows : q.id # x.id

Assigned(rows, old, new, m, w) ==
    /\ {"id", "upd"} \subseteq DOMAIN new /\ new.id = old.id
    /\ \A q \in rows : q.id = old.id => q = old
    /\ w = None => new.upd = old.upd \/ new.upd >= m

IsList(l) == Len(l) \in Nat /\ DOMAIN l = 1..Len(l)

RowsFrom(rows, l) == \E f : DOMAIN f = DOMAIN l /\ rows = {f[i] : i \in DOMAIN l}

\* n rows written, none of them only if nothing is seen of it.
Listing(s, tab, n, more) ==
    IsFiniteSet(more) /\ n \in Nat /\ (n = 0 => ViewOf(tab, more) = ViewOf(tab, s[tab]))

EntryTables == {"projects", "devices"}

SInv == IInv /\ FiniteTables(sq) /\ FiniteTables(pg)

\* A step taken by u, at w if the caller gave the time of the change.
StepSeen(u) ==
    \E w : /\ SQSeen(Unfired(sq), sq', now, w) /\ PGSeen(Unfired(pg), pg', u, now, w)
           /\ call'.stamp => w = None

---------------------------------------------------------------------------
(* The contract, on stores: what the caller's view of a store is, and what *)
(* the contract lets an accepted call make of it *)

\* The status of every ID in the rows of one account.
Stat(rows) == [i \in Ids |-> StatusOf(rows, i)]

Recs(s) == Stat(OwnRows(s, "records"))

Chats_(s) == Stat(OwnRows(s, "sessions"))

SameRecs(s, t) == Recs(t) = Recs(s)

SameChats(s, t) == Chats_(t) = Chats_(s)

SameKids(s, t) == ChildNames(t) = ChildNames(s)

SameItems(s, t) == ItemNames(t) = ItemNames(s)

SameEntries(s, t) == EntryNames(t) = EntryNames(s)

Moved(t) == t.fired[Me] > 0

SetsRec(s, t, i, sts) == \E st \in sts : Recs(t) = [Recs(s) EXCEPT ![i] = st]

SetsChat(s, t, i, sts) == \E st \in sts : Chats_(t) = [Chats_(s) EXCEPT ![i] = st]

\* Only children, only items of i change.
KidsOf(s, t, i) ==
    {c \in ChildNames(t) : c.rec # i} = ChildNames(s) \ {c \in ChildNames(s) : c.rec = i}

ItemsOfChat(s, t, i) ==
    {x \in ItemNames(t) : x.sess # i} = ItemNames(s) \ {x \in ItemNames(s) : x.sess = i}

AtMostOne(S) == Cardinality(S) <= 1

ChildOps == {"CreateRecordFigure", "UpdateRecordFigure", "DeleteRecordFigure",
             "CreateRecordDataFile", "UpdateRecordDataFile", "DeleteRecordDataFile"}

EntryOps == {"CreateEntry", "ArchiveEntry", "ImportEntry", "UpsertProjectPath",
             "CreateTemplate", "UpdateTemplate", "DeleteTemplate"}

RecordMeets(op, i, s, t) ==
    /\ SameChats(s, t) /\ SameItems(s, t) /\ SameEntries(s, t)
    /\ \/ /\ op = "CreateRecord" /\ Recs(s)[i] = "absent" /\ Chats_(s)[i] = "absent"
          /\ SetsRec(s, t, i, {"live", "trashed"}) /\ Moved(t) /\ SameKids(s, t)
       \/ /\ op = "UpdateRecord" /\ Recs(s)[i] # "absent"
          /\ SetsRec(s, t, i, {"live", "trashed"}) /\ SameKids(s, t)
       \/ /\ op = "SoftDeleteRecord" /\ Recs(s)[i] # "absent" /\ SameKids(s, t)
          /\ SetsRec(s, t, i, {"trashed"}) /\ (Moved(t) <=> Recs(s)[i] # "trashed")
       \/ /\ op = "RestoreRecord" /\ Recs(s)[i] # "absent" /\ SameKids(s, t)
          /\ SetsRec(s, t, i, {"live"}) /\ (Moved(t) <=> Recs(s)[i] # "live")
       \/ /\ op = "DeleteRecord" /\ Recs(s)[i] # "absent" /\ Moved(t)
          /\ SetsRec(s, t, i, {"absent"})
          /\ ChildNames(t) = ChildNames(s) \ {c \in ChildNames(s) : c.rec = i}
       \/ /\ op = "ReplaceRecordChildren" /\ Chats_(s)[i] = "absent"
          /\ SetsRec(s, t, i, {"live", "trashed"}) /\ KidsOf(s, t, i)

PurgeMeets(s, t) ==
    LET trash == {i \in Ids : Recs(s)[i] = "trashed"} IN
    /\ Recs(t) = [i \in Ids |-> IF i \in trash THEN "absent" ELSE Recs(s)[i]]
    /\ ChildNames(t) = {c \in ChildNames(s) : c.rec \notin trash}
    /\ (Moved(t) <=> trash # {})
    /\ SameChats(s, t) /\ SameItems(s, t) /\ SameEntries(s, t)

ChildMeets(op, i, s, t) ==
    /\ op \in ChildOps /\ Recs(s)[i] # "absent" /\ KidsOf(s, t, i)
    /\ AtMostOne(ChildNames(t) \ ChildNames(s)) /\ AtMostOne(ChildNames(s) \ ChildNames(t))
    /\ ~ SameKids(s, t) => Moved(t)
    /\ SameRecs(s, t) /\ SameChats(s, t) /\ SameItems(s, t) /\ SameEntries(s, t)

ChatMeets(op, i, s, t) ==
    /\ SameRecs(s, t) /\ SameKids(s, t) /\ SameEntries(s, t)
    /\ \/ /\ op \in {"UpsertChatSession", "UpsertChatSessionWithItems"} /\ Recs(s)[i] = "absent"
          /\ SetsChat(s, t, i, {"live", "trashed"}) /\ ItemsOfChat(s, t, i)
          /\ op = "UpsertChatSession" => SameItems(s, t)
       \/ /\ op = "SoftDeleteChatSession" /\ Chats_(s)[i] # "absent" /\ SameItems(s, t)
          /\ SetsChat(s, t, i, {"trashed"}) /\ (Moved(t) <=> Chats_(s)[i] # "trashed")
       \/ /\ op = "RestoreChatSession" /\ Chats_(s)[i] = "trashed" /\ SameItems(s, t)
          /\ SetsChat(s, t, i, {"live"}) /\ Moved(t)
       \/ /\ op = "DeleteChatSession" /\ Chats_(s)[i] # "absent" /\ Moved(t)
          /\ SetsChat(s, t, i, {"absent"})
          /\ ItemNames(t) = ItemNames(s) \ {x \in ItemNames(s) : x.sess = i}
       \/ /\ op \in {"CreateChatItem", "AppendChatItems"} /\ Chats_(s)[i] # "absent"
          /\ SameChats(s, t) /\ ItemNames(s) \subseteq ItemNames(t) /\ ItemsOfChat(s, t, i)
          /\ ~ SameItems(s, t) => Moved(t)
       \/ /\ op = "ReplaceChatItems" /\ Chats_(s)[i] # "absent" /\ SameChats(s, t)
          /\ ItemsOfChat(s, t, i) /\ (~ SameItems(s, t) => Moved(t))

EntryMeets(op, s, t) ==
    /\ op \in EntryOps
    /\ AtMostOne((EntryNames(t) \ EntryNames(s)) \cup (EntryNames(s) \ EntryNames(t)))
    /\ EntryNames(s) \ EntryNames(t) # {} => op = "DeleteTemplate"
    /\ ~ SameEntries(s, t) => Moved(t)
    /\ SameRecs(s, t) /\ SameChats(s, t) /\ SameKids(s, t) /\ SameItems(s, t)

SameView5(s, t) ==
    SameRecs(s, t) /\ SameChats(s, t) /\ SameKids(s, t) /\ SameItems(s, t) /\ SameEntries(s, t)

\* An accepted call op of the caller, on the ID i if it names one.
Accepts(op, i, s, t) ==
    \/ i \in Ids /\ (RecordMeets(op, i, s, t) \/ ChildMeets(op, i, s, t) \/ ChatMeets(op, i, s, t))
    \/ op = "PurgeDeletedRecords" /\ PurgeMeets(s, t)
    \/ EntryMeets(op, s, t)
    \/ op = "BackfillChatProjects" /\ SameView5(s, t)

Refuses(s, t) == SameView5(s, t) /\ ~ Moved(t)

\* The answer r of a call op, on the ID i, is one that the contract allows.
Meets(op, i, s, r) ==
    IF r.err = None THEN Accepts(op, i, s, r.store) ELSE Refuses(s, r.store)

OwnIdsIn(s, tab) == {r.id : r \in OwnRows(s, tab)}

\* The IDs of the caller's records and chats are the ones the contract knows.
Known(s) == OwnIdsIn(s, "records") \subseteq Ids /\ OwnIdsIn(s, "sessions") \subseteq Ids

StatusFor(x) == IF x.del = None THEN "live" ELSE "trashed"

\* x stands in tab for the caller's row of the same ID, if there was one.
Puts(s, t, tab, x) ==
    /\ x.user = Me
    /\ OwnRows(t, tab) = {r \in OwnRows(s, tab) : r.id # x.id} \cup {x}

\* The row of this ID, and no other of the caller's rows, is gone.
Drops(s, t, tab, i) == OwnRows(t, tab) = {r \in OwnRows(s, tab) : r.id # i}

\* A row with this ID and the status of new stands for the old one.
Becomes(s, t, tab, i, new) ==
    \E x : Puts(s, t, tab, x) /\ x.id = i /\ StatusFor(x) = StatusFor(new)

KidNames(tab, rows, ids) == {[tab |-> tab, rec |-> c.rec, name |-> c.name] : c \in {d \in rows : d.rec \in ids}}

Tells(s, t) == ~ SameView5(s, t) => Moved(t)

Ready(s) == Wf(s) /\ Counting(s) /\ s.fired[Me] = 0 /\ Known(s)

Fits(op, i, s, r) == Meets(op, i, s, r) /\ Known(r.store)

\* A write of one record row.
RecordSet(s, t, i, st) ==
    /\ Recs(t) = [Recs(s) EXCEPT ![i] = st]
    /\ SameChats(s, t) /\ SameItems(s, t) /\ SameEntries(s, t) /\ SameKids(s, t) /\ Known(t)

\* What the deletion of some of the caller's records leaves.
RecordsGone(s, t, gone) ==
    /\ Recs(t) = [i \in Ids |-> IF i \in gone THEN "absent" ELSE Recs(s)[i]]
    /\ ChildNames(t) = {c \in ChildNames(s) : c.rec \notin gone}
    /\ SameChats(s, t) /\ SameItems(s, t) /\ SameEntries(s, t) /\ Known(t)

KidName(tab, f) == [tab |-> tab, rec |-> f.rec, name |-> f.name]

\* A write of one session row.
SessionSet(s, t, i, st) ==
    /\ Chats_(t) = [Chats_(s) EXCEPT ![i] = st]
    /\ SameRecs(s, t) /\ SameItems(s, t) /\ SameEntries(s, t) /\ SameKids(s, t) /\ Known(t)

ItemName(x) == [sess |-> x.sess, ord |-> x.ord]

\* An upsert refused the chat, or stored it under v.id.
UpsertMade(s, up, t, v) ==
    /\ up = PG!Ok(t, v) /\ v.id \in Ids /\ Recs(s)[v.id] = "absent" /\ Alters(s, t, {"sessions"})
    /\ \E st \in {"live", "trashed"} : SessionSet(s, t, v.id, st)

RegistryTables == {"projects", "devices", "paths", "templates"}

\* The entry that a row of such a table is, and whether the caller sees it.
EntryOf(tab, e) ==
    CASE tab = "paths" -> EntryName(tab, e.proj, e.path, e.dev)
      [] tab = "templates" -> EntryName(tab, e.name, <<>>, 0)
      [] OTHER -> EntryName(tab, e.id, <<>>, 0)

Shown(tab, e) == tab = "templates" \/ e.user = Me

MeetsContract == Known(pg') /\ CloudContract!Next
=============================================================================
